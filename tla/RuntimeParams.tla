--------------------------- MODULE RuntimeParams ---------------------------
(***************************************************************************)
(* RuntimeParams once it is constructed (framework/MOM_file_parser.cpp):   *)
(* the components of the model read their parameters from a table that is  *)
(* never written again, within the open block, and every read that says    *)
(* what it is for is documented by the DocFileWriter the object owns.      *)
(* FileParser has the constructor; here the table is any it can produce.   *)
(***************************************************************************)
EXTENDS DocFileWriter

CONSTANTS
    Unset,     \* "no such key": not a value
    Types,     \* the C++ types a value may hold and a caller may ask for
    TypeOf,    \* the type a value holds
    Layouts    \* bound: the (layout_param, debugging_param) pairs of a get

ASSUME ParamsAssumption ==
    /\ Unset \notin Values
    /\ \A v \in Values : TypeOf[v] \in Types
    /\ BaseNames = {"base"}
    /\ EnabledFiles = {Files}
    /\ Layouts \subseteq BOOLEAN \X BOOLEAN

VARIABLES
    table,         \* table_: full name -> value
    currentBlock   \* current_block_

rpVars == <<docVars, table, currentBlock>>

\* ParamGetOptions, with the type T the caller asks for.
Options == [type : Types, default : Values \cup {NoDefault}, required : BOOLEAN,
            doNotRead : BOOLEAN, doNotLog : BOOLEAN, flags : Layouts]

RpInit ==
    /\ Init
    /\ table \in [FullNames -> Values \cup {Unset}]
    /\ currentBlock = NoBlock

(***************************************************************************)
(* get<T>.  It throws on a value or a default of another type and on a     *)
(* required key that is missing; otherwise it answers with the value, else *)
(* with the default, else it leaves the caller's variable as it was.       *)
(***************************************************************************)
Bound(name, o) == ~o.doNotRead /\ table[name] # Unset

GetThrows(name, o) ==
    \/ Bound(name, o) /\ TypeOf[table[name]] # o.type
    \/ ~Bound(name, o) /\ ~o.doNotRead /\ o.required
    \/ ~Bound(name, o) /\ o.default # NoDefault /\ TypeOf[o.default] # o.type

HasAnswer(name, o) == Bound(name, o) \/ o.default # NoDefault
Answer(name, o) == IF Bound(name, o) THEN table[name] ELSE o.default

\* The default that is documented: only one of the requested type.
TypedDefault(o) ==
    IF o.default # NoDefault /\ TypeOf[o.default] = o.type THEN o.default ELSE NoDefault

Get(p, o) ==
    LET name == <<currentBlock, p>> IN
    /\ UNCHANGED <<table, currentBlock>>
    /\ \/ /\ GetThrows(name, o)
          /\ result' = "rejected"
          /\ UNCHANGED <<docState, docHistory>>
       \/ /\ ~GetThrows(name, o)
          /\ ~HasAnswer(name, o) \/ o.doNotLog
          /\ result' = "ok"
          /\ UNCHANGED <<docState, docHistory>>
       \/ /\ ~GetThrows(name, o)
          /\ HasAnswer(name, o)
          /\ ~o.doNotLog
          /\ DocParam(p, [value |-> Answer(name, o), default |-> TypedDefault(o)],
                      TRUE, FALSE, o.flags[1], o.flags[2])

\* The block is open for reads before the writer is asked to open it, and
\* closed for reads before the writer is asked to close it.
RpOpenBlock(b, described) ==
    /\ UNCHANGED table
    /\ \/ /\ currentBlock # NoBlock
          /\ result' = "rejected"
          /\ UNCHANGED <<docState, docHistory, currentBlock>>
       \/ /\ currentBlock = NoBlock
          /\ currentBlock' = b
          /\ OpenBlock(b, described)

\* Mutant of RpCloseBlock: only the reads leave the block.
RpCloseBlockReadsOnly ==
    /\ currentBlock' = NoBlock
    /\ UNCHANGED <<docVars, table>>

RpCloseBlock ==
    /\ UNCHANGED table
    /\ \/ /\ currentBlock = NoBlock
          /\ result' = "rejected"
          /\ UNCHANGED <<docState, docHistory, currentBlock>>
       \/ /\ currentBlock # NoBlock
          /\ currentBlock' = NoBlock
          /\ CloseBlock

RpDocModule(m, described, r, allDefault) ==
    /\ DocModule(m, described, r[1], r[2], allDefault)
    /\ UNCHANGED <<table, currentBlock>>

RpCloseModule ==
    /\ CloseModule
    /\ UNCHANGED <<table, currentBlock>>

RpDiskFull(f) ==
    /\ DiskFull(f)
    /\ UNCHANGED <<table, currentBlock>>

RpNext ==
    \/ \E p \in Params, o \in Options : Get(p, o)
    \/ \E b \in Blocks, described \in BOOLEAN : RpOpenBlock(b, described)
    \/ RpCloseBlock
    \/ \E m \in Modules, described \in BOOLEAN, r \in ModuleFlags, d \in AllDefaults :
          RpDocModule(m, described, r, d)
    \/ RpCloseModule
    \/ \E f \in Files : RpDiskFull(f)

RpSpec == RpInit /\ [][RpNext]_rpVars

-----------------------------------------------------------------------------
(* The type of the object's own state.                                     *)
RpTypeOK ==
    /\ table \in [FullNames -> Values \cup {Unset}]
    /\ currentBlock \in Blocks \cup {NoBlock}

(* Reads and documentation are in the same block as long as no call has    *)
(* reported an I/O failure: a read is never documented under another name  *)
(* than the one it was looked up by.                                       *)
BlocksAgree == ~reported => currentBlock = block

(* Read back as parameter files, .all and .short have every parameter in   *)
(* the block it belongs to and balanced block markers, so they give the    *)
(* values the run used; so does what has reached the disk at any moment,   *)
(* but for a block that is still open there.  This needs modules without layout, debugging and  *)
(* all_default flags: the markers follow the module's flags, the lines     *)
(* the parameter's.                                                        *)
RereadsSame ==
    ~reported =>
        \A f \in {"all", "short"} :
            /\ seen[f].block = currentBlock
            /\ \A v \in {seen[f], onDisk[f]} :
                  /\ ~v.broken
                  /\ \A l \in v.lines : l.block = l.name[1] /\ l.mesg.value = documented[l.name].value
=============================================================================
