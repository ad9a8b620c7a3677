---------------------------- MODULE DocFileWriter ----------------------------
(***************************************************************************)
(* The writer of the MOM_parameter_doc files (framework/MOM_document.cpp): *)
(* lazily opened streams, module and block state, duplicate detection and  *)
(* the routing of every line to those of the .all, .short, .layout and     *)
(* .debugging files that are enabled.  A file is kept as what a reader of  *)
(* the parameter-file syntax makes of it: the block its markers leave      *)
(* open, and the set of its parameter lines, each with the block it is     *)
(* read in; once of what its stream was given and once of what has reached *)
(* the disk.  The blank lines and headings of modules are not kept, and    *)
(* the warnings that are logged are left out.                              *)
(* Streams may fail: opening any of the files may fail, and a disk may     *)
(* stop taking data at any moment.  A stream notices that when it flushes: *)
(* after a line with a description, on close(), or when its buffer         *)
(* overflows.                                                              *)
(***************************************************************************)
EXTENDS Naturals, FiniteSets, Sequences

CONSTANTS
    Blocks,        \* block names
    NoBlock,       \* the empty block name
    Modules,       \* module names
    NoModule,      \* the empty module name
    Params,        \* variable names
    Values,        \* parameter values
    NoDefault,     \* "no default was given": not a value
    NoMesg,        \* "not documented yet": not a message
    BaseNames,     \* possible doc_file_base_: "" disables documentation
    EnabledFiles,  \* the sets of files a constructor enables
    Fragile        \* bound: the files whose disk may fill up

ASSUME DocAssumption ==
    /\ NoBlock \notin Blocks
    /\ NoModule \notin Modules
    /\ NoDefault \notin Values
    /\ BaseNames \subseteq {"", "base"}
    /\ EnabledFiles \subseteq SUBSET {"all", "short", "layout", "debugging"}
    /\ Fragile \subseteq {"all", "short", "layout", "debugging"}

VARIABLES
    base,           \* doc_file_base_
    enabled,        \* the files whose `enabled` is set
    openAttempted,  \* open_attempted_
    filesOpen,      \* files_are_open_
    streams,        \* the files whose stream is open
    full,           \* the files whose disk takes no more data
    bad,            \* the files whose stream has noticed (badbit)
    block,          \* current_block_name_, and block_prefix_ with it
    module,         \* current_module_ and its three flags
    documented,     \* documented_: full name -> message
    seen,           \* what the streams were given, as a reader would see it
    onDisk,         \* what of it the disk has, likewise
    result,         \* how the last call ended
    callerBlock,    \* history: the block the caller has opened by contract
    reported,       \* history: some call reported an I/O failure
    told            \* history: what the call that documented a full name said of it

docState == <<base, enabled, openAttempted, filesOpen, streams, full, bad, block, module,
              documented, seen, onDisk>>
docHistory == <<callerBlock, reported, told>>
docVars == <<docState, result, docHistory>>

Files == {"all", "short", "layout", "debugging"}
OpenOrder == <<"all", "short", "layout", "debugging">>

FullNames == (Blocks \cup {NoBlock}) \X Params

\* A message names a parameter's value and its default; the text also names
\* its units, which differ between two callers as the default may.
Mesgs == [value : Values, default : Values \cup {NoDefault}]

\* What a call of doc_param says besides the message.
Told == [layout : BOOLEAN, debugging : BOOLEAN, described : BOOLEAN]

Closed == [name |-> NoModule, layout |-> FALSE, debugging |-> FALSE, allDefault |-> FALSE]

ModuleStates ==
    [name : Modules \cup {NoModule}, layout : BOOLEAN, debugging : BOOLEAN, allDefault : BOOLEAN]

\* What a reader has of a file: the open block, the parameter lines, and
\* whether a closing marker ever met no such block.
Lines == [block : Blocks \cup {NoBlock}, name : FullNames, mesg : Mesgs]
Views == [block : Blocks \cup {NoBlock}, lines : SUBSET Lines, broken : BOOLEAN]
Unread == [block |-> NoBlock, lines |-> {}, broken |-> FALSE]

Init ==
    /\ base \in BaseNames
    /\ enabled \in EnabledFiles
    /\ openAttempted = FALSE
    /\ filesOpen = FALSE
    /\ streams = {}
    /\ full = {}
    /\ bad = {}
    /\ block = NoBlock
    /\ module = Closed
    /\ documented = [n \in FullNames |-> NoMesg]
    /\ seen = [f \in Files |-> Unread]
    /\ onDisk = [f \in Files |-> Unread]
    /\ result = "ok"
    /\ callerBlock = NoBlock
    /\ reported = FALSE
    /\ told = [n \in FullNames |-> [layout |-> FALSE, debugging |-> FALSE, described |-> FALSE]]

(***************************************************************************)
(* Streams.                                                                *)
(***************************************************************************)
\* The environment: the disk under an open file fills up.
DiskFull(f) ==
    /\ f \in (streams \cap Fragile) \ full
    /\ full' = full \cup {f}
    /\ UNCHANGED <<base, enabled, openAttempted, filesOpen, streams, bad, block, module,
                   documented, seen, onDisk, result, docHistory>>

\* What open_files may do: nothing when it was tried before or documentation
\* is disabled; else it opens every enabled file, or throws at one of them and
\* leaves those before it open.
OpenOutcomes ==
    IF openAttempted THEN {[streams |-> streams, isOpen |-> filesOpen, threw |-> FALSE]}
    ELSE IF base = "" THEN {[streams |-> streams, isOpen |-> FALSE, threw |-> FALSE]}
    ELSE {[streams |-> enabled, isOpen |-> TRUE, threw |-> FALSE]}
         \cup {[streams |-> enabled \cap {OpenOrder[i] : i \in 1 .. k - 1}, isOpen |-> FALSE,
                 threw |-> TRUE] : k \in {j \in 1 .. Len(OpenOrder) : OpenOrder[j] \in enabled}}

OpenFiles(o) ==
    /\ openAttempted' = TRUE
    /\ streams' = o.streams
    /\ filesOpen' = o.isOpen

\* Mutant of Destinations: layout and debugging lines reach .short as well.
ShortTakesAll(opened, layout, debugging, isDefault) ==
    opened \cap (   (IF ~layout /\ ~debugging THEN {"all"} ELSE {})
               \cup (IF ~isDefault THEN {"short"} ELSE {})
               \cup (IF layout THEN {"layout"} ELSE {})
               \cup (IF debugging THEN {"debugging"} ELSE {}))

\* write_message_and_desc: the files a line goes to.
Destinations(opened, layout, debugging, isDefault) ==
    opened \cap (   (IF ~layout /\ ~debugging THEN {"all"} ELSE {})
               \cup (IF ~layout /\ ~debugging /\ ~isDefault THEN {"short"} ELSE {})
               \cup (IF layout THEN {"layout"} ELSE {})
               \cup (IF debugging THEN {"debugging"} ELSE {}))

\* The destinations whose buffered data goes to the disk with a line: all of
\* them for a line with a description, which is flushed; without one, those
\* whose buffer happens to overflow, which is told apart for fragile disks only.
\* An overflow is taken to empty the buffer, the line with it.
Flushes(dest, described) ==
    IF described THEN {dest} ELSE SUBSET (dest \cap Fragile)

\* Mutant of WriteFails: the streams are checked before they are flushed.
WriteFailsUnflushed(dest, flushed) == dest \cap bad # {}

\* The check of the streams at the end of a write.
WriteFails(dest, flushed) == dest \cap bad # {} \/ flushed \cap full # {}

\* after[f] is what a reader makes of f once it has the line.  A bad stream
\* takes nothing, and a full disk none of what is flushed.
Write(dest, flushed, after) ==
    /\ seen' = [f \in Files |-> IF f \in dest \ bad THEN after[f] ELSE seen[f]]
    /\ onDisk' = [f \in Files |-> IF f \in flushed \ full THEN after[f] ELSE onDisk[f]]
    /\ bad' = bad \cup (flushed \cap full)

\* Outcomes of a call.
Ok == result' = "ok" /\ reported' = reported
IOError == result' = "runtime_error" /\ reported' = TRUE
LogicError(why) == result' = why /\ UNCHANGED <<docState, docHistory>>

(***************************************************************************)
(* mesg_has_been_documented.                                               *)
(***************************************************************************)
\* Mutant: only an identical message counts as documented.
SameAlreadyDocumented(name, mesg) == documented[name] = mesg

AlreadyDocumented(name, mesg) == documented[name] # NoMesg

(***************************************************************************)
(* doc_param, whether or not it is given a description.                    *)
(***************************************************************************)
DocParam(p, mesg, described, likeDefault, layout, debugging) ==
    LET name == <<block, p>>
        equalsDefault == likeDefault \/ mesg.value = mesg.default
        allDefault == module.allDefault /\ equalsDefault
    IN
    \E o \in OpenOutcomes :
        /\ OpenFiles(o)
        /\ IF ~o.isOpen THEN
              /\ IF o.threw THEN IOError ELSE Ok
              /\ UNCHANGED <<bad, module, documented, seen, onDisk, told>>
           ELSE IF AlreadyDocumented(name, mesg) THEN
              Ok /\ UNCHANGED <<bad, module, documented, seen, onDisk, told>>
           ELSE
              LET dest == Destinations(o.streams, layout, debugging, equalsDefault \/ allDefault)
                  line(f) == [block |-> seen[f].block, name |-> name, mesg |-> mesg]
                  after == [f \in Files |-> [seen[f] EXCEPT !.lines = @ \cup {line(f)}]]
              IN
              \E flushed \in Flushes(dest, described) :
                 /\ documented' = [documented EXCEPT ![name] = mesg]
                 /\ told' = [told EXCEPT ![name] = [layout |-> layout, debugging |-> debugging,
                                                    described |-> described]]
                 /\ module' = [module EXCEPT !.allDefault = allDefault]
                 /\ Write(dest, flushed, after)
                 /\ IF WriteFails(dest, flushed) THEN IOError ELSE Ok
        /\ UNCHANGED <<base, enabled, full, block, callerBlock>>

(***************************************************************************)
(* Modules.                                                                *)
(***************************************************************************)
DocModule(m, described, layout, debugging, allDefault) ==
    \E o \in OpenOutcomes :
        /\ OpenFiles(o)
        /\ IF ~o.isOpen THEN
              /\ IF o.threw THEN IOError ELSE Ok
              /\ UNCHANGED <<bad, module, seen, onDisk>>
           ELSE IF module.name = m THEN Ok /\ UNCHANGED <<bad, module, seen, onDisk>>
           ELSE
              LET dest == Destinations(o.streams, layout, debugging, allDefault) IN
              \E flushed \in Flushes(dest, described) :
                 /\ Write(dest, flushed, seen)
                 /\ IF WriteFails(dest, flushed) THEN IOError ELSE Ok
                 /\ module' = IF WriteFails(dest, flushed) THEN Closed
                              ELSE [name |-> m, layout |-> layout, debugging |-> debugging,
                                    allDefault |-> allDefault]
        /\ UNCHANGED <<base, enabled, full, block, documented, callerBlock, told>>

CloseModule ==
    /\ module' = IF filesOpen THEN Closed ELSE module
    /\ Ok
    /\ UNCHANGED <<base, enabled, openAttempted, filesOpen, streams, full, bad, block, documented,
                   seen, onDisk, callerBlock, told>>

(***************************************************************************)
(* Blocks.  A marker is routed by the module's flags.                      *)
(***************************************************************************)
\* Mutant of MarkerFiles: a marker has no value of its own, so it is kept
\* out of .short.
MarkerFilesDefault(opened) ==
    Destinations(opened, module.layout, module.debugging, TRUE)

MarkerFiles(opened) ==
    Destinations(opened, module.layout, module.debugging, module.allDefault)

ReadOpenMarker(v, b) ==
    [v EXCEPT !.block = b, !.broken = @ \/ v.block # NoBlock]
ReadCloseMarker(v, b) ==
    [v EXCEPT !.block = NoBlock, !.broken = @ \/ v.block # b]

OpenBlock(b, described) ==
    \/ block # NoBlock /\ LogicError("open_in_block")
    \/ /\ block = NoBlock
       /\ \E o \in OpenOutcomes :
            /\ OpenFiles(o)
            /\ IF ~o.isOpen THEN
                  /\ IF o.threw THEN IOError ELSE Ok
                  /\ callerBlock' = IF o.threw THEN callerBlock ELSE b
                  /\ UNCHANGED <<bad, block, seen, onDisk>>
               ELSE
                  \E flushed \in Flushes(MarkerFiles(o.streams), described) :
                     LET fails == WriteFails(MarkerFiles(o.streams), flushed) IN
                     /\ Write(MarkerFiles(o.streams), flushed,
                              [f \in Files |-> ReadOpenMarker(seen[f], b)])
                     /\ IF fails THEN IOError ELSE Ok
                     /\ block' = IF fails THEN block ELSE b
                     /\ callerBlock' = IF fails THEN callerBlock ELSE b
            /\ UNCHANGED <<base, enabled, full, module, documented, told>>

\* Mutant of CloseBlock: the name of the block is kept.
CloseBlockKeepsName ==
    \/ block = NoBlock /\ LogicError("close_without_block")
    \/ /\ block # NoBlock
       /\ \E o \in OpenOutcomes :
            /\ OpenFiles(o)
            /\ \E flushed \in Flushes(MarkerFiles(o.streams), FALSE) :
               LET fails == o.isOpen /\ WriteFails(MarkerFiles(o.streams), flushed)
                   after == [f \in Files |-> IF o.isOpen THEN ReadCloseMarker(seen[f], block) ELSE seen[f]]
               IN
               /\ Write(MarkerFiles(o.streams), flushed, after)
               /\ IF o.threw \/ fails THEN IOError ELSE Ok
               /\ callerBlock' = IF o.threw \/ fails THEN callerBlock ELSE NoBlock
               /\ UNCHANGED block
            /\ UNCHANGED <<base, enabled, full, module, documented, told>>

CloseBlock ==
    \/ block = NoBlock /\ LogicError("close_without_block")
    \/ /\ block # NoBlock
       /\ \E o \in OpenOutcomes :
            /\ OpenFiles(o)
            /\ IF ~o.isOpen THEN
                  /\ IF o.threw THEN IOError ELSE Ok
                  /\ callerBlock' = IF o.threw THEN callerBlock ELSE NoBlock
                  /\ UNCHANGED <<bad, block, seen, onDisk>>
               ELSE
                  \E flushed \in Flushes(MarkerFiles(o.streams), FALSE) :
                     LET fails == WriteFails(MarkerFiles(o.streams), flushed) IN
                     /\ Write(MarkerFiles(o.streams), flushed,
                              [f \in Files |-> ReadCloseMarker(seen[f], block)])
                     /\ IF fails THEN IOError ELSE Ok
                     /\ block' = IF fails THEN block ELSE NoBlock
                     /\ callerBlock' = IF fails THEN callerBlock ELSE NoBlock
            /\ UNCHANGED <<base, enabled, full, module, documented, told>>

(***************************************************************************)
(* close(): the module, then each stream in order is flushed and closed,   *)
(* up to the first whose flush fails.  A stream on a full disk fails if it *)
(* still holds bytes: lines that the disk does not have, or text that is   *)
(* not kept here.                                                          *)
(***************************************************************************)
CloseUpTo(failing) ==
    LET fails(i) == OpenOrder[i] \in failing
        closed == {OpenOrder[i] : i \in {j \in 1 .. 4 : \A k \in 1 .. j : ~fails(k)}}
        first == {OpenOrder[i] : i \in {j \in 1 .. 4 : fails(j) /\ \A k \in 1 .. j - 1 : ~fails(k)}}
    IN
    /\ module' = IF filesOpen THEN Closed ELSE module
    /\ streams' = streams \ closed
    /\ filesOpen' = (filesOpen /\ failing # {})
    /\ onDisk' = [f \in Files |-> IF f \in streams \cap closed THEN seen[f] ELSE onDisk[f]]
    /\ bad' = bad \cup first
    /\ IF failing # {} THEN IOError ELSE Ok
    /\ UNCHANGED <<base, enabled, openAttempted, full, block, documented, seen, callerBlock, told>>

Close ==
    \E holding \in SUBSET (streams \cap full) :
        /\ {f \in streams \cap full : seen[f] # onDisk[f]} \subseteq holding
        /\ CloseUpTo((streams \cap bad) \cup holding)

(***************************************************************************)
(* The writer on its own: any sequence of calls.                           *)
(***************************************************************************)
CONSTANTS
    ParamFlags,    \* the (layout, debugging) pairs doc_param is called with
    LikeDefaults,  \* the like_default flags it is called with
    ModuleFlags,   \* the (layout, debugging) pairs doc_module is called with
    AllDefaults    \* the all_default arguments it is called with

ASSUME CallsAssumption ==
    /\ NoMesg \notin Mesgs
    /\ ParamFlags \subseteq BOOLEAN \X BOOLEAN
    /\ LikeDefaults \subseteq BOOLEAN
    /\ ModuleFlags \subseteq BOOLEAN \X BOOLEAN
    /\ AllDefaults \subseteq BOOLEAN

Next ==
    \/ \E p \in Params, mesg \in Mesgs, described \in BOOLEAN, like \in LikeDefaults, r \in ParamFlags :
          DocParam(p, mesg, described, like, r[1], r[2])
    \/ \E m \in Modules, described \in BOOLEAN, r \in ModuleFlags, d \in AllDefaults :
          DocModule(m, described, r[1], r[2], d)
    \/ CloseModule
    \/ \E b \in Blocks, described \in BOOLEAN : OpenBlock(b, described)
    \/ CloseBlock
    \/ Close
    \/ \E f \in Files : DiskFull(f)

Spec == Init /\ [][Next]_docVars

-----------------------------------------------------------------------------
(* The type of the writer's state.                                         *)
DocTypeOK ==
    /\ base \in BaseNames
    /\ enabled \in SUBSET Files
    /\ openAttempted \in BOOLEAN
    /\ filesOpen \in BOOLEAN
    /\ streams \in SUBSET Files
    /\ full \in SUBSET Files
    /\ bad \in SUBSET full
    /\ block \in Blocks \cup {NoBlock}
    /\ module \in ModuleStates
    /\ documented \in [FullNames -> Mesgs \cup {NoMesg}]
    /\ seen \in [Files -> Views]
    /\ onDisk \in [Files -> Views]
    /\ result \in {"ok", "runtime_error", "open_in_block", "close_without_block"}
    /\ callerBlock \in Blocks \cup {NoBlock}
    /\ reported \in BOOLEAN
    /\ told \in [FullNames -> Told]

(* Reading any file back, at any moment or once it is all flushed, meets a *)
(* parameter at most once, and with the very text the first caller         *)
(* documented: duplicate detection is by full name and survives modules,   *)
(* blocks, failed streams and close().                                     *)
WrittenOnce ==
    \A f \in Files : \A l \in seen[f].lines \cup onDisk[f].lines :
        /\ l.mesg = documented[l.name]
        /\ \A k \in seen[f].lines \cup onDisk[f].lines : k.name = l.name => k = l

(* The files a parameter belongs to, by what is said of it. *)
Homes(t) ==
    (IF t.layout THEN {"layout"} ELSE {})
        \cup (IF t.debugging THEN {"debugging"} ELSE {})
        \cup (IF ~t.layout /\ ~t.debugging THEN {"all"} ELSE {})

(* No line is lost in silence.  As long as no call has reported an I/O     *)
(* failure, each parameter that counts as documented has its line in each  *)
(* enabled file it belongs to: on the disk at once if it has a             *)
(* description, and otherwise at the latest when the file has been closed. *)
NoSilentLoss ==
    ~reported =>
        \A n \in FullNames : documented[n] # NoMesg =>
            \A f \in enabled \cap Homes(told[n]) :
                \E l \in seen[f].lines :
                    /\ l.name = n
                    /\ told[n].described \/ f \notin streams => l \in onDisk[f].lines

(* Where both are enabled, the non-default file is given nothing that the  *)
(* complete one is not.                                                    *)
ShortInAll ==
    ~reported /\ "all" \in enabled =>
        \A l \in seen["short"].lines :
            \E k \in seen["all"].lines : k.name = l.name /\ k.mesg = l.mesg

(* While the files are open or still to be opened, and no call has failed, *)
(* the writer is in the block that its caller has opened: no open_block or *)
(* close_block is refused that follows the rules.  Where documentation is  *)
(* off, or after close(), open_block records nothing and the close_block   *)
(* that matches it throws.  (MOM_document.cpp:569)                         *)
BlockIsTheCallers ==
    (filesOpen \/ ~openAttempted) /\ ~reported => block = callerBlock
=============================================================================
