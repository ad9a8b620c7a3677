------------------------ MODULE RuntimeParamsProofs ------------------------
(***************************************************************************)
(* What holds of the documentation writer, by itself and under the reads   *)
(* of parameters, for any names, values and call sequences, and whatever   *)
(* files fail: its types, what the files say, and that reader and writer   *)
(* keep the same open block until a failure has been reported.             *)
(***************************************************************************)
EXTENDS RuntimeParams, TLAPS

\* DocTypeOK but for how calls end
StateTyped ==
    /\ base \in BaseNames
    /\ enabled \in SUBSET Files
    /\ openAttempted \in BOOLEAN
    /\ filesOpen \in BOOLEAN
    /\ streams \in SUBSET Files
    /\ full \in SUBSET Files
    /\ bad \in SUBSET full
    /\ block \in Blocks \cup {NoBlock}
    /\ module \in ModuleStates
    /\ documented \in [FullNames -> Mesgs \cup {NoMesg}]
    /\ seen \in [Files -> Views]
    /\ onDisk \in [Files -> Views]
    /\ callerBlock \in Blocks \cup {NoBlock}
    /\ reported \in BOOLEAN
    /\ told \in [FullNames -> Told]

\* Any call, with any arguments, and calls that do not reach the writer
WriterStep ==
    \/ \E p \in Params, mesg \in Mesgs, described, like, layout, debugging \in BOOLEAN :
          DocParam(p, mesg, described, like, layout, debugging)
    \/ \E m \in Modules, described, layout, debugging, allDefault \in BOOLEAN :
          DocModule(m, described, layout, debugging, allDefault)
    \/ CloseModule
    \/ \E b \in Blocks, described \in BOOLEAN : OpenBlock(b, described)
    \/ CloseBlock
    \/ Close
    \/ \E f \in Files : DiskFull(f)
    \/ UNCHANGED <<docState, docHistory>>

LEMMA NextIsWriterStep == [Next]_docVars => WriterStep
  <1> SUFFICES ASSUME [Next]_docVars PROVE WriterStep
    OBVIOUS
  <1>1. ASSUME NEW p \in Params, NEW mesg \in Mesgs, NEW described \in BOOLEAN, NEW like \in LikeDefaults, NEW r \in ParamFlags,
               DocParam(p, mesg, described, like, r[1], r[2])
        PROVE  WriterStep
    <2>1. like \in BOOLEAN /\ r[1] \in BOOLEAN /\ r[2] \in BOOLEAN
      BY CallsAssumption
    <2> QED  BY <1>1, <2>1 DEF WriterStep
  <1>2. ASSUME NEW m \in Modules, NEW described \in BOOLEAN, NEW r \in ModuleFlags, NEW d \in AllDefaults,
               DocModule(m, described, r[1], r[2], d)
        PROVE  WriterStep
    <2>1. d \in BOOLEAN /\ r[1] \in BOOLEAN /\ r[2] \in BOOLEAN
      BY CallsAssumption
    <2> QED  BY <1>2, <2>1 DEF WriterStep
  <1>3. CASE UNCHANGED docVars
    BY <1>3 DEF WriterStep, docVars
  <1> QED  BY <1>1, <1>2, <1>3 DEF Next, WriterStep

-----------------------------------------------------------------------------
(* Types *)

LEMMA Outcomes ==
    ASSUME StateTyped, NEW o \in OpenOutcomes
    PROVE  /\ o.streams \in SUBSET Files
           /\ o.isOpen \in BOOLEAN /\ o.threw \in BOOLEAN
           /\ o.isOpen => (openAttempted /\ filesOpen /\ o.streams = streams) \/ (~openAttempted /\ o.streams = enabled)
           /\ ~o.threw => o.streams \in {streams, enabled}
           /\ o.threw => ~o.isOpen
           /\ ~o.isOpen => o.threw \/ base = "" \/ (openAttempted /\ ~filesOpen)
  <1>1. CASE openAttempted
    <2>1. o = [streams |-> streams, isOpen |-> filesOpen, threw |-> FALSE]
      BY <1>1 DEF OpenOutcomes
    <2> QED  BY <1>1, <2>1 DEF StateTyped
  <1>2. CASE ~openAttempted /\ base = ""
    <2>1. o = [streams |-> streams, isOpen |-> FALSE, threw |-> FALSE]
      BY <1>2 DEF OpenOutcomes
    <2> QED  BY <1>2, <2>1 DEF StateTyped
  <1>3. CASE ~openAttempted /\ base # ""
    <2>1. CASE o = [streams |-> enabled, isOpen |-> TRUE, threw |-> FALSE]
      BY <1>3, <2>1 DEF StateTyped
    <2>2. ASSUME NEW i,
                 o = [streams |-> enabled \cap {OpenOrder[j] : j \in 1 .. i - 1}, isOpen |-> FALSE, threw |-> TRUE]
          PROVE  o.streams \in SUBSET Files /\ ~o.isOpen /\ o.threw = TRUE /\ o.isOpen = FALSE
      BY <2>2 DEF StateTyped
    <2> QED  BY <1>3, <2>1, <2>2 DEF OpenOutcomes
  <1> QED  BY <1>1, <1>2, <1>3 DEF StateTyped

LEMMA DestinationsTyped ==
    ASSUME NEW opened \in SUBSET Files, NEW layout, NEW debugging, NEW isDefault
    PROVE  Destinations(opened, layout, debugging, isDefault) \in SUBSET Files
  BY DEF Destinations

\* A write flushes some of its destinations
LEMMA FlushesTyped ==
    ASSUME NEW dest \in SUBSET Files, NEW described \in BOOLEAN, NEW flushed \in Flushes(dest, described)
    PROVE  flushed \in SUBSET dest /\ (described => flushed = dest)
  BY DEF Flushes

\* A write that throws if its streams have failed
Wrote(dest, flushed, after) ==
    /\ flushed \in SUBSET dest
    /\ Write(dest, flushed, after)
    /\ WriteFails(dest, flushed) => IOError

LEMMA WriteTyped ==
    ASSUME StateTyped, NEW dest \in SUBSET Files, NEW flushed, NEW after,
           Wrote(dest, flushed, after), \A f \in Files : after[f] \in Views
    PROVE  /\ seen' \in [Files -> Views]
           /\ onDisk' \in [Files -> Views]
           /\ bad' \in SUBSET full
  <1> HIDE DEF Views
  <1> QED  BY DEF StateTyped, Wrote, Write

\* What is on the disk was there, or is all that the stream was given; and a stream
\* that fails is reported
LEMMA WriteMoves ==
    ASSUME StateTyped, NEW dest \in SUBSET Files, NEW flushed, NEW after, Wrote(dest, flushed, after)
    PROVE  /\ \A f \in Files : seen'[f] \in {seen[f], after[f]} /\ onDisk'[f] \in {onDisk[f], seen'[f]}
           /\ bad = {} /\ bad' # {} => reported'
           /\ bad = {} => \A f \in dest : seen'[f] = after[f]
           /\ bad = {} /\ ~reported' => \A f \in flushed : onDisk'[f] = seen'[f]
  BY DEF StateTyped, Wrote, Write, WriteFails, IOError

LEMMA EndTyped == ASSUME StateTyped, Ok \/ IOError PROVE reported' \in BOOLEAN
  BY DEF StateTyped, Ok, IOError

\* What doc_param does: nothing, or a line in the files it is routed to
ParamDefault(mesg, like) == like \/ mesg.value = mesg.default
ParamAllDefault(mesg, like) == module.allDefault /\ ParamDefault(mesg, like)
ParamFiles(o, mesg, like, layout, debugging) ==
    Destinations(o.streams, layout, debugging, ParamDefault(mesg, like) \/ ParamAllDefault(mesg, like))
ParamLine(f, name, mesg) == [block |-> seen[f].block, name |-> name, mesg |-> mesg]
ParamAfter(name, mesg) == [f \in Files |-> [seen[f] EXCEPT !.lines = @ \cup {ParamLine(f, name, mesg)}]]
ParamCall(layout, debugging, described) ==
    [layout |-> layout, debugging |-> debugging, described |-> described]

ParamStep(o, name, mesg, described, like, layout, debugging) ==
    /\ OpenFiles(o)
    /\ IOError \/ Ok
    /\ ~o.isOpen => IF o.threw THEN IOError ELSE Ok
    /\ \/ UNCHANGED <<bad, module, documented, seen, onDisk, told>>
       \/ /\ o.isOpen
          /\ documented[name] = NoMesg
          /\ documented' = [documented EXCEPT ![name] = mesg]
          /\ told' = [told EXCEPT ![name] = ParamCall(layout, debugging, described)]
          /\ module' = [module EXCEPT !.allDefault = ParamAllDefault(mesg, like)]
          /\ \E flushed :
                /\ Wrote(ParamFiles(o, mesg, like, layout, debugging), flushed, ParamAfter(name, mesg))
                /\ described => flushed = ParamFiles(o, mesg, like, layout, debugging)
    /\ UNCHANGED <<base, enabled, full, block, callerBlock>>

LEMMA ParamFilesTyped ==
    ASSUME StateTyped, NEW o \in OpenOutcomes, NEW mesg, NEW like, NEW layout, NEW debugging
    PROVE  ParamFiles(o, mesg, like, layout, debugging) \in SUBSET Files
  BY Outcomes, DestinationsTyped DEF ParamFiles

LEMMA ParamSteps ==
    ASSUME StateTyped, NEW p, NEW mesg, NEW described \in BOOLEAN, NEW like, NEW layout, NEW debugging,
           DocParam(p, mesg, described, like, layout, debugging)
    PROVE  \E o \in OpenOutcomes : ParamStep(o, <<block, p>>, mesg, described, like, layout, debugging)
  <1> DEFINE dest(o) == ParamFiles(o, mesg, like, layout, debugging)
             after == ParamAfter(<<block, p>>, mesg)
             Done == /\ documented' = [documented EXCEPT ![<<block, p>>] = mesg]
                     /\ told' = [told EXCEPT ![<<block, p>>] = ParamCall(layout, debugging, described)]
                     /\ module' = [module EXCEPT !.allDefault = ParamAllDefault(mesg, like)]
  <1>1. PICK o \in OpenOutcomes :
          /\ OpenFiles(o)
          /\ IF ~o.isOpen THEN
                /\ IF o.threw THEN IOError ELSE Ok
                /\ UNCHANGED <<bad, module, documented, seen, onDisk, told>>
             ELSE IF AlreadyDocumented(<<block, p>>, mesg) THEN
                Ok /\ UNCHANGED <<bad, module, documented, seen, onDisk, told>>
             ELSE
                \E flushed \in Flushes(dest(o), described) :
                   /\ Done
                   /\ Write(dest(o), flushed, after)
                   /\ IF WriteFails(dest(o), flushed) THEN IOError ELSE Ok
          /\ UNCHANGED <<base, enabled, full, block, callerBlock>>
    BY Zenon DEF DocParam, ParamDefault, ParamAllDefault, ParamFiles, ParamLine, ParamAfter, ParamCall
  <1>2. dest(o) \in SUBSET Files
    BY ParamFilesTyped
  <1> HIDE DEF after, dest, Done
  <1>3. ASSUME NEW flushed \in Flushes(dest(o), described), Write(dest(o), flushed, after),
               IF WriteFails(dest(o), flushed) THEN IOError ELSE Ok
        PROVE  Wrote(dest(o), flushed, after) /\ (described => flushed = dest(o))
    BY <1>2, <1>3, FlushesTyped DEF Wrote
  <1>4. /\ OpenFiles(o)
        /\ IOError \/ Ok
        /\ ~o.isOpen => IF o.threw THEN IOError ELSE Ok
        /\ \/ UNCHANGED <<bad, module, documented, seen, onDisk, told>>
           \/ /\ o.isOpen
              /\ documented[<<block, p>>] = NoMesg
              /\ Done
              /\ \E flushed : Wrote(dest(o), flushed, after) /\ (described => flushed = dest(o))
        /\ UNCHANGED <<base, enabled, full, block, callerBlock>>
    BY <1>1, <1>3 DEF AlreadyDocumented
  <1> QED  BY <1>4, Zenon DEF ParamStep, after, dest, Done

LEMMA ParamAfterTyped ==
    ASSUME StateTyped, NEW name \in FullNames, NEW mesg \in Mesgs, NEW f \in Files
    PROVE  /\ ParamAfter(name, mesg)[f] \in Views
           /\ ParamAfter(name, mesg)[f].lines = seen[f].lines \cup {ParamLine(f, name, mesg)}
           /\ ParamAfter(name, mesg)[f].block = seen[f].block
           /\ ParamAfter(name, mesg)[f].broken = seen[f].broken
  <1>1. seen[f] \in Views
    BY DEF StateTyped
  <1>2. ParamLine(f, name, mesg) \in Lines
    BY <1>1 DEF ParamLine, Lines, Views
  <1>3. ParamAfter(name, mesg)[f] = [seen[f] EXCEPT !.lines = @ \cup {ParamLine(f, name, mesg)}]
    BY DEF ParamAfter
  <1> QED  BY <1>1, <1>2, <1>3 DEF Views

LEMMA DocParamTyped ==
    ASSUME StateTyped, NEW p \in Params, NEW mesg \in Mesgs, NEW described \in BOOLEAN, NEW like \in BOOLEAN,
           NEW layout \in BOOLEAN, NEW debugging \in BOOLEAN,
           DocParam(p, mesg, described, like, layout, debugging)
    PROVE  StateTyped'
  <1> DEFINE name == <<block, p>>
  <1>1. name \in FullNames
    BY DEF StateTyped, FullNames
  <1>2. ParamAllDefault(mesg, like) \in BOOLEAN
    BY DEF StateTyped, ModuleStates, ParamAllDefault, ParamDefault
  <1>3. \A f \in Files : ParamAfter(name, mesg)[f] \in Views
    BY <1>1, ParamAfterTyped
  <1>4. PICK o \in OpenOutcomes : ParamStep(o, name, mesg, described, like, layout, debugging)
    BY ParamSteps
  <1> HIDE DEF name
  <1>5. openAttempted' \in BOOLEAN /\ filesOpen' \in BOOLEAN /\ streams' \in SUBSET Files
    BY <1>4, Outcomes DEF ParamStep, OpenFiles
  <1>6. reported' \in BOOLEAN
    BY <1>4, EndTyped DEF ParamStep
  <1>7. /\ documented' \in [FullNames -> Mesgs \cup {NoMesg}]
        /\ told' \in [FullNames -> Told]
        /\ module' \in ModuleStates
        /\ seen' \in [Files -> Views]
        /\ onDisk' \in [Files -> Views]
        /\ bad' \in SUBSET full
    <2>1. CASE UNCHANGED <<bad, module, documented, seen, onDisk, told>>
      BY <2>1 DEF StateTyped
    <2>2. ASSUME documented' = [documented EXCEPT ![name] = mesg],
                 told' = [told EXCEPT ![name] = ParamCall(layout, debugging, described)],
                 module' = [module EXCEPT !.allDefault = ParamAllDefault(mesg, like)],
                 NEW flushed,
                 Wrote(ParamFiles(o, mesg, like, layout, debugging), flushed, ParamAfter(name, mesg))
          PROVE  /\ documented' \in [FullNames -> Mesgs \cup {NoMesg}]
                 /\ told' \in [FullNames -> Told]
                 /\ module' \in ModuleStates
                 /\ seen' \in [Files -> Views]
                 /\ onDisk' \in [Files -> Views]
                 /\ bad' \in SUBSET full
      <3>1. seen' \in [Files -> Views] /\ onDisk' \in [Files -> Views] /\ bad' \in SUBSET full
        BY <1>3, <2>2, ParamFilesTyped, WriteTyped
      <3>2. documented' \in [FullNames -> Mesgs \cup {NoMesg}]
        BY <1>1, <2>2 DEF StateTyped
      <3>3. module' \in ModuleStates
        BY <1>2, <2>2 DEF StateTyped, ModuleStates
      <3>4. told' \in [FullNames -> Told]
        <4>1. ParamCall(layout, debugging, described) \in Told
          BY DEF Told, ParamCall
        <4> QED  BY <2>2, <4>1 DEF StateTyped
      <3> QED  BY <3>1, <3>2, <3>3, <3>4
    <2> QED  BY <1>4, <2>1, <2>2 DEF ParamStep
  <1>8. UNCHANGED <<base, enabled, full, block, callerBlock>>
    BY <1>4 DEF ParamStep
  <1> QED  BY <1>5, <1>6, <1>7, <1>8 DEF StateTyped

\* What doc_module does
ModuleStep(o, m, layout, debugging, allDefault) ==
    /\ OpenFiles(o)
    /\ IOError \/ Ok
    /\ ~o.isOpen => IF o.threw THEN IOError ELSE Ok
    /\ module' \in {module, Closed, [name |-> m, layout |-> layout, debugging |-> debugging,
                                     allDefault |-> allDefault]}
    /\ \/ UNCHANGED <<bad, seen, onDisk>>
       \/ \E flushed : Wrote(Destinations(o.streams, layout, debugging, allDefault), flushed, seen)
    /\ UNCHANGED <<base, enabled, full, block, documented, callerBlock, told>>

LEMMA ModuleSteps ==
    ASSUME StateTyped, NEW m, NEW described \in BOOLEAN, NEW layout, NEW debugging, NEW allDefault,
           DocModule(m, described, layout, debugging, allDefault)
    PROVE  \E o \in OpenOutcomes : ModuleStep(o, m, layout, debugging, allDefault)
  <1> DEFINE marked == [name |-> m, layout |-> layout, debugging |-> debugging, allDefault |-> allDefault]
             dest(o) == Destinations(o.streams, layout, debugging, allDefault)
  <1>1. PICK o \in OpenOutcomes :
          /\ OpenFiles(o)
          /\ IF ~o.isOpen THEN
                /\ IF o.threw THEN IOError ELSE Ok
                /\ UNCHANGED <<bad, module, seen, onDisk>>
             ELSE IF module.name = m THEN Ok /\ UNCHANGED <<bad, module, seen, onDisk>>
             ELSE
                \E flushed \in Flushes(dest(o), described) :
                   /\ Write(dest(o), flushed, seen)
                   /\ IF WriteFails(dest(o), flushed) THEN IOError ELSE Ok
                   /\ module' = IF WriteFails(dest(o), flushed) THEN Closed ELSE marked
          /\ UNCHANGED <<base, enabled, full, block, documented, callerBlock, told>>
    BY DEF DocModule
  <1>2. dest(o) \in SUBSET Files
    BY Outcomes, DestinationsTyped
  <1> HIDE DEF marked, dest
  <1>3. ASSUME NEW flushed \in Flushes(dest(o), described), Write(dest(o), flushed, seen),
               IF WriteFails(dest(o), flushed) THEN IOError ELSE Ok
        PROVE  Wrote(dest(o), flushed, seen)
    BY <1>2, <1>3, FlushesTyped DEF Wrote
  <1>4. /\ IOError \/ Ok
        /\ ~o.isOpen => IF o.threw THEN IOError ELSE Ok
        /\ module' \in {module, Closed, marked}
        /\ UNCHANGED <<bad, seen, onDisk>> \/ \E flushed : Wrote(dest(o), flushed, seen)
    BY <1>1, <1>3
  <1> QED  BY <1>1, <1>4 DEF ModuleStep, marked, dest

LEMMA DocModuleTyped ==
    ASSUME StateTyped, NEW m \in Modules, NEW described \in BOOLEAN, NEW layout \in BOOLEAN,
           NEW debugging \in BOOLEAN, NEW allDefault \in BOOLEAN,
           DocModule(m, described, layout, debugging, allDefault)
    PROVE  StateTyped'
  <1>1. PICK o \in OpenOutcomes : ModuleStep(o, m, layout, debugging, allDefault)
    BY ModuleSteps
  <1>2. openAttempted' \in BOOLEAN /\ filesOpen' \in BOOLEAN /\ streams' \in SUBSET Files
    BY <1>1, Outcomes DEF ModuleStep, OpenFiles
  <1>3. reported' \in BOOLEAN
    BY <1>1, EndTyped DEF ModuleStep
  <1>4. module' \in ModuleStates
    <2>1. module \in ModuleStates
      BY DEF StateTyped
    <2>2. Closed \in ModuleStates
      BY DEF ModuleStates, Closed
    <2>3. [name |-> m, layout |-> layout, debugging |-> debugging, allDefault |-> allDefault] \in ModuleStates
      BY DEF ModuleStates
    <2> QED  BY <1>1, <2>1, <2>2, <2>3, Zenon DEF ModuleStep
  <1>5. seen' \in [Files -> Views] /\ onDisk' \in [Files -> Views] /\ bad' \in SUBSET full
    <2>1. \A f \in Files : seen[f] \in Views
      BY DEF StateTyped
    <2>2. CASE UNCHANGED <<bad, seen, onDisk>>
      BY <2>2 DEF StateTyped
    <2>3. ASSUME NEW flushed, Wrote(Destinations(o.streams, layout, debugging, allDefault), flushed, seen)
          PROVE  seen' \in [Files -> Views] /\ onDisk' \in [Files -> Views] /\ bad' \in SUBSET full
      BY <2>1, <2>3, Outcomes, DestinationsTyped, WriteTyped
    <2> QED  BY <1>1, <2>2, <2>3 DEF ModuleStep
  <1> QED  BY <1>1, <1>2, <1>3, <1>4, <1>5 DEF ModuleStep, StateTyped

LEMMA MarkersTyped ==
    ASSUME StateTyped, NEW opened \in SUBSET Files, NEW b \in Blocks \cup {NoBlock}
    PROVE  /\ MarkerFiles(opened) \in SUBSET Files
           /\ \A f \in Files :
                 /\ ReadOpenMarker(seen[f], b) \in Views
                 /\ ReadOpenMarker(seen[f], b).lines = seen[f].lines
                 /\ ReadCloseMarker(seen[f], b) \in Views
                 /\ ReadCloseMarker(seen[f], b).lines = seen[f].lines
  <1>1. MarkerFiles(opened) \in SUBSET Files
    BY DestinationsTyped DEF MarkerFiles
  <1>2. \A f \in Files : seen[f] \in Views
    BY DEF StateTyped
  <1> QED  BY <1>1, <1>2 DEF ReadOpenMarker, ReadCloseMarker, Views

\* What opening or closing a block leaves: lines are kept
MarkerStep(o, b) ==
    /\ o \in OpenOutcomes
    /\ OpenFiles(o)
    /\ IOError \/ Ok
    /\ ~o.isOpen => IF o.threw THEN IOError ELSE Ok
    /\ block' \in {block, b} /\ callerBlock' \in {callerBlock, b}
    /\ o.isOpen /\ Ok => block' = b /\ callerBlock' = b
    /\ \/ UNCHANGED <<bad, seen, onDisk>>
       \/ \E flushed : Wrote(MarkerFiles(o.streams), flushed, [f \in Files |-> ReadCloseMarker(seen[f], block)])
       \/ \E flushed : \E c \in Blocks :
             Wrote(MarkerFiles(o.streams), flushed, [f \in Files |-> ReadOpenMarker(seen[f], c)])
    /\ UNCHANGED <<base, enabled, full, module, documented, told>>

LEMMA OpenBlockIsMarkerStep ==
    ASSUME StateTyped, NEW b \in Blocks, NEW described \in BOOLEAN, OpenBlock(b, described)
    PROVE  UNCHANGED <<docState, docHistory>> \/ \E o : MarkerStep(o, b)
  <1> DEFINE after == [f \in Files |-> ReadOpenMarker(seen[f], b)]
  <1>1. CASE LogicError("open_in_block")
    BY <1>1 DEF LogicError
  <1>2. ASSUME NEW o \in OpenOutcomes,
               /\ OpenFiles(o)
               /\ IF ~o.isOpen THEN
                     /\ IF o.threw THEN IOError ELSE Ok
                     /\ callerBlock' = IF o.threw THEN callerBlock ELSE b
                     /\ UNCHANGED <<bad, block, seen, onDisk>>
                  ELSE
                     \E flushed \in Flushes(MarkerFiles(o.streams), described) :
                        LET fails == WriteFails(MarkerFiles(o.streams), flushed) IN
                        /\ Write(MarkerFiles(o.streams), flushed, after)
                        /\ IF fails THEN IOError ELSE Ok
                        /\ block' = IF fails THEN block ELSE b
                        /\ callerBlock' = IF fails THEN callerBlock ELSE b
               /\ UNCHANGED <<base, enabled, full, module, documented, told>>
        PROVE  MarkerStep(o, b)
    <2>1. ~(Ok /\ IOError)
      BY DEF Ok, IOError
    <2>2. MarkerFiles(o.streams) \in SUBSET Files
      BY Outcomes, MarkersTyped
    <2> HIDE DEF after
    <2>3. ASSUME NEW flushed \in Flushes(MarkerFiles(o.streams), described),
                 Write(MarkerFiles(o.streams), flushed, after),
                 IF WriteFails(MarkerFiles(o.streams), flushed) THEN IOError ELSE Ok
          PROVE  Wrote(MarkerFiles(o.streams), flushed, after)
      BY <2>2, <2>3, FlushesTyped DEF Wrote
    <2>4. /\ IOError \/ Ok
          /\ ~o.isOpen => IF o.threw THEN IOError ELSE Ok
          /\ block' \in {block, b} /\ callerBlock' \in {callerBlock, b}
          /\ o.isOpen /\ Ok => block' = b /\ callerBlock' = b
          /\ UNCHANGED <<bad, seen, onDisk>> \/ \E flushed : Wrote(MarkerFiles(o.streams), flushed, after)
      BY <1>2, <2>1, <2>3
    <2>5. ASSUME NEW flushed, Wrote(MarkerFiles(o.streams), flushed, after)
          PROVE  \E w : \E c \in Blocks :
                    Wrote(MarkerFiles(o.streams), w, [f \in Files |-> ReadOpenMarker(seen[f], c)])
      BY <2>5, Zenon DEF after
    <2> QED  BY <1>2, <2>4, <2>5 DEF MarkerStep
  <1> QED  BY <1>1, <1>2 DEF OpenBlock

LEMMA CloseBlockIsMarkerStep ==
    ASSUME StateTyped, CloseBlock
    PROVE  UNCHANGED <<docState, docHistory>> \/ \E o : MarkerStep(o, NoBlock)
  <1> DEFINE after == [f \in Files |-> ReadCloseMarker(seen[f], block)]
  <1>1. CASE LogicError("close_without_block")
    BY <1>1 DEF LogicError
  <1>2. ASSUME NEW o \in OpenOutcomes,
               /\ OpenFiles(o)
               /\ IF ~o.isOpen THEN
                     /\ IF o.threw THEN IOError ELSE Ok
                     /\ callerBlock' = IF o.threw THEN callerBlock ELSE NoBlock
                     /\ UNCHANGED <<bad, block, seen, onDisk>>
                  ELSE
                     \E flushed \in Flushes(MarkerFiles(o.streams), FALSE) :
                        LET fails == WriteFails(MarkerFiles(o.streams), flushed) IN
                        /\ Write(MarkerFiles(o.streams), flushed, after)
                        /\ IF fails THEN IOError ELSE Ok
                        /\ block' = IF fails THEN block ELSE NoBlock
                        /\ callerBlock' = IF fails THEN callerBlock ELSE NoBlock
               /\ UNCHANGED <<base, enabled, full, module, documented, told>>
        PROVE  MarkerStep(o, NoBlock)
    <2>1. ~(Ok /\ IOError)
      BY DEF Ok, IOError
    <2>2. MarkerFiles(o.streams) \in SUBSET Files
      BY Outcomes, MarkersTyped
    <2> HIDE DEF after
    <2>3. ASSUME NEW flushed \in Flushes(MarkerFiles(o.streams), FALSE),
                 Write(MarkerFiles(o.streams), flushed, after),
                 IF WriteFails(MarkerFiles(o.streams), flushed) THEN IOError ELSE Ok
          PROVE  Wrote(MarkerFiles(o.streams), flushed, after)
      BY <2>2, <2>3, FlushesTyped DEF Wrote
    <2>4. /\ IOError \/ Ok
          /\ ~o.isOpen => IF o.threw THEN IOError ELSE Ok
          /\ block' \in {block, NoBlock} /\ callerBlock' \in {callerBlock, NoBlock}
          /\ o.isOpen /\ Ok => block' = NoBlock /\ callerBlock' = NoBlock
          /\ UNCHANGED <<bad, seen, onDisk>> \/ \E flushed : Wrote(MarkerFiles(o.streams), flushed, after)
      BY <1>2, <2>1, <2>3
    <2> QED  BY <1>2, <2>4 DEF MarkerStep, after
  <1> QED  BY <1>1, <1>2 DEF CloseBlock

LEMMA CloseStep ==
    ASSUME StateTyped, Close
    PROVE  /\ StateTyped'
           /\ filesOpen' => filesOpen
           /\ filesOpen' => reported'
           /\ reported => reported'
           /\ bad = {} /\ bad' # {} => reported'
           /\ \A f \in Files : f \in streams \ streams' => onDisk'[f] = seen'[f]
           /\ \A f \in Files : onDisk'[f] \in {onDisk[f], seen'[f]}
           /\ UNCHANGED <<enabled, openAttempted, full, block, documented, seen, callerBlock, told>>
  <1>1. PICK holding \in SUBSET (streams \cap full) : CloseUpTo((streams \cap bad) \cup holding)
    BY DEF Close
  <1> DEFINE failing == (streams \cap bad) \cup holding
             closed == {OpenOrder[i] : i \in {j \in 1 .. 4 : \A k \in 1 .. j : ~(OpenOrder[k] \in failing)}}
             first == {OpenOrder[i] : i \in {j \in 1 .. 4 : OpenOrder[j] \in failing
                                           /\ \A k \in 1 .. j - 1 : ~(OpenOrder[k] \in failing)}}
  <1>2. failing \subseteq full
    BY <1>1 DEF StateTyped
  <1>3. first \subseteq failing
    OBVIOUS
  <1>4. /\ module' \in {Closed, module}
        /\ streams' = streams \ closed
        /\ filesOpen' = (filesOpen /\ failing # {})
        /\ onDisk' = [f \in Files |-> IF f \in streams \cap closed THEN seen[f] ELSE onDisk[f]]
        /\ bad' = bad \cup first
        /\ IF failing # {} THEN IOError ELSE Ok
        /\ UNCHANGED <<base, enabled, openAttempted, full, block, documented, seen, callerBlock, told>>
    BY <1>1 DEF CloseUpTo
  <1> HIDE DEF failing, closed, first
  <1>5. module' \in ModuleStates
    <2>1. Closed \in ModuleStates
      BY DEF ModuleStates, Closed
    <2> QED  BY <1>4, <2>1 DEF StateTyped
  <1>6. reported' \in BOOLEAN /\ (reported => reported') /\ (failing # {} => reported')
    BY <1>4 DEF StateTyped, Ok, IOError
  <1>7. /\ streams' \in SUBSET Files /\ bad' \in SUBSET full /\ filesOpen' \in BOOLEAN
        /\ onDisk' \in [Files -> Views]
    BY <1>2, <1>3, <1>4 DEF StateTyped
  <1>8. StateTyped'
    BY <1>4, <1>5, <1>6, <1>7 DEF StateTyped
  <1>9. bad = {} /\ bad' # {} => reported'
    BY <1>3, <1>4, <1>6
  <1> QED  BY <1>4, <1>6, <1>8, <1>9

LEMMA MarkerStepTyped ==
    ASSUME StateTyped, NEW o, NEW b \in Blocks \cup {NoBlock}, MarkerStep(o, b)
    PROVE  /\ StateTyped'
           /\ \A f \in Files : seen'[f].lines = seen[f].lines /\ onDisk'[f] \in {onDisk[f], seen'[f]}
           /\ bad = {} /\ bad' # {} => reported'
  <1>1. o.streams \in SUBSET Files /\ openAttempted' \in BOOLEAN /\ filesOpen' \in BOOLEAN /\ streams' \in SUBSET Files
    BY Outcomes DEF OpenFiles, MarkerStep
  <1>2. reported' \in BOOLEAN
    BY EndTyped DEF MarkerStep
  <1> DEFINE Goal == /\ seen' \in [Files -> Views] /\ onDisk' \in [Files -> Views] /\ bad' \in SUBSET full
                     /\ \A f \in Files : seen'[f].lines = seen[f].lines /\ onDisk'[f] \in {onDisk[f], seen'[f]}
                     /\ bad = {} /\ bad' # {} => reported'
  <1>3. Goal
    <2>1. CASE UNCHANGED <<bad, seen, onDisk>>
      BY <2>1 DEF StateTyped
    <2>2. ASSUME NEW flushed, NEW after, Wrote(MarkerFiles(o.streams), flushed, after),
                 \A f \in Files : after[f] \in Views /\ after[f].lines = seen[f].lines
          PROVE  Goal
      <3>1. MarkerFiles(o.streams) \in SUBSET Files
        BY <1>1, MarkersTyped
      <3>2. seen' \in [Files -> Views] /\ onDisk' \in [Files -> Views] /\ bad' \in SUBSET full
        BY <2>2, <3>1, WriteTyped
      <3>3. /\ \A f \in Files : seen'[f] \in {seen[f], after[f]} /\ onDisk'[f] \in {onDisk[f], seen'[f]}
            /\ bad = {} /\ bad' # {} => reported'
        BY <2>2, <3>1, WriteMoves
      <3> QED  BY <2>2, <3>2, <3>3
    <2>3. ASSUME NEW flushed,
                 Wrote(MarkerFiles(o.streams), flushed, [f \in Files |-> ReadCloseMarker(seen[f], block)])
          PROVE  Goal
      <3> DEFINE after == [f \in Files |-> ReadCloseMarker(seen[f], block)]
      <3>1. \A f \in Files : after[f] \in Views /\ after[f].lines = seen[f].lines
        <4>1. block \in Blocks \cup {NoBlock}
          BY DEF StateTyped
        <4> QED  BY <1>1, <4>1, MarkersTyped
      <3> HIDE DEF after, Goal
      <3>2. Wrote(MarkerFiles(o.streams), flushed, after)
        BY <2>3 DEF after
      <3> QED  BY <2>2, <3>1, <3>2
    <2>4. ASSUME NEW flushed, NEW c \in Blocks,
                 Wrote(MarkerFiles(o.streams), flushed, [f \in Files |-> ReadOpenMarker(seen[f], c)])
          PROVE  Goal
      <3> DEFINE after == [f \in Files |-> ReadOpenMarker(seen[f], c)]
      <3>1. \A f \in Files : after[f] \in Views /\ after[f].lines = seen[f].lines
        BY <1>1, MarkersTyped
      <3> HIDE DEF after, Goal
      <3>2. Wrote(MarkerFiles(o.streams), flushed, after)
        BY <2>4 DEF after
      <3> QED  BY <2>2, <3>1, <3>2
    <2> HIDE DEF Goal
    <2> QED  BY <2>1, <2>3, <2>4 DEF MarkerStep
  <1>4. block' \in Blocks \cup {NoBlock} /\ callerBlock' \in Blocks \cup {NoBlock}
    BY DEF StateTyped, MarkerStep
  <1>5. UNCHANGED <<base, enabled, full, module, documented, told>>
    BY DEF MarkerStep
  <1> QED  BY <1>1, <1>2, <1>3, <1>4, <1>5 DEF StateTyped

LEMMA InitTyped == Init => StateTyped
  <1> SUFFICES ASSUME Init PROVE StateTyped
    OBVIOUS
  <1>1. module \in ModuleStates
    BY DEF Init, Closed, ModuleStates
  <1>2. seen \in [Files -> Views] /\ onDisk \in [Files -> Views]
    BY DEF Init, Unread, Views
  <1>3. told \in [FullNames -> Told] /\ enabled \in SUBSET Files
    BY DocAssumption DEF Init, Told, Files
  <1> QED  BY <1>1, <1>2, <1>3 DEF Init, StateTyped

LEMMA WriterStepTyped == ASSUME StateTyped, WriterStep PROVE StateTyped'
  <1>1. ASSUME NEW b \in Blocks, NEW described \in BOOLEAN, OpenBlock(b, described)
        PROVE  StateTyped'
    BY <1>1, OpenBlockIsMarkerStep, MarkerStepTyped DEF docState, docHistory, StateTyped
  <1>2. CASE CloseBlock
    BY <1>2, CloseBlockIsMarkerStep, MarkerStepTyped DEF docState, docHistory, StateTyped
  <1>3. CASE CloseModule
    <2>1. Closed \in ModuleStates
      BY DEF ModuleStates, Closed
    <2> QED  BY <1>3, <2>1 DEF CloseModule, StateTyped, Ok
  <1>4. CASE \E f \in Files : DiskFull(f)
    BY <1>4 DEF DiskFull, docHistory, StateTyped
  <1>5. CASE UNCHANGED <<docState, docHistory>>
    BY <1>5 DEF docState, docHistory, StateTyped
  <1> QED  BY <1>1, <1>2, <1>3, <1>4, <1>5, DocParamTyped, DocModuleTyped, CloseStep DEF WriterStep

-----------------------------------------------------------------------------
(* The writer's block *)

\* Until a failure is reported no stream has noticed one, and files that are open
\* are all that are enabled
WholeStreams == ~reported => bad = {} /\ (filesOpen => streams = enabled)

LEMMA AfterOpening ==
    ASSUME StateTyped, WholeStreams, NEW o \in OpenOutcomes, OpenFiles(o), Ok \/ IOError,
           bad = {} /\ bad' # {} => reported', enabled' = enabled
    PROVE  /\ WholeStreams'
           /\ reported => reported'
           /\ filesOpen' \/ ~openAttempted' => o.isOpen
           /\ o.isOpen => filesOpen \/ ~openAttempted
           /\ o.isOpen /\ ~reported => o.streams = enabled
  <1>1. openAttempted' = TRUE /\ streams' = o.streams /\ filesOpen' = o.isOpen
    BY DEF OpenFiles
  <1>2. reported' \in BOOLEAN /\ (reported => reported')
    BY DEF StateTyped, Ok, IOError
  <1> QED  BY <1>1, <1>2, Outcomes DEF WholeStreams, StateTyped

\* Documenting a parameter or a module
LEMMA ParamMoves ==
    ASSUME StateTyped, NEW p \in Params, NEW mesg \in Mesgs, NEW described \in BOOLEAN, NEW like \in BOOLEAN,
           NEW layout \in BOOLEAN, NEW debugging \in BOOLEAN,
           DocParam(p, mesg, described, like, layout, debugging)
    PROVE  \E o \in OpenOutcomes :
              /\ OpenFiles(o) /\ (Ok \/ IOError) /\ (o.threw => IOError)
              /\ bad = {} /\ bad' # {} => reported'
              /\ \A f \in Files : onDisk'[f] \in {onDisk[f], seen'[f]}
              /\ UNCHANGED <<enabled, full, block, callerBlock>>
  <1>1. PICK o \in OpenOutcomes : ParamStep(o, <<block, p>>, mesg, described, like, layout, debugging)
    BY ParamSteps
  <1>2. /\ bad = {} /\ bad' # {} => reported'
        /\ \A f \in Files : onDisk'[f] \in {onDisk[f], seen'[f]}
    BY <1>1, ParamFilesTyped, WriteMoves DEF ParamStep
  <1> QED  BY <1>1, <1>2, Outcomes DEF ParamStep

LEMMA ModuleMoves ==
    ASSUME StateTyped, NEW m \in Modules, NEW described \in BOOLEAN, NEW layout \in BOOLEAN,
           NEW debugging \in BOOLEAN, NEW allDefault \in BOOLEAN,
           DocModule(m, described, layout, debugging, allDefault)
    PROVE  \E o \in OpenOutcomes :
              /\ OpenFiles(o) /\ (Ok \/ IOError) /\ (o.threw => IOError)
              /\ bad = {} /\ bad' # {} => reported'
              /\ \A f \in Files : onDisk'[f] \in {onDisk[f], seen'[f]} /\ seen'[f] = seen[f]
              /\ UNCHANGED <<enabled, full, block, callerBlock, documented, told>>
  <1> DEFINE dest(o) == Destinations(o.streams, layout, debugging, allDefault)
  <1>1. PICK o \in OpenOutcomes : ModuleStep(o, m, layout, debugging, allDefault)
    BY ModuleSteps
  <1>2. dest(o) \in SUBSET Files
    BY Outcomes, DestinationsTyped
  <1>3. UNCHANGED <<bad, seen, onDisk>> \/ \E flushed : Wrote(dest(o), flushed, seen)
    BY <1>1 DEF ModuleStep
  <1> HIDE DEF dest
  <1>4. /\ bad = {} /\ bad' # {} => reported'
        /\ \A f \in Files : onDisk'[f] \in {onDisk[f], seen'[f]} /\ seen'[f] = seen[f]
    BY <1>2, <1>3, WriteMoves
  <1> QED  BY <1>1, <1>4, Outcomes DEF ModuleStep

LEMMA WholeStreamsOfStep == ASSUME StateTyped, WholeStreams, WriterStep PROVE WholeStreams' /\ (reported => reported')
  <1>1. ASSUME NEW b \in Blocks \cup {NoBlock}, NEW o, MarkerStep(o, b)
        PROVE  WholeStreams' /\ (reported => reported')
    BY <1>1, AfterOpening, MarkerStepTyped DEF MarkerStep
  <1>2. CASE UNCHANGED <<docState, docHistory>>
    BY <1>2 DEF docState, docHistory, WholeStreams
  <1>3. ASSUME NEW b \in Blocks, NEW described \in BOOLEAN, OpenBlock(b, described)
        PROVE  WholeStreams' /\ (reported => reported')
    BY <1>1, <1>2, <1>3, OpenBlockIsMarkerStep
  <1>4. CASE CloseBlock
    BY <1>1, <1>2, <1>4, CloseBlockIsMarkerStep
  <1>5. CASE CloseModule
    BY <1>5 DEF CloseModule, Ok, WholeStreams
  <1>6. CASE \E f \in Files : DiskFull(f)
    BY <1>6 DEF DiskFull, docHistory, WholeStreams
  <1>7. CASE Close
    BY <1>7, CloseStep DEF WholeStreams, StateTyped
  <1>8. ASSUME NEW p \in Params, NEW mesg \in Mesgs, NEW described \in BOOLEAN, NEW like \in BOOLEAN, NEW layout \in BOOLEAN,
               NEW debugging \in BOOLEAN, DocParam(p, mesg, described, like, layout, debugging)
        PROVE  WholeStreams' /\ (reported => reported')
    BY <1>8, AfterOpening, ParamMoves
  <1>9. ASSUME NEW m \in Modules, NEW described \in BOOLEAN, NEW layout \in BOOLEAN, NEW debugging \in BOOLEAN,
               NEW allDefault \in BOOLEAN, DocModule(m, described, layout, debugging, allDefault)
        PROVE  WholeStreams' /\ (reported => reported')
    BY <1>9, AfterOpening, ModuleMoves
  <1> QED  BY <1>2, <1>3, <1>4, <1>5, <1>6, <1>7, <1>8, <1>9 DEF WriterStep

LEMMA BlockOfStep ==
    ASSUME StateTyped, WholeStreams, BlockIsTheCallers, WriterStep
    PROVE  BlockIsTheCallers'
  <1>1. ASSUME NEW b \in Blocks \cup {NoBlock}, NEW o, MarkerStep(o, b)
        PROVE  BlockIsTheCallers'
    <2>1. Ok \/ (IOError /\ reported' = TRUE)
      BY <1>1 DEF MarkerStep, IOError
    <2>2. o.isOpen /\ Ok => block' = b /\ callerBlock' = b
      BY <1>1 DEF MarkerStep
    <2>3. filesOpen' \/ ~openAttempted' => o.isOpen
      BY <1>1, AfterOpening, MarkerStepTyped DEF MarkerStep
    <2> QED  BY <2>1, <2>2, <2>3 DEF BlockIsTheCallers
  <1>2. ASSUME NEW o \in OpenOutcomes, OpenFiles(o), Ok \/ IOError,
               bad = {} /\ bad' # {} => reported', UNCHANGED <<enabled, block, callerBlock>>
        PROVE  BlockIsTheCallers'
    BY <1>2, AfterOpening DEF BlockIsTheCallers, StateTyped
  <1>3. CASE UNCHANGED <<docState, docHistory>>
    BY <1>3 DEF docState, docHistory, BlockIsTheCallers
  <1>4. ASSUME NEW b \in Blocks, NEW described \in BOOLEAN, OpenBlock(b, described)
        PROVE  BlockIsTheCallers'
    BY <1>1, <1>3, <1>4, OpenBlockIsMarkerStep
  <1>5. CASE CloseBlock
    BY <1>1, <1>3, <1>5, CloseBlockIsMarkerStep
  <1>6. CASE CloseModule
    BY <1>6 DEF CloseModule, Ok, BlockIsTheCallers
  <1>7. CASE \E f \in Files : DiskFull(f)
    BY <1>7 DEF DiskFull, docHistory, BlockIsTheCallers
  <1>8. CASE Close
    BY <1>8, CloseStep DEF BlockIsTheCallers, StateTyped
  <1>9. ASSUME NEW p \in Params, NEW mesg \in Mesgs, NEW described \in BOOLEAN, NEW like \in BOOLEAN, NEW layout \in BOOLEAN,
               NEW debugging \in BOOLEAN, DocParam(p, mesg, described, like, layout, debugging)
        PROVE  BlockIsTheCallers'
    BY <1>2, <1>9, ParamMoves
  <1>10. ASSUME NEW m \in Modules, NEW described \in BOOLEAN, NEW layout \in BOOLEAN, NEW debugging \in BOOLEAN,
               NEW allDefault \in BOOLEAN, DocModule(m, described, layout, debugging, allDefault)
        PROVE  BlockIsTheCallers'
    BY <1>2, <1>10, ModuleMoves
  <1> QED  BY <1>3, <1>4, <1>5, <1>6, <1>7, <1>8, <1>9, <1>10 DEF WriterStep

-----------------------------------------------------------------------------
(* Lines *)

\* What every call leaves of the files that are on the disk
DiskMoves ==
    /\ enabled' = enabled
    /\ \A f \in Files : onDisk'[f] \in {onDisk[f], seen'[f]}
    /\ ~reported' => \A f \in enabled : f \notin streams' => f \notin streams \/ onDisk'[f] = seen'[f]

\* What all calls but doc_param do to the lines of the files
LinesKept ==
    /\ UNCHANGED <<documented, told>>
    /\ \A f \in Files : seen'[f].lines = seen[f].lines

\* What doc_param does to them
LineAdded(name, mesg, call, dest, flushed) ==
    /\ documented[name] = NoMesg
    /\ documented' = [documented EXCEPT ![name] = mesg]
    /\ told' = [told EXCEPT ![name] = call]
    /\ call.described => flushed = dest
    /\ \A f \in Files : \/ seen'[f].lines = seen[f].lines
                        \/ seen'[f].lines = seen[f].lines \cup {[block |-> seen[f].block, name |-> name, mesg |-> mesg]}
    /\ \A f \in Files : f \notin dest => seen'[f].lines = seen[f].lines
    /\ ~reported' => /\ streams' = enabled
                     /\ \A f \in dest : seen'[f].lines
                            = seen[f].lines \cup {[block |-> seen[f].block, name |-> name, mesg |-> mesg]}
                     /\ \A f \in flushed : onDisk'[f] = seen'[f]
                     /\ enabled \cap Homes(call) \subseteq dest
                     /\ "short" \in dest /\ "all" \in enabled => "all" \in dest

LEMMA DiskMovesOfStep == ASSUME StateTyped, WholeStreams, WriterStep PROVE DiskMoves
  <1>1. ASSUME NEW o \in OpenOutcomes, OpenFiles(o), o.threw => IOError, enabled' = enabled,
               \A f \in Files : onDisk'[f] \in {onDisk[f], seen'[f]}
        PROVE  DiskMoves
    <2>1. ASSUME ~reported', NEW f \in enabled, f \notin streams' PROVE f \notin streams
      <3>1. ~o.threw
        BY <1>1, <2>1 DEF IOError
      <3> QED  BY <1>1, <2>1, <3>1, Outcomes DEF OpenFiles
    <2> QED  BY <1>1, <2>1 DEF DiskMoves
  <1>2. ASSUME NEW b \in Blocks \cup {NoBlock}, NEW o, MarkerStep(o, b)
        PROVE  DiskMoves
    BY <1>1, <1>2, Outcomes, MarkerStepTyped DEF MarkerStep
  <1>3. ASSUME UNCHANGED <<docState, docHistory>>
        PROVE  DiskMoves
    BY <1>3 DEF docState, docHistory, DiskMoves
  <1>4. ASSUME NEW b \in Blocks, NEW described \in BOOLEAN, OpenBlock(b, described)
        PROVE  DiskMoves
    BY <1>2, <1>3, <1>4, OpenBlockIsMarkerStep
  <1>5. CASE CloseBlock
    BY <1>2, <1>3, <1>5, CloseBlockIsMarkerStep
  <1>6. CASE CloseModule
    BY <1>6 DEF CloseModule, DiskMoves
  <1>7. CASE \E f \in Files : DiskFull(f)
    BY <1>7 DEF DiskFull, DiskMoves
  <1>8. CASE Close
    <2>1. enabled \subseteq Files
      BY DEF StateTyped
    <2> QED  BY <1>8, <2>1, CloseStep DEF DiskMoves
  <1>9. ASSUME NEW p \in Params, NEW mesg \in Mesgs, NEW described \in BOOLEAN, NEW like \in BOOLEAN,
               NEW layout \in BOOLEAN, NEW debugging \in BOOLEAN,
               DocParam(p, mesg, described, like, layout, debugging)
        PROVE  DiskMoves
    BY <1>1, <1>9, ParamMoves
  <1>10. ASSUME NEW m \in Modules, NEW described \in BOOLEAN, NEW layout \in BOOLEAN,
                NEW debugging \in BOOLEAN, NEW allDefault \in BOOLEAN,
                DocModule(m, described, layout, debugging, allDefault)
        PROVE  DiskMoves
    BY <1>1, <1>10, ModuleMoves
  <1> QED  BY <1>3, <1>4, <1>5, <1>6, <1>7, <1>8, <1>9, <1>10 DEF WriterStep

\* A parameter's line goes to its homes, and to .short only if it goes to .all
LEMMA Routing ==
    ASSUME NEW opened \in SUBSET Files, NEW layout \in BOOLEAN, NEW debugging \in BOOLEAN, NEW isDefault,
           NEW described
    PROVE  /\ opened \cap Homes([layout |-> layout, debugging |-> debugging, described |-> described])
                 \subseteq Destinations(opened, layout, debugging, isDefault)
           /\ "short" \in Destinations(opened, layout, debugging, isDefault) /\ "all" \in opened
                 => "all" \in Destinations(opened, layout, debugging, isDefault)
  BY DEF Homes, Destinations

LEMMA LinesOfParam ==
    ASSUME StateTyped, WholeStreams, NEW p \in Params, NEW mesg \in Mesgs, NEW described \in BOOLEAN,
           NEW like \in BOOLEAN, NEW layout \in BOOLEAN, NEW debugging \in BOOLEAN,
           DocParam(p, mesg, described, like, layout, debugging)
    PROVE  \/ LinesKept
           \/ \E call \in Told, dest, flushed \in SUBSET Files : LineAdded(<<block, p>>, mesg, call, dest, flushed)
  <1> DEFINE name == <<block, p>>
             call == ParamCall(layout, debugging, described)
             dest(o) == ParamFiles(o, mesg, like, layout, debugging)
             line(f) == ParamLine(f, name, mesg)
  <1>0. name \in FullNames
    BY DEF StateTyped, FullNames
  <1>1. PICK o \in OpenOutcomes : ParamStep(o, name, mesg, described, like, layout, debugging)
    BY ParamSteps
  <1> HIDE DEF name
  <1>2. CASE UNCHANGED <<documented, seen, told>>
    BY <1>2 DEF LinesKept
  <1>3. ASSUME o.isOpen, documented[name] = NoMesg,
               documented' = [documented EXCEPT ![name] = mesg],
               told' = [told EXCEPT ![name] = call],
               NEW flushed, Wrote(dest(o), flushed, ParamAfter(name, mesg)), described => flushed = dest(o)
        PROVE  \E c \in Told, d, w \in SUBSET Files : LineAdded(name, mesg, c, d, w)
    <2>1. dest(o) \in SUBSET Files /\ flushed \in SUBSET Files
      BY <1>3, ParamFilesTyped DEF Wrote
    <2>2. \A f \in Files : ParamAfter(name, mesg)[f].lines = seen[f].lines \cup {line(f)}
      BY <1>0, ParamAfterTyped
    <2>3. call \in Told /\ call.described = described
      BY DEF Told, ParamCall
    <2>4. ~reported' => ~reported /\ bad = {} /\ o.streams = enabled
      <3>1. ~reported' => ~reported
        BY <1>1 DEF ParamStep, Ok, IOError
      <3> QED  BY <1>3, <3>1, Outcomes DEF WholeStreams
    <2>5. ~reported' => enabled \cap Homes(call) \subseteq dest(o)
                        /\ ("short" \in dest(o) /\ "all" \in enabled => "all" \in dest(o))
      <3>1. o.streams \in SUBSET Files
        BY Outcomes
      <3>2. /\ o.streams \cap Homes(call) \subseteq dest(o)
            /\ "short" \in dest(o) /\ "all" \in o.streams => "all" \in dest(o)
        <4> DEFINE d == ParamDefault(mesg, like) \/ ParamAllDefault(mesg, like)
        <4>1. dest(o) = Destinations(o.streams, layout, debugging, d)
          BY DEF ParamFiles
        <4>2. call = [layout |-> layout, debugging |-> debugging, described |-> described]
          BY DEF ParamCall
        <4> HIDE DEF d, dest, call
        <4>3. /\ o.streams \cap Homes([layout |-> layout, debugging |-> debugging, described |-> described])
                    \subseteq Destinations(o.streams, layout, debugging, d)
              /\ "short" \in Destinations(o.streams, layout, debugging, d) /\ "all" \in o.streams
                    => "all" \in Destinations(o.streams, layout, debugging, d)
          BY <3>1, Routing, Zenon
        <4> QED  BY <4>1, <4>2, <4>3, Zenon
      <3> HIDE DEF dest, call
      <3> QED  BY <2>4, <3>2
    <2> HIDE DEF line, dest, call
    <2>6. /\ \A f \in Files : seen'[f] \in {seen[f], ParamAfter(name, mesg)[f]}
          /\ bad = {} => \A f \in dest(o) : seen'[f] = ParamAfter(name, mesg)[f]
          /\ bad = {} /\ ~reported' => \A f \in flushed : onDisk'[f] = seen'[f]
      <3>1. \A f \in Files : seen'[f] \in {seen[f], ParamAfter(name, mesg)[f]}
        BY <1>3, <2>1, WriteMoves
      <3>2. bad = {} => \A f \in dest(o) : seen'[f] = ParamAfter(name, mesg)[f]
        BY <1>3, <2>1, WriteMoves
      <3>3. bad = {} /\ ~reported' => \A f \in flushed : onDisk'[f] = seen'[f]
        BY <1>3, <2>1, WriteMoves
      <3> QED  BY <3>1, <3>2, <3>3
    <2>7. ~reported' => streams' = enabled
      BY <1>1, <2>4 DEF ParamStep, OpenFiles
    <2>8. \A f \in Files : f \notin dest(o) => seen'[f] = seen[f]
      BY <1>3 DEF Wrote, Write
    <2>9. /\ \A f \in Files : seen'[f].lines = seen[f].lines \/ seen'[f].lines = seen[f].lines \cup {line(f)}
          /\ \A f \in Files : f \notin dest(o) => seen'[f].lines = seen[f].lines
          /\ ~reported' => \A f \in dest(o) : seen'[f].lines = seen[f].lines \cup {line(f)}
          /\ ~reported' => \A f \in flushed : onDisk'[f] = seen'[f]
      BY <2>1, <2>2, <2>4, <2>6, <2>8
    <2>10. \A f : line(f) = [block |-> seen[f].block, name |-> name, mesg |-> mesg]
      BY DEF line, ParamLine
    <2>11. LineAdded(name, mesg, call, dest(o), flushed)
      BY <1>3, <2>3, <2>5, <2>7, <2>9, <2>10 DEF LineAdded
    <2> QED  BY <2>1, <2>3, <2>11
  <1> QED  BY <1>1, <1>2, <1>3, Zenon DEF ParamStep, name

LEMMA LinesOfStep ==
    ASSUME StateTyped, WholeStreams, WriterStep
    PROVE  \/ LinesKept
           \/ \E name \in FullNames, mesg \in Mesgs, call \in Told, dest, flushed \in SUBSET Files :
                 LineAdded(name, mesg, call, dest, flushed)
  <1>1. ASSUME NEW b \in Blocks \cup {NoBlock}, NEW o, MarkerStep(o, b)
        PROVE  LinesKept
    BY <1>1, MarkerStepTyped DEF MarkerStep, LinesKept
  <1>2. ASSUME UNCHANGED <<docState, docHistory>>
        PROVE  LinesKept
    BY <1>2 DEF docState, docHistory, LinesKept
  <1>3. ASSUME NEW b \in Blocks, NEW described \in BOOLEAN, OpenBlock(b, described)
        PROVE  LinesKept
    BY <1>1, <1>2, <1>3, OpenBlockIsMarkerStep
  <1>4. CASE CloseBlock
    BY <1>1, <1>2, <1>4, CloseBlockIsMarkerStep
  <1>5. CASE CloseModule
    BY <1>5 DEF CloseModule, LinesKept
  <1>6. CASE \E f \in Files : DiskFull(f)
    BY <1>6 DEF DiskFull, docHistory, LinesKept
  <1>7. CASE Close
    BY <1>7, CloseStep DEF LinesKept
  <1>8. ASSUME NEW p \in Params, NEW mesg \in Mesgs, NEW described \in BOOLEAN, NEW like \in BOOLEAN,
               NEW layout \in BOOLEAN, NEW debugging \in BOOLEAN,
               DocParam(p, mesg, described, like, layout, debugging)
        PROVE  \/ LinesKept
               \/ \E name \in FullNames, m \in Mesgs, call \in Told, dest, flushed \in SUBSET Files :
                     LineAdded(name, m, call, dest, flushed)
    <2>1. <<block, p>> \in FullNames
      BY DEF StateTyped, FullNames
    <2> QED  BY <1>8, <2>1, LinesOfParam
  <1>9. ASSUME NEW m \in Modules, NEW described \in BOOLEAN, NEW layout \in BOOLEAN, NEW debugging \in BOOLEAN,
               NEW allDefault \in BOOLEAN, DocModule(m, described, layout, debugging, allDefault)
        PROVE  LinesKept
    BY <1>9, ModuleMoves DEF LinesKept
  <1> QED  BY <1>2, <1>3, <1>4, <1>5, <1>6, <1>7, <1>8, <1>9 DEF WriterStep

\* What the streams were given is documented and once only, and the disk has nothing else
WrittenInv ==
    /\ \A f \in Files : \A l \in seen[f].lines :
          /\ l.mesg = documented[l.name]
          /\ documented[l.name] # NoMesg
          /\ \A k \in seen[f].lines : k.name = l.name => k = l
    /\ \A f \in Files : onDisk[f].lines \subseteq seen[f].lines

LEMMA WrittenIsOnce == WrittenInv => WrittenOnce
  BY DEF WrittenInv, WrittenOnce

LEMMA WrittenOfStep ==
    ASSUME StateTyped, WholeStreams, WrittenInv, WriterStep
    PROVE  WrittenInv'
  <1>1. ASSUME \A f \in Files : seen[f].lines \subseteq seen'[f].lines
        PROVE  \A f \in Files : onDisk'[f].lines \subseteq seen'[f].lines
    BY <1>1, DiskMovesOfStep DEF DiskMoves, WrittenInv
  <1>2. CASE LinesKept
    BY <1>1, <1>2 DEF LinesKept, WrittenInv
  <1>3. ASSUME NEW name \in FullNames, NEW mesg \in Mesgs, NEW call \in Told,
               NEW dest \in SUBSET Files, NEW flushed \in SUBSET Files,
               LineAdded(name, mesg, call, dest, flushed)
        PROVE  WrittenInv'
    <2>1. \A f \in Files : \A l \in seen[f].lines :
              l.name \in FullNames /\ l.name # name /\ l.mesg = documented[l.name] /\ documented[l.name] # NoMesg
      BY <1>3 DEF LineAdded, WrittenInv, StateTyped, Lines, Views
    <2>2. documented'[name] = mesg /\ mesg # NoMesg /\ \A n \in FullNames : n # name => documented'[n] = documented[n]
      BY <1>3, CallsAssumption DEF LineAdded, StateTyped
    <2>3. ASSUME NEW f \in Files, NEW l \in seen'[f].lines
          PROVE  /\ l.mesg = documented'[l.name] /\ documented'[l.name] # NoMesg
                 /\ \A k \in seen'[f].lines : k.name = l.name => k = l
      <3> DEFINE line == [block |-> seen[f].block, name |-> name, mesg |-> mesg]
      <3>1. seen'[f].lines \in {seen[f].lines, seen[f].lines \cup {line}}
        BY <1>3 DEF LineAdded
      <3>2. line.name = name /\ line.mesg = mesg
        OBVIOUS
      <3> HIDE DEF line
      <3>3. CASE l \in seen[f].lines
        <4>1. l.mesg = documented'[l.name] /\ documented'[l.name] # NoMesg
          BY <2>1, <2>2, <3>3
        <4>2. \A k \in seen[f].lines : k.name = l.name => k = l
          BY <3>3 DEF WrittenInv
        <4>3. line.name # l.name
          BY <2>1, <3>2, <3>3
        <4> QED  BY <3>1, <4>1, <4>2, <4>3
      <3>4. CASE l = line
        <4>1. \A k \in seen[f].lines : k.name # l.name
          BY <2>1, <3>2, <3>4
        <4> QED  BY <2>2, <3>1, <3>2, <3>4, <4>1
      <3> QED  BY <3>1, <3>3, <3>4
    <2>4. \A f \in Files : seen[f].lines \subseteq seen'[f].lines
      BY <1>3 DEF LineAdded
    <2> QED  BY <1>1, <2>3, <2>4 DEF WrittenInv
  <1> QED  BY <1>2, <1>3, LinesOfStep

LEMMA LossOfStep ==
    ASSUME StateTyped, WholeStreams, WrittenInv, NoSilentLoss, WriterStep
    PROVE  NoSilentLoss'
  <1> DEFINE Safe(n, f) == \E l \in seen'[f].lines :
                              /\ l.name = n
                              /\ told'[n].described \/ f \notin streams' => l \in onDisk'[f].lines
  <1> SUFFICES ASSUME NEW n \in FullNames, documented'[n] # NoMesg, ~reported',
                      NEW f \in enabled' \cap Homes(told'[n])
               PROVE  Safe(n, f)
    BY DEF NoSilentLoss, Homes
  <1>1. ~reported /\ f \in enabled /\ f \in Files
    BY WholeStreamsOfStep, DiskMovesOfStep DEF DiskMoves, StateTyped
  <1>2. ASSUME UNCHANGED <<documented[n], told[n]>>, seen[f].lines \subseteq seen'[f].lines
        PROVE  Safe(n, f)
    <2>1. PICK l \in seen[f].lines :
            l.name = n /\ (told[n].described \/ f \notin streams => l \in onDisk[f].lines)
      BY <1>1, <1>2 DEF NoSilentLoss
    <2>2. l \in seen'[f].lines
      BY <1>2
    <2>3. l \in onDisk[f].lines => l \in onDisk'[f].lines
      BY <1>1, <2>2, DiskMovesOfStep DEF DiskMoves
    <2>4. f \notin streams' => f \notin streams \/ l \in onDisk'[f].lines
      BY <1>1, <2>2, DiskMovesOfStep DEF DiskMoves
    <2> QED  BY <1>2, <2>1, <2>2, <2>3, <2>4
  <1>3. CASE LinesKept
    BY <1>1, <1>2, <1>3 DEF LinesKept
  <1>4. ASSUME NEW name \in FullNames, NEW mesg \in Mesgs, NEW call \in Told,
               NEW dest \in SUBSET Files, NEW flushed \in SUBSET Files,
               LineAdded(name, mesg, call, dest, flushed)
        PROVE  Safe(n, f)
    <2>1. CASE n # name
      <3>1. documented'[n] = documented[n] /\ told'[n] = told[n]
        BY <1>4, <2>1 DEF LineAdded, StateTyped
      <3>2. seen[f].lines \subseteq seen'[f].lines
        BY <1>1, <1>4 DEF LineAdded
      <3> QED  BY <1>2, <3>1, <3>2
    <2>2. CASE n = name
      <3>1. told'[n] = call
        BY <1>4, <2>2 DEF LineAdded, StateTyped
      <3> DEFINE line == [block |-> seen[f].block, name |-> name, mesg |-> mesg]
      <3>2. line.name = n
        BY <2>2
      <3>3. f \in dest /\ streams' = enabled
        BY <1>1, <1>4, <3>1 DEF LineAdded
      <3>4. line \in seen'[f].lines
        BY <1>4, <3>3 DEF LineAdded
      <3>5. call.described => onDisk'[f] = seen'[f]
        BY <1>4, <3>3 DEF LineAdded
      <3> HIDE DEF line
      <3> QED  BY <1>1, <3>1, <3>2, <3>3, <3>4, <3>5
    <2> QED  BY <2>1, <2>2
  <1> QED  BY <1>3, <1>4, LinesOfStep

LEMMA ShortOfStep ==
    ASSUME StateTyped, WholeStreams, ShortInAll, WriterStep
    PROVE  ShortInAll'
  <1> SUFFICES ASSUME ~reported', "all" \in enabled', NEW l \in seen'["short"].lines
               PROVE  \E k \in seen'["all"].lines : k.name = l.name /\ k.mesg = l.mesg
    BY DEF ShortInAll
  <1>1. ~reported /\ "all" \in enabled
    BY WholeStreamsOfStep, DiskMovesOfStep DEF DiskMoves
  <1>2. "short" \in Files /\ "all" \in Files
    BY DEF Files
  <1>3. \A m \in seen["short"].lines : \E k \in seen["all"].lines : k.name = m.name /\ k.mesg = m.mesg
    BY <1>1 DEF ShortInAll
  <1>4. CASE LinesKept
    BY <1>2, <1>3, <1>4 DEF LinesKept
  <1>5. ASSUME NEW name \in FullNames, NEW mesg \in Mesgs, NEW call \in Told,
               NEW dest \in SUBSET Files, NEW flushed \in SUBSET Files,
               LineAdded(name, mesg, call, dest, flushed)
        PROVE  \E k \in seen'["all"].lines : k.name = l.name /\ k.mesg = l.mesg
    <2> DEFINE line(f) == [block |-> seen[f].block, name |-> name, mesg |-> mesg]
    <2>1. \A f : line(f).name = name /\ line(f).mesg = mesg
      OBVIOUS
    <2>2. /\ "short" \in dest => line("all") \in seen'["all"].lines
          /\ seen["all"].lines \subseteq seen'["all"].lines
          /\ seen'["short"].lines \subseteq seen["short"].lines \cup {line("short")}
          /\ "short" \notin dest => seen'["short"].lines = seen["short"].lines
      BY <1>1, <1>2, <1>5 DEF LineAdded
    <2> HIDE DEF line
    <2>3. CASE l \in seen["short"].lines
      BY <1>3, <2>2, <2>3
    <2>4. CASE l = line("short") /\ "short" \in dest
      BY <2>1, <2>2, <2>4
    <2> QED  BY <2>2, <2>3, <2>4
  <1> QED  BY <1>4, <1>5, LinesOfStep

\* How calls end
Results == {"ok", "runtime_error", "open_in_block", "close_without_block"}

ResultOK == result \in Results

LEMMA ResultOfStep == ResultOK /\ [Next]_docVars => ResultOK'
  <1> SUFFICES ASSUME ResultOK, [Next]_docVars PROVE result' \in Results
    BY DEF ResultOK
  <1> USE DEF ResultOK, Results, Ok, IOError
  <1>1. ASSUME NEW p \in Params, NEW mesg \in Mesgs, NEW described \in BOOLEAN, NEW like \in LikeDefaults, NEW r \in ParamFlags,
               DocParam(p, mesg, described, like, r[1], r[2])
        PROVE  result' \in Results
    <2>1. Ok \/ IOError
      BY <1>1 DEF DocParam
    <2> QED  BY <2>1
  <1>2. ASSUME NEW m \in Modules, NEW described \in BOOLEAN, NEW r \in ModuleFlags, NEW d \in AllDefaults,
               DocModule(m, described, r[1], r[2], d)
        PROVE  result' \in Results
    <2>1. Ok \/ IOError
      BY <1>2 DEF DocModule
    <2> QED  BY <2>1
  <1>3. CASE CloseModule
    BY <1>3 DEF CloseModule
  <1>4. ASSUME NEW b \in Blocks, NEW described \in BOOLEAN, OpenBlock(b, described)
        PROVE  result' \in Results
    <2>1. Ok \/ IOError \/ LogicError("open_in_block")
      BY <1>4 DEF OpenBlock
    <2> QED  BY <2>1 DEF LogicError
  <1>5. CASE CloseBlock
    <2>1. Ok \/ IOError \/ LogicError("close_without_block")
      BY <1>5 DEF CloseBlock
    <2> QED  BY <2>1 DEF LogicError
  <1>6. CASE Close
    BY <1>6 DEF Close, CloseUpTo
  <1>7. CASE \E f \in Files : DiskFull(f)
    BY <1>7 DEF DiskFull
  <1>8. CASE UNCHANGED docVars
    BY <1>8 DEF docVars
  <1> QED  BY <1>1, <1>2, <1>3, <1>4, <1>5, <1>6, <1>7, <1>8 DEF Next

-----------------------------------------------------------------------------
(* Theorems about the writer on its own *)

WriterInv ==
    StateTyped /\ WholeStreams /\ BlockIsTheCallers /\ WrittenInv /\ NoSilentLoss /\ ShortInAll

LEMMA WriterInit == Init => WriterInv
  <1> SUFFICES ASSUME Init PROVE WriterInv
    OBVIOUS
  <1>1. \A f \in Files : seen[f].lines = {} /\ onDisk[f].lines = {}
    BY DEF Init, Unread
  <1>2. \A n \in FullNames : documented[n] = NoMesg
    BY DEF Init
  <1>3. WrittenInv /\ NoSilentLoss
    BY <1>1, <1>2 DEF WrittenInv, NoSilentLoss
  <1>4. ShortInAll
    BY <1>1 DEF ShortInAll, Files
  <1>5. WholeStreams /\ BlockIsTheCallers
    BY DEF Init, WholeStreams, BlockIsTheCallers
  <1> QED  BY <1>3, <1>4, <1>5, InitTyped DEF WriterInv

LEMMA WriterInvOfStep == WriterInv /\ WriterStep => WriterInv'
  BY WriterStepTyped, WholeStreamsOfStep, BlockOfStep, WrittenOfStep, LossOfStep, ShortOfStep
     DEF WriterInv

LEMMA WriterInvariant == Spec => []WriterInv
  <1>1. WriterInv /\ [Next]_docVars => WriterInv'
    BY NextIsWriterStep, WriterInvOfStep
  <1> QED  BY <1>1, WriterInit, PTL DEF Spec

\* The writer's state has its type, and its calls end in one of four ways, whatever
\* files fail to open and disks fill up.
THEOREM WriterIsTyped == Spec => []DocTypeOK
  <1>1. Init => ResultOK
    BY DEF Init, Results, ResultOK
  <1>2. WriterInv /\ ResultOK => DocTypeOK
    BY DEF WriterInv, StateTyped, Results, ResultOK, DocTypeOK
  <1> QED  BY <1>1, <1>2, WriterInvariant, ResultOfStep, PTL DEF Spec

\* The writer's block is its caller's while documentation works.
THEOREM WriterFollowsCaller == Spec => []BlockIsTheCallers
  <1>1. WriterInv => BlockIsTheCallers
    BY DEF WriterInv
  <1> QED  BY <1>1, WriterInvariant, PTL

\* No file has two lines of a parameter, or one that is not as it was documented.
THEOREM WrittenOnceAlways == Spec => []WrittenOnce
  <1>1. WriterInv => WrittenOnce
    BY WrittenIsOnce DEF WriterInv
  <1> QED  BY <1>1, WriterInvariant, PTL

\* What was documented is in every enabled file it belongs to, on the disk at once if it
\* has a description and otherwise once the file is closed, unless a failure was reported.
THEOREM NothingLostInSilence == Spec => []NoSilentLoss
  <1>1. WriterInv => NoSilentLoss
    BY DEF WriterInv
  <1> QED  BY <1>1, WriterInvariant, PTL

\* The short file is given nothing that the complete one is not, where both are enabled.
THEOREM ShortAlwaysInAll == Spec => []ShortInAll
  <1>1. WriterInv => ShortInAll
    BY DEF WriterInv
  <1> QED  BY <1>1, WriterInvariant, PTL

-----------------------------------------------------------------------------
(* The reader *)

LEMMA RpTypeOfStep == RpTypeOK /\ [RpNext]_rpVars => RpTypeOK'
  <1> SUFFICES ASSUME RpTypeOK, [RpNext]_rpVars PROVE RpTypeOK'
    OBVIOUS
  <1>1. table' = table
    BY DEF RpNext, rpVars, Get, RpOpenBlock, RpCloseBlock, RpDocModule, RpCloseModule, RpDiskFull
  <1>2. currentBlock' \in Blocks \cup {NoBlock}
    BY DEF RpTypeOK, RpNext, rpVars, Get, RpOpenBlock, RpCloseBlock, RpDocModule, RpCloseModule, RpDiskFull
  <1> QED  BY <1>1, <1>2 DEF RpTypeOK

LEMMA RpNextIsWriterStep == RpTypeOK /\ [RpNext]_rpVars => WriterStep
  <1> SUFFICES ASSUME RpTypeOK, [RpNext]_rpVars PROVE WriterStep
    OBVIOUS
  <1>1. ASSUME NEW p \in Params, NEW o \in Options, Get(p, o)
        PROVE  WriterStep
    <2>1. CASE UNCHANGED <<docState, docHistory>>
      BY <2>1 DEF WriterStep
    <2>2. CASE /\ ~GetThrows(<<currentBlock, p>>, o)
               /\ HasAnswer(<<currentBlock, p>>, o)
               /\ DocParam(p, [value |-> Answer(<<currentBlock, p>>, o), default |-> TypedDefault(o)],
                           TRUE, FALSE, o.flags[1], o.flags[2])
      <3> DEFINE mesg == [value |-> Answer(<<currentBlock, p>>, o), default |-> TypedDefault(o)]
      <3>1. Answer(<<currentBlock, p>>, o) \in Values
        <4>1. <<currentBlock, p>> \in FullNames
          BY DEF RpTypeOK, FullNames
        <4>2. table[<<currentBlock, p>>] \in Values \cup {Unset} /\ o.default \in Values \cup {NoDefault}
          BY <4>1 DEF RpTypeOK, Options
        <4> QED  BY <2>2, <4>2 DEF HasAnswer, Answer, Bound
      <3>2. TypedDefault(o) \in Values \cup {NoDefault}
        BY DEF TypedDefault, Options
      <3>3. mesg \in Mesgs
        BY <3>1, <3>2 DEF Mesgs
      <3>4. o.flags[1] \in BOOLEAN /\ o.flags[2] \in BOOLEAN
        BY ParamsAssumption DEF Options
      <3> HIDE DEF mesg
      <3>5. DocParam(p, mesg, TRUE, FALSE, o.flags[1], o.flags[2])
        BY <2>2 DEF mesg
      <3> QED  BY <3>3, <3>4, <3>5 DEF WriterStep
    <2> QED  BY <1>1, <2>1, <2>2 DEF Get
  <1>2. ASSUME NEW b \in Blocks, NEW described \in BOOLEAN, RpOpenBlock(b, described)
        PROVE  WriterStep
    BY <1>2 DEF RpOpenBlock, WriterStep
  <1>3. CASE RpCloseBlock
    BY <1>3 DEF RpCloseBlock, WriterStep
  <1>4. ASSUME NEW m \in Modules, NEW described \in BOOLEAN, NEW r \in ModuleFlags, NEW d \in AllDefaults,
               RpDocModule(m, described, r, d)
        PROVE  WriterStep
    <2>1. d \in BOOLEAN /\ r[1] \in BOOLEAN /\ r[2] \in BOOLEAN
      BY CallsAssumption
    <2> QED  BY <1>4, <2>1 DEF RpDocModule, WriterStep
  <1>5. CASE RpCloseModule
    BY <1>5 DEF RpCloseModule, WriterStep
  <1>6. CASE \E f \in Files : RpDiskFull(f)
    BY <1>6 DEF RpDiskFull, WriterStep
  <1>7. CASE UNCHANGED rpVars
    BY <1>7 DEF rpVars, docVars, WriterStep
  <1> QED  BY <1>1, <1>2, <1>3, <1>4, <1>5, <1>6, <1>7 DEF RpNext

\* Reads of parameters only call the writer in ways it is made for: what holds of
\* its files holds of those of a run.
THEOREM ReadsAreDocumented == RpSpec => [](WrittenOnce /\ NoSilentLoss /\ ShortInAll)
  <1>1. RpInit => WriterInv /\ RpTypeOK
    BY WriterInit DEF RpInit, RpTypeOK
  <1>2. WriterInv /\ RpTypeOK /\ [RpNext]_rpVars => WriterInv'
    BY RpNextIsWriterStep, WriterInvOfStep
  <1>3. WriterInv => WrittenOnce /\ NoSilentLoss /\ ShortInAll
    BY WrittenIsOnce DEF WriterInv
  <1> QED  BY <1>1, <1>2, <1>3, RpTypeOfStep, PTL DEF RpSpec

-----------------------------------------------------------------------------
(* The reader's block and the writer's *)

(* The object only makes a writer for a nonempty base name.                *)
HasBase == base = "base"

(* Files that could not be opened have been reported: the one attempt to   *)
(* open them threw, and the object never closes them.                      *)
OpenOrReported == openAttempted = TRUE /\ filesOpen = FALSE => reported = TRUE

Agree == reported = FALSE => currentBlock = block

Booleans == openAttempted \in BOOLEAN /\ filesOpen \in BOOLEAN /\ reported \in BOOLEAN

BlockInv == HasBase /\ Booleans /\ OpenOrReported /\ Agree

-----------------------------------------------------------------------------
(* What an attempt to open the files leads to when there is a base name.   *)
LEMMA OpenStep ==
    ASSUME BlockInv, NEW o \in OpenOutcomes, OpenFiles(o)
    PROVE  /\ openAttempted' = TRUE
           /\ filesOpen' = o.isOpen
           /\ o.isOpen \in BOOLEAN
           /\ o.threw \in BOOLEAN
           /\ o.isOpen = FALSE => o.threw = TRUE \/ reported = TRUE
<1>1. openAttempted' = TRUE /\ filesOpen' = o.isOpen
  BY DEF OpenFiles
<1>2. CASE openAttempted = TRUE
  <2>1. o = [streams |-> streams, isOpen |-> filesOpen, threw |-> FALSE]
    BY <1>2 DEF OpenOutcomes
  <2>2. QED
    BY <1>1, <1>2, <2>1 DEF BlockInv, OpenOrReported, Booleans
<1>3. CASE openAttempted = FALSE
  <2>1. \/ o.isOpen = TRUE /\ o.threw = FALSE
        \/ o.isOpen = FALSE /\ o.threw = TRUE
    BY <1>3 DEF OpenOutcomes, BlockInv, HasBase
  <2>2. QED
    BY <1>1, <2>1
<1>4. QED
  BY <1>2, <1>3 DEF BlockInv, Booleans

(* A call that leaves both blocks alone, and throws when the files cannot  *)
(* be opened, preserves the invariant.                                     *)
LEMMA KeepsBlocks ==
    ASSUME BlockInv, NEW o \in OpenOutcomes, OpenFiles(o),
           o.isOpen = FALSE => IF o.threw THEN IOError ELSE Ok,
           o.isOpen = TRUE => IOError \/ Ok,
           UNCHANGED <<base, block, currentBlock>>
    PROVE  BlockInv'
<1>1. /\ openAttempted' = TRUE
      /\ filesOpen' = o.isOpen
      /\ o.isOpen \in BOOLEAN
      /\ o.threw \in BOOLEAN
      /\ o.isOpen = FALSE => o.threw = TRUE \/ reported = TRUE
  BY OpenStep
<1>2. reported' \in {TRUE, reported}
  BY <1>1 DEF IOError, Ok
<1>3. o.isOpen = FALSE => reported' = TRUE
  BY <1>1, <1>2 DEF IOError, Ok
<1>4. QED
  BY <1>1, <1>2, <1>3 DEF BlockInv, HasBase, Booleans, OpenOrReported, Agree

LEMMA RpInitInv == RpInit => BlockInv
BY ParamsAssumption DEF RpInit, Init, BlockInv, HasBase, Booleans, OpenOrReported, Agree

LEMMA GetStep ==
    ASSUME BlockInv, NEW p \in Params, NEW o \in Options, Get(p, o)
    PROVE  BlockInv'
<1>1. CASE UNCHANGED <<docState, docHistory>>
  BY <1>1 DEF Get, docState, docHistory, BlockInv, HasBase, Booleans, OpenOrReported, Agree
<1>2. ASSUME NEW mesg, NEW described, NEW like, NEW layout, NEW debugging,
             DocParam(p, mesg, described, like, layout, debugging)
      PROVE  BlockInv'
  <2>1. PICK q \in OpenOutcomes :
           /\ OpenFiles(q)
           /\ q.isOpen = FALSE => IF q.threw THEN IOError ELSE Ok
           /\ q.isOpen = TRUE => IOError \/ Ok
           /\ UNCHANGED <<base, block>>
    BY <1>2 DEF DocParam
  <2>2. currentBlock' = currentBlock
    BY DEF Get
  <2>3. QED
    BY <2>1, <2>2, KeepsBlocks
<1>3. QED
  BY <1>1, <1>2 DEF Get

LEMMA OpenBlockStep ==
    ASSUME BlockInv, NEW b \in Blocks, NEW described \in BOOLEAN, RpOpenBlock(b, described)
    PROVE  BlockInv'
<1>1. CASE UNCHANGED <<docState, docHistory, currentBlock>>
  BY <1>1 DEF docState, docHistory, BlockInv, HasBase, Booleans, OpenOrReported, Agree
<1>2. CASE currentBlock = NoBlock /\ currentBlock' = b /\ OpenBlock(b, described)
  <2>1. CASE block # NoBlock /\ LogicError("open_in_block")
    BY <1>2, <2>1 DEF LogicError, docState, docHistory, BlockInv, HasBase, Booleans,
       OpenOrReported, Agree
  <2>2. CASE block = NoBlock
    <3>1. PICK o \in OpenOutcomes :
             /\ OpenFiles(o)
             /\ o.isOpen = FALSE => IF o.threw THEN IOError ELSE Ok
             /\ o.isOpen = TRUE => IOError \/ (Ok /\ block' = b)
             /\ base' = base
      BY <1>2, <2>2 DEF OpenBlock
    <3>2. /\ openAttempted' = TRUE
          /\ filesOpen' = o.isOpen
          /\ o.isOpen \in BOOLEAN
          /\ o.threw \in BOOLEAN
          /\ o.isOpen = FALSE => o.threw = TRUE \/ reported = TRUE
      BY <3>1, OpenStep
    <3>3. reported' \in {TRUE, reported}
      BY <3>1, <3>2 DEF IOError, Ok
    <3>4. o.isOpen = FALSE => reported' = TRUE
      BY <3>1, <3>2, <3>3 DEF IOError, Ok
    <3>5. reported' = FALSE => block' = b
      BY <3>1, <3>2, <3>4 DEF IOError
    <3>6. QED
      BY <1>2, <3>1, <3>2, <3>3, <3>4, <3>5 DEF BlockInv, HasBase, Booleans,
         OpenOrReported, Agree
  <2>3. QED
    BY <1>2, <2>1, <2>2 DEF OpenBlock
<1>3. QED
  BY <1>1, <1>2 DEF RpOpenBlock

LEMMA CloseBlockStep ==
    ASSUME BlockInv, RpCloseBlock
    PROVE  BlockInv'
<1>1. CASE UNCHANGED <<docState, docHistory, currentBlock>>
  BY <1>1 DEF docState, docHistory, BlockInv, HasBase, Booleans, OpenOrReported, Agree
<1>2. CASE currentBlock # NoBlock /\ currentBlock' = NoBlock /\ CloseBlock
  <2>1. CASE block = NoBlock /\ LogicError("close_without_block")
    BY <1>2, <2>1 DEF LogicError, docState, docHistory, BlockInv, HasBase, Booleans,
       OpenOrReported, Agree
  <2>2. CASE block # NoBlock
    <3>1. PICK o \in OpenOutcomes :
             /\ OpenFiles(o)
             /\ o.isOpen = FALSE => IF o.threw THEN IOError ELSE Ok
             /\ o.isOpen = TRUE => IOError \/ (Ok /\ block' = NoBlock)
             /\ base' = base
      BY <1>2, <2>2 DEF CloseBlock
    <3>2. /\ openAttempted' = TRUE
          /\ filesOpen' = o.isOpen
          /\ o.isOpen \in BOOLEAN
          /\ o.threw \in BOOLEAN
          /\ o.isOpen = FALSE => o.threw = TRUE \/ reported = TRUE
      BY <3>1, OpenStep
    <3>3. reported' \in {TRUE, reported}
      BY <3>1, <3>2 DEF IOError, Ok
    <3>4. o.isOpen = FALSE => reported' = TRUE
      BY <3>1, <3>2, <3>3 DEF IOError, Ok
    <3>5. reported' = FALSE => block' = NoBlock
      BY <3>1, <3>2, <3>4 DEF IOError
    <3>6. QED
      BY <1>2, <3>1, <3>2, <3>3, <3>4, <3>5 DEF BlockInv, HasBase, Booleans,
         OpenOrReported, Agree
  <2>3. QED
    BY <1>2, <2>1, <2>2 DEF CloseBlock
<1>3. QED
  BY <1>1, <1>2 DEF RpCloseBlock

LEMMA DocModuleStep ==
    ASSUME BlockInv, NEW m \in Modules, NEW described \in BOOLEAN, NEW r, NEW d,
           RpDocModule(m, described, r, d)
    PROVE  BlockInv'
<1>1. PICK o \in OpenOutcomes :
         /\ OpenFiles(o)
         /\ o.isOpen = FALSE => IF o.threw THEN IOError ELSE Ok
         /\ o.isOpen = TRUE => IOError \/ Ok
         /\ UNCHANGED <<base, block>>
  BY DEF RpDocModule, DocModule
<1>2. currentBlock' = currentBlock
  BY DEF RpDocModule
<1>3. QED
  BY <1>1, <1>2, KeepsBlocks

LEMMA RpNextInv == BlockInv /\ [RpNext]_rpVars => BlockInv'
<1> SUFFICES ASSUME BlockInv, [RpNext]_rpVars
             PROVE  BlockInv'
  OBVIOUS
<1>1. CASE \E p \in Params, o \in Options : Get(p, o)
  BY <1>1, GetStep
<1>2. CASE \E b \in Blocks, described \in BOOLEAN : RpOpenBlock(b, described)
  BY <1>2, OpenBlockStep
<1>3. CASE RpCloseBlock
  BY <1>3, CloseBlockStep
<1>4. CASE \E m \in Modules, described \in BOOLEAN, r \in ModuleFlags, d \in AllDefaults :
               RpDocModule(m, described, r, d)
  BY <1>4, DocModuleStep
<1>5. CASE RpCloseModule
  BY <1>5 DEF RpCloseModule, CloseModule, Ok, BlockInv, HasBase, Booleans, OpenOrReported, Agree
<1>6. CASE \E f \in Files : RpDiskFull(f)
  BY <1>6 DEF RpDiskFull, DiskFull, docHistory, BlockInv, HasBase, Booleans, OpenOrReported, Agree
<1>7. CASE UNCHANGED rpVars
  BY <1>7 DEF rpVars, docVars, docState, docHistory, BlockInv, HasBase, Booleans,
     OpenOrReported, Agree
<1>8. QED
  BY <1>1, <1>2, <1>3, <1>4, <1>5, <1>6, <1>7 DEF RpNext

(* RuntimeParams::open_block and close_block change current_block_ before  *)
(* they call the writer, and the writer changes its block after its last   *)
(* fallible call: the two still agree in every state before a reported     *)
(* failure.                                                                *)
THEOREM BlocksAgreeAlways == RpSpec => []BlocksAgree
<1>1. RpInit => BlockInv
  BY RpInitInv
<1>2. BlockInv /\ [RpNext]_rpVars => BlockInv'
  BY RpNextInv
<1>3. BlockInv => BlocksAgree
  BY DEF BlockInv, Agree, Booleans, BlocksAgree
<1>4. QED
  BY <1>1, <1>2, <1>3, PTL DEF RpSpec

-----------------------------------------------------------------------------
(* What the files say when they are read back *)

\* No module is routed elsewhere: its flags decide which files get block markers
PlainCalls == ModuleFlags \subseteq {<<FALSE, FALSE>>} /\ AllDefaults \subseteq {FALSE}

PlainModule == module.layout = FALSE /\ module.debugging = FALSE /\ module.allDefault = FALSE

\* A reader of the file is in the writer's block, and of it and of what the disk has
\* each line is read in its own block
Balanced(v) == v.broken = FALSE /\ \A l \in v.lines : l.block = l.name[1]

ReadInBlock(f) == seen[f].block = block /\ Balanced(seen[f]) /\ Balanced(onDisk[f])

\* All files are enabled, and each view of .all and .short is balanced
Reread == enabled = Files /\ (reported = FALSE => ReadInBlock("all") /\ ReadInBlock("short"))

LEMMA PlainOfStep == PlainCalls /\ PlainModule /\ StateTyped /\ [RpNext]_rpVars => PlainModule'
  <1> SUFFICES ASSUME PlainCalls, PlainModule, StateTyped, [RpNext]_rpVars PROVE PlainModule'
    OBVIOUS
  <1>1. ASSUME module' \in {module, Closed} PROVE PlainModule'
    BY <1>1 DEF PlainModule, Closed
  <1>2. ASSUME NEW p, NEW mesg, NEW layout, NEW debugging,
               DocParam(p, mesg, TRUE, FALSE, layout, debugging)
        PROVE  PlainModule'
    <2> DEFINE flag == module.allDefault /\ (FALSE \/ mesg.value = mesg.default)
    <2>1. module' = module \/ module' = [module EXCEPT !.allDefault = flag]
      BY <1>2 DEF DocParam
    <2>2. flag = FALSE
      BY DEF PlainModule
    <2> HIDE DEF flag
    <2> QED  BY <1>1, <2>1, <2>2 DEF PlainModule, StateTyped, ModuleStates
  <1>3. ASSUME NEW p \in Params, NEW o \in Options, Get(p, o) PROVE PlainModule'
    BY <1>1, <1>2, <1>3 DEF Get, docState
  <1>4. ASSUME NEW m \in Modules, NEW described \in BOOLEAN, NEW r \in ModuleFlags, NEW d \in AllDefaults,
               RpDocModule(m, described, r, d)
        PROVE  PlainModule'
    <2>1. r = <<FALSE, FALSE>> /\ d = FALSE
      BY DEF PlainCalls
    <2>2. r[1] = FALSE /\ r[2] = FALSE
      BY <2>1
    <2> DEFINE marked == [name |-> m, layout |-> r[1], debugging |-> r[2], allDefault |-> d]
    <2>3. module' = module \/ module' = Closed \/ module' = marked
      BY <1>4 DEF RpDocModule, DocModule
    <2>4. marked.layout = FALSE /\ marked.debugging = FALSE /\ marked.allDefault = FALSE
      BY <2>1, <2>2
    <2> HIDE DEF marked
    <2> QED  BY <1>1, <2>3, <2>4 DEF PlainModule
  <1>5. ASSUME NEW b \in Blocks, NEW described \in BOOLEAN, RpOpenBlock(b, described) PROVE PlainModule'
    BY <1>1, <1>5 DEF RpOpenBlock, OpenBlock, LogicError, docState
  <1>6. CASE RpCloseBlock
    BY <1>1, <1>6 DEF RpCloseBlock, CloseBlock, LogicError, docState
  <1>7. CASE RpCloseModule
    BY <1>1, <1>7 DEF RpCloseModule, CloseModule
  <1>8. CASE \E f \in Files : RpDiskFull(f)
    BY <1>1, <1>8 DEF RpDiskFull, DiskFull
  <1>9. CASE UNCHANGED rpVars
    BY <1>1, <1>9 DEF rpVars, docVars, docState
  <1> QED  BY <1>3, <1>4, <1>5, <1>6, <1>7, <1>8, <1>9 DEF RpNext

\* Both files get every marker
LEMMA MarkersGoToBoth ==
    ASSUME StateTyped, PlainModule, NEW f \in {"all", "short"}
    PROVE  f \in MarkerFiles(Files) /\ f \in Files
  BY DEF PlainModule, MarkerFiles, Destinations, Files

LEMMA RereadOfParam ==
    ASSUME StateTyped, WholeStreams, Reread, NEW p, NEW mesg, NEW layout, NEW debugging,
           DocParam(p, mesg, TRUE, FALSE, layout, debugging), DiskMoves
    PROVE  Reread'
  <1> DEFINE line(f) == [block |-> seen[f].block, name |-> <<block, p>>, mesg |-> mesg]
             after == [f \in Files |-> [seen[f] EXCEPT !.lines = @ \cup {line(f)}]]
  <1>1. /\ block' = block /\ (reported' = FALSE => reported = FALSE)
        /\ seen' = seen \/ \E dest, flushed : Write(dest, flushed, after)
    BY DEF DocParam, Ok, IOError
  <1>2. ASSUME NEW f \in {"all", "short"}, reported' = FALSE
        PROVE  ReadInBlock(f)'
    <2>1. ReadInBlock(f) /\ f \in Files
      BY <1>1, <1>2 DEF Reread, Files
    <2>2. seen[f] \in Views
      BY <2>1 DEF StateTyped
    <2> DEFINE l == line(f)
    <2> HIDE DEF l
    <2>3. after[f] = [seen[f] EXCEPT !.lines = @ \cup {l}]
      BY <2>1 DEF l
    <2>4. after[f].block = seen[f].block /\ after[f].broken = seen[f].broken /\ after[f].lines = seen[f].lines \cup {l}
      BY <2>2, <2>3 DEF Views
    <2>5. l.block = seen[f].block /\ l.name[1] = block
      BY DEF l
    <2> HIDE DEF after
    <2>6. seen'[f] = seen[f] \/ seen'[f] = after[f]
      BY <1>1, <2>1 DEF Write
    <2>7. seen'[f].block = block /\ Balanced(seen'[f])
      BY <2>1, <2>4, <2>5, <2>6 DEF ReadInBlock, Balanced
    <2>8. onDisk'[f] \in {onDisk[f], seen'[f]}
      BY <2>1 DEF DiskMoves
    <2>9. Balanced(onDisk'[f])
      BY <2>1, <2>7, <2>8 DEF ReadInBlock
    <2> QED  BY <1>1, <2>7, <2>9 DEF ReadInBlock, Balanced
  <1>3. enabled' = Files
    BY DEF DiskMoves, Reread
  <1> QED  BY <1>2, <1>3 DEF Reread

\* Markers move both readers
LEMMA RereadOfMarker ==
    ASSUME StateTyped, WholeStreams, PlainModule, Reread, NEW o \in OpenOutcomes, OpenFiles(o), Ok,
           o.isOpen, NEW after, NEW flushed, Write(MarkerFiles(o.streams), flushed, after),
           NEW b, block' = b, DiskMoves,
           \A f \in {"all", "short"} : after[f].block = b /\ after[f].lines = seen[f].lines
                                       /\ (seen[f].block = block => after[f].broken = seen[f].broken)
    PROVE  Reread'
  <1>1. ASSUME reported' = FALSE, NEW f \in {"all", "short"}
        PROVE  ReadInBlock(f)'
    <2>1. reported = FALSE
      BY <1>1 DEF Ok
    <2>2. o.streams = Files /\ bad = {}
      BY <2>1, Outcomes DEF WholeStreams, Reread
    <2>3. f \in MarkerFiles(o.streams) /\ f \in Files
      BY <2>2, MarkersGoToBoth
    <2>4. ReadInBlock(f)
      BY <2>1 DEF Reread
    <2>5. seen'[f] = after[f]
      BY <2>2, <2>3 DEF Write
    <2>6. seen'[f].block = b /\ Balanced(seen'[f])
      BY <2>4, <2>5 DEF ReadInBlock, Balanced
    <2>7. onDisk'[f] \in {onDisk[f], seen'[f]}
      BY <2>3 DEF DiskMoves
    <2>8. Balanced(onDisk'[f])
      BY <2>4, <2>6, <2>7 DEF ReadInBlock
    <2> QED  BY <2>6, <2>8 DEF ReadInBlock, Balanced
  <1>2. enabled' = Files
    BY DEF DiskMoves, Reread
  <1> QED  BY <1>1, <1>2 DEF Reread

LEMMA RereadOfOpen ==
    ASSUME StateTyped, WholeStreams, BlockInv, PlainModule, Reread, NEW b \in Blocks, NEW described \in BOOLEAN,
           OpenBlock(b, described), DiskMoves
    PROVE  Reread'
  <1>1. CASE LogicError("open_in_block")
    BY <1>1 DEF LogicError, docState, docHistory, Reread, ReadInBlock, Balanced
  <1>2. CASE ~LogicError("open_in_block")
    <2> DEFINE after == [f \in Files |-> ReadOpenMarker(seen[f], b)]
    <2>1. PICK o \in OpenOutcomes :
            /\ block = NoBlock
            /\ OpenFiles(o) /\ (Ok \/ IOError)
            /\ ~o.isOpen => (IF o.threw THEN IOError ELSE Ok) /\ UNCHANGED <<block, seen>>
            /\ o.isOpen => /\ \E flushed : Write(MarkerFiles(o.streams), flushed, after)
                           /\ IOError \/ block' = b
      BY <1>2 DEF OpenBlock
    <2>2. o.isOpen \in BOOLEAN /\ (o.isOpen = FALSE => o.threw = TRUE \/ reported = TRUE)
      BY <2>1, OpenStep
    <2>3. CASE reported' = TRUE
      BY <2>3 DEF DiskMoves, Reread
    <2>4. CASE reported' # TRUE
      <3>1. ~IOError /\ Ok
        BY <2>1, <2>4 DEF IOError
      <3>2. o.isOpen
        BY <2>1, <2>2, <2>4, <3>1 DEF Ok
      <3>3. \A f \in {"all", "short"} : after[f].block = b /\ after[f].lines = seen[f].lines
                                       /\ (seen[f].block = block => after[f].broken = seen[f].broken)
        <4> SUFFICES ASSUME NEW f \in {"all", "short"}
                     PROVE  after[f].block = b /\ after[f].lines = seen[f].lines
                            /\ (seen[f].block = block => after[f].broken = seen[f].broken)
          OBVIOUS
        <4>1. /\ f \in Files
              /\ seen[f] \in Views
          BY DEF StateTyped, Files
        <4>2. after[f] = ReadOpenMarker(seen[f], b)
          BY <4>1
        <4> HIDE DEF after
        <4> QED  BY <2>1, <4>1, <4>2 DEF ReadOpenMarker, Views
      <3> HIDE DEF after
      <3> QED  BY <2>1, <3>1, <3>2, <3>3, RereadOfMarker
    <2> QED  BY <2>3, <2>4
  <1> QED  BY <1>1, <1>2

LEMMA RereadOfClose ==
    ASSUME StateTyped, WholeStreams, BlockInv, PlainModule, Reread, CloseBlock, DiskMoves
    PROVE  Reread'
  <1>1. CASE LogicError("close_without_block")
    BY <1>1 DEF LogicError, docState, docHistory, Reread, ReadInBlock, Balanced
  <1>2. CASE ~LogicError("close_without_block")
    <2> DEFINE after == [f \in Files |-> ReadCloseMarker(seen[f], block)]
    <2>1. PICK o \in OpenOutcomes :
            /\ OpenFiles(o) /\ (Ok \/ IOError)
            /\ ~o.isOpen => (IF o.threw THEN IOError ELSE Ok) /\ UNCHANGED <<block, seen>>
            /\ o.isOpen => /\ \E flushed : Write(MarkerFiles(o.streams), flushed, after)
                           /\ IOError \/ block' = NoBlock
      BY <1>2 DEF CloseBlock
    <2>2. o.isOpen \in BOOLEAN /\ (o.isOpen = FALSE => o.threw = TRUE \/ reported = TRUE)
      BY <2>1, OpenStep
    <2>3. CASE reported' = TRUE
      BY <2>3 DEF DiskMoves, Reread
    <2>4. CASE reported' # TRUE
      <3>1. ~IOError /\ Ok
        BY <2>1, <2>4 DEF IOError
      <3>2. o.isOpen
        BY <2>1, <2>2, <2>4, <3>1 DEF Ok
      <3>3. \A f \in {"all", "short"} : after[f].block = NoBlock /\ after[f].lines = seen[f].lines
                                       /\ (seen[f].block = block => after[f].broken = seen[f].broken)
        <4> SUFFICES ASSUME NEW f \in {"all", "short"}
                     PROVE  after[f].block = NoBlock /\ after[f].lines = seen[f].lines
                            /\ (seen[f].block = block => after[f].broken = seen[f].broken)
          OBVIOUS
        <4>1. /\ f \in Files
              /\ seen[f] \in Views
          BY DEF StateTyped, Files
        <4>2. after[f] = ReadCloseMarker(seen[f], block)
          BY <4>1
        <4> HIDE DEF after
        <4> QED  BY <2>1, <4>1, <4>2 DEF ReadCloseMarker, Views
      <3> HIDE DEF after
      <3> QED  BY <2>1, <3>1, <3>2, <3>3, RereadOfMarker
    <2> QED  BY <2>3, <2>4
  <1> QED  BY <1>1, <1>2

LEMMA RereadOfStep ==
    ASSUME StateTyped, WholeStreams, BlockInv, PlainModule, Reread, DiskMoves, [RpNext]_rpVars
    PROVE  Reread'
  <1>1. ASSUME UNCHANGED <<seen, block>>, reported' = FALSE => reported = FALSE
        PROVE  Reread'
    <2>1. \A f \in {"all", "short"} : onDisk'[f] \in {onDisk[f], seen[f]}
      BY <1>1 DEF DiskMoves, Files
    <2>2. enabled' = Files
      BY DEF DiskMoves, Reread
    <2> QED  BY <1>1, <2>1, <2>2 DEF Reread, ReadInBlock, Balanced
  <1>2. CASE UNCHANGED <<docState, docHistory>>
    BY <1>1, <1>2 DEF docState, docHistory
  <1>3. ASSUME NEW p \in Params, NEW o \in Options, Get(p, o) PROVE Reread'
    BY <1>2, <1>3, RereadOfParam DEF Get
  <1>4. ASSUME NEW m \in Modules, NEW described \in BOOLEAN, NEW r \in ModuleFlags, NEW d \in AllDefaults,
               RpDocModule(m, described, r, d)
        PROVE  Reread'
    <2>1. seen' = seen
      <3>1. seen' = seen \/ \E dest, flushed : Write(dest, flushed, seen)
        BY <1>4 DEF RpDocModule, DocModule
      <3>2. seen \in [Files -> Views]
        BY DEF StateTyped
      <3> QED  BY <3>1, <3>2 DEF Write
    <2>2. block' = block /\ (reported' = FALSE => reported = FALSE)
      BY <1>4 DEF RpDocModule, DocModule, Ok, IOError
    <2> QED  BY <1>1, <2>1, <2>2
  <1>5. ASSUME NEW b \in Blocks, NEW described \in BOOLEAN, RpOpenBlock(b, described) PROVE Reread'
    BY <1>2, <1>5, RereadOfOpen DEF RpOpenBlock
  <1>6. CASE RpCloseBlock
    BY <1>2, <1>6, RereadOfClose DEF RpCloseBlock
  <1>7. CASE RpCloseModule
    BY <1>1, <1>7 DEF RpCloseModule, CloseModule, Ok
  <1>8. CASE \E f \in Files : RpDiskFull(f)
    BY <1>1, <1>8 DEF RpDiskFull, DiskFull, docHistory
  <1>9. CASE UNCHANGED rpVars
    BY <1>2, <1>9 DEF rpVars, docVars
  <1> QED  BY <1>3, <1>4, <1>5, <1>6, <1>7, <1>8, <1>9 DEF RpNext

\* Read back, the complete and the short file have every parameter in the block it
\* was looked up in and with the value the run used, until a failure is reported, if
\* no module is marked as layout, debugging or all-default.
THEOREM RereadsAlwaysSame == ASSUME PlainCalls PROVE RpSpec => []RereadsSame
  <1> DEFINE Inv == WriterInv /\ RpTypeOK /\ BlockInv /\ PlainModule /\ Reread
  <1>1. RpInit => Inv
    <2> SUFFICES ASSUME RpInit PROVE Inv
      OBVIOUS
    <2>1. WriterInv /\ RpTypeOK /\ BlockInv
      BY WriterInit, RpInitInv DEF RpInit, RpTypeOK
    <2>2. PlainModule
      BY DEF RpInit, Init, Closed, PlainModule
    <2>3. Reread
      BY ParamsAssumption DEF RpInit, Init, Unread, Files, Reread, ReadInBlock, Balanced
    <2> QED  BY <2>1, <2>2, <2>3
  <1>2. Inv /\ [RpNext]_rpVars => Inv'
    BY RpNextIsWriterStep, WriterInvOfStep, RpTypeOfStep, RpNextInv, PlainOfStep, RereadOfStep,
       DiskMovesOfStep DEF WriterInv
  <1>3. Inv => RereadsSame
    <2> SUFFICES ASSUME Inv, ~reported, NEW f \in {"all", "short"}
                 PROVE  /\ seen[f].block = currentBlock
                        /\ \A v \in {seen[f], onDisk[f]} :
                              /\ ~v.broken
                              /\ \A l \in v.lines :
                                    l.block = l.name[1] /\ l.mesg.value = documented[l.name].value
      BY DEF RereadsSame
    <2>1. reported = FALSE /\ f \in Files
      BY DEF WriterInv, StateTyped, Files
    <2>2. ReadInBlock(f)
      BY <2>1 DEF Reread
    <2>3. currentBlock = block
      BY <2>1 DEF BlockInv, Agree
    <2>4. \A l \in seen[f].lines \cup onDisk[f].lines : l.mesg = documented[l.name]
      BY <2>1 DEF WriterInv, WrittenInv
    <2> QED  BY <2>2, <2>3, <2>4 DEF ReadInBlock, Balanced
  <1> HIDE DEF Inv
  <1> QED  BY <1>1, <1>2, <1>3, PTL DEF RpSpec
=============================================================================
