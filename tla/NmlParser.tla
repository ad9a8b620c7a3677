----------------------------- MODULE NmlParser -----------------------------
(***************************************************************************)
(* NamelistParams' constructor: a Fortran namelist file read line by line  *)
(* into a case-insensitive ParamTable (framework/MOM_nml_parser.cpp).  An  *)
(* assignment is inserted at the end of its line unless the line ends in a *)
(* comma (or inside a quotation, which defers it alike); it then waits for *)
(* the lines that continue it.  A value is the sequence of its items.      *)
(* Which assignment the items at the start of a line end up in, or whether *)
(* they become part of a variable's name, depends on how lines are cut.    *)
(* The first error ends the construction: there is then no object.         *)
(***************************************************************************)
EXTENDS Naturals, Sequences

CONSTANTS
    Groups,      \* namelist names, in every spelling
    Keys,        \* variable names, in every spelling
    Unset,       \* "no such key": not a value
    Lower,       \* string_utils::lowercase
    NoGroup,     \* "outside a namelist": the empty curr_namelist
    NoName,      \* an empty variable name
    Glued,       \* the name a key becomes when items stand before it, told
                 \* apart by the key and the first of the items
    Kind,        \* item -> its type (bool, int, double or string)
    Texts,       \* the texts a line may hold between '&name' and '/'
    MaxLines     \* bound: lines in the file

Lists == Seq(DOMAIN Kind)

\* NamelistParams::table_ is built case insensitive.
INSTANCE ParamTable WITH Values <- Lists, CaseInsensitive <- TRUE

\* A text holds items that stand before any assignment, then assignments (one
\* of the two may be missing), and may end in a comma: '2, B = 3' has both.
Nothing == [assigns |-> <<>>, items |-> <<>>, comma |-> FALSE]

Assign == [key : Keys, items : Lists]

ASSUME NmlAssumption ==
    /\ Unset \notin Lists
    /\ \A g \in Groups : Lower[g] \in Groups /\ Lower[Lower[g]] = Lower[g]
    /\ \A k \in Keys : Lower[k] \in Keys /\ Lower[Lower[k]] = Lower[k]
    /\ NoGroup \in Groups
    /\ \A g \in Groups : Lower[g] = NoGroup <=> g = NoGroup
    /\ NoName \in Keys
    /\ Glued \in [(DOMAIN Kind) \X Keys -> Keys \ {NoName}]
    /\ MaxLines \in Nat
    /\ \A t \in Texts :
         /\ t.assigns \in Seq(Assign) /\ t.items \in Lists /\ t.comma \in BOOLEAN
         /\ t.assigns # <<>> \/ t.items # <<>>

VARIABLES
    table,      \* NamelistParams::table_
    status,     \* where the constructor is
    lines,      \* lines read so far
    current,    \* add_data_from_file: curr_namelist
    deferred,   \* the assignments in accumulated_line
    stray,      \* the items in accumulated_line while it holds no assignment
    todo,       \* the assignments that process_assignments has still to insert
    seen,       \* history: the assignments of the text, continued lines joined
    last,       \* history: how the last assignment of this namelist ended
    loose       \* history: the items read since, that belong to no assignment

accumulated == <<deferred, stray>>
history == <<seen, last, loose>>
vars == <<table, status, lines, current, accumulated, todo, history>>

Init ==
    /\ table = EmptyTable
    /\ status = "opening"
    /\ lines = 0
    /\ current = NoGroup
    /\ deferred = <<>> /\ stray = <<>>
    /\ todo = <<>>
    /\ seen = <<>> /\ last = "none" /\ loose = <<>>

Fail ==
    /\ status' = "failed"
    /\ UNCHANGED <<table, lines, current, accumulated, todo, history>>

\* The path may be missing, not a regular file, or unreadable.
Open ==
    /\ status = "opening"
    /\ \/ /\ status' = "reading"
          /\ UNCHANGED <<table, lines, current, accumulated, todo, history>>
       \/ Fail

-----------------------------------------------------------------------------
(* The accumulated text.                                                   *)

\* The last assignment of list, with more items.
WithItems(assign, items) == [assign EXCEPT !.items = @ \o items]

Continued(list, items) == [list EXCEPT ![Len(list)] = WithItems(@, items)]

\* All the text before an '=' is taken for the variable's name.
Filed(lead, key) == IF lead = <<>> THEN key ELSE Glued[lead[1], key]

Led(lead, assigns) == [assigns EXCEPT ![1].key = Filed(lead, @)]

\* The assignments in the accumulated text, that is list or else the items
\* before, with text t appended.  find_rhs_end cuts a value at the last comma
\* before a name, so that items between two assignments end the first one.
Joined(list, before, t) ==
    IF list # <<>> THEN Continued(list, t.items) \o t.assigns
    ELSE IF t.assigns = <<>> THEN <<>>
    ELSE Led(before \o t.items, t.assigns)

\* Assignments as process_assignments will insert them into namelist g.
Entries(list, g) == [i \in DOMAIN list |-> [slot |-> Slot(g, list[i].key),
                                            named |-> list[i].key # NoName,
                                            items |-> list[i].items]]

-----------------------------------------------------------------------------
(* Histories: the assignments of the text by the layout of its lines alone. *)

\* Items at the start of a line belong to the assignment before them where that
\* one ended in a comma and the line does not go on with another assignment,
\* unless it also closes the namelist.
Belong(t, closes, ended) == ended = "comma" /\ (t.assigns = <<>> \/ closes)

\* Items that belong to none are part of the name that follows on the line; on
\* a line that closes the namelist, so are those of the lines before.
Lead(t, closes, ended, loosely) ==
    IF Belong(t, closes, ended) THEN <<>> ELSE IF closes THEN loosely \o t.items ELSE t.items

RecordedOf(t, g, lead) ==
    [i \in DOMAIN t.assigns |-> [group |-> g, lead |-> IF i = 1 THEN lead ELSE <<>>,
                                 key |-> t.assigns[i].key, items |-> t.assigns[i].items]]

LastAfter(t, ended) ==
    IF t.assigns = <<>> /\ ended # "comma" THEN ended ELSE IF t.comma THEN "comma" ELSE "end"

\* A line with text t in namelist g; ended and loosely are the histories that
\* the line starts from.
Record(t, g, closes, ended, loosely) ==
    /\ seen' = (IF Belong(t, closes, ended) THEN Continued(seen, t.items) ELSE seen)
                 \o RecordedOf(t, g, Lead(t, closes, ended, loosely))
    /\ last' = IF closes THEN "none" ELSE LastAfter(t, ended)
    /\ loose' = IF closes \/ t.assigns # <<>> \/ Belong(t, closes, ended)
                THEN <<>> ELSE loosely \o t.items

-----------------------------------------------------------------------------
(* A line's text.                                                          *)

(***************************************************************************)
(* A text inside namelist g.  A text with an assignment first flushes the  *)
(* deferred ones; the accumulated text is then processed at once unless it *)
(* ends in a comma.  Text without any '=' stays where it is.               *)
(***************************************************************************)
\* Mutant of Complete: a trailing comma does not defer.
CompleteAtLineEnd(list, t) == list # <<>>

Complete(list, t) == list # <<>> /\ ~t.comma

\* list and before say what is accumulated: assignments, or else items.
Text(t, g, list, before, ended, loosely) ==
    LET starts == t.assigns # <<>>
        flushed == IF starts THEN list ELSE <<>>
        joined == IF starts THEN Joined(<<>>, <<>>, t) ELSE Joined(list, before, t)
    IN /\ IF Complete(joined, t)
          THEN /\ todo' = Entries(flushed \o joined, g)
               /\ deferred' = <<>> /\ stray' = <<>>
          ELSE /\ todo' = Entries(flushed, g)
               /\ deferred' = joined
               /\ stray' = IF joined = <<>> THEN before \o t.items ELSE <<>>
       /\ Record(t, g, FALSE, ended, loosely)

\* '/' ends namelist g, after the text t: what is accumulated is flushed into
\* it, joined to t as it stands (a value is cut only where a name follows).
Close(t, g, list, before, ended, loosely) ==
    /\ list # <<>> /\ t.assigns # <<>> => t.assigns[1].key # NoName
    /\ todo' = Entries(Joined(list, before, t), g)
    /\ deferred' = <<>> /\ stray' = <<>>
    /\ Record(t, g, TRUE, ended, loosely)

-----------------------------------------------------------------------------
(* Lines.                                                                  *)

\* The loop takes a line once the previous line's assignments are inserted.
TakeLine ==
    /\ status = "reading" /\ todo = <<>>
    /\ lines < MaxLines
    /\ lines' = lines + 1

\* Text, with or without '/', or an '&' without a name outside a namelist, or
\* a second '&' inside one.
ReadRefused ==
    /\ TakeLine
    /\ status' = "failed"
    /\ UNCHANGED <<table, current, accumulated, todo, history>>

ReadText(t) ==
    /\ current # NoGroup
    /\ TakeLine
    /\ Text(t, current, deferred, stray, last, loose)
    /\ UNCHANGED <<table, status, current>>

ReadClose(t) ==
    /\ current # NoGroup
    /\ TakeLine
    /\ Close(t, current, deferred, stray, last, loose)
    /\ current' = NoGroup
    /\ UNCHANGED <<table, status>>

\* '&name' starts a namelist and clears the accumulated text; the rest of the
\* line is then handled as a line of the namelist.
ReadOpen(g, t, closes) ==
    /\ current = NoGroup /\ g # NoGroup
    /\ TakeLine
    /\ \/ /\ t = Nothing /\ ~closes
          /\ deferred' = <<>> /\ stray' = <<>> /\ last' = "none" /\ loose' = <<>>
          /\ UNCHANGED <<todo, seen>>
       \/ t # Nothing /\ ~closes /\ Text(t, Lower[g], <<>>, <<>>, "none", <<>>)
       \/ closes /\ Close(t, Lower[g], <<>>, <<>>, "none", <<>>)
    /\ current' = IF closes THEN NoGroup ELSE Lower[g]
    /\ UNCHANGED <<table, status>>

\* process_assignments: the next name must not be empty, its value must be a
\* list of one type, and the table must take it.
Acceptable(e) ==
    /\ e.named
    /\ e.items # <<>>
    /\ \A i, j \in DOMAIN e.items : Kind[e.items[i]] = Kind[e.items[j]]
    /\ InsertAllowed(table, e.slot, e.items, FALSE)

InsertNext ==
    /\ status = "reading" /\ todo # <<>>
    /\ Acceptable(Head(todo))
    /\ table' = Insert(table, Head(todo).slot, Head(todo).items)
    /\ todo' = Tail(todo)
    /\ UNCHANGED <<status, lines, current, accumulated, history>>

RefuseNext ==
    /\ status = "reading" /\ todo # <<>>
    /\ ~Acceptable(Head(todo))
    /\ Fail

\* The file may end anywhere; a namelist that is still open is an error.
EndOfFile ==
    /\ status = "reading" /\ todo = <<>>
    /\ status' = IF current = NoGroup THEN "done" ELSE "failed"
    /\ UNCHANGED <<table, lines, current, accumulated, todo, history>>

\* The constructor has returned or thrown.
Constructed == status \in {"done", "failed"} /\ UNCHANGED vars

Next ==
    \/ Open
    \/ ReadRefused
    \/ \E t \in Texts : ReadText(t)
    \/ \E t \in Texts \cup {Nothing} : ReadClose(t)
    \/ \E g \in Groups, t \in Texts \cup {Nothing}, closes \in BOOLEAN : ReadOpen(g, t, closes)
    \/ InsertNext \/ RefuseNext
    \/ EndOfFile
    \/ Constructed

Spec == Init /\ [][Next]_vars

-----------------------------------------------------------------------------
(* Properties.                                                             *)

Entry == [slot : Slots, named : BOOLEAN, items : Lists]

\* The variables have their types; accumulated text is either assignments or
\* stray items, and there is none outside a namelist.
NmlTypeOK ==
    /\ table \in Tables
    /\ status \in {"opening", "reading", "done", "failed"}
    /\ lines \in 0 .. MaxLines
    /\ current \in Groups /\ Lower[current] = current
    /\ deferred \in Seq(Assign)
    /\ stray \in Lists
    /\ todo \in Seq(Entry)
    /\ last \in {"none", "comma", "end"}
    /\ loose \in Lists
    /\ stray # <<>> => deferred = <<>>
    /\ current = NoGroup => deferred = <<>> /\ stray = <<>>

\* A file that has been read to its end, however its lines are cut, has exactly
\* the assignments of its text in the table: each under the namelist it stands in,
\* in whatever spelling it is looked up, and with all of its items, the first
\* value of a variable standing whatever is deferred, flushed or joined later.
\* That is the code's layout rule, not Fortran's: the items of a line such as
\* '2, B = 3' after 'A = 1,' are not lost and not A's, they file the value 3
\* under a variable of another name than B.
TextIsTable ==
    status = "done" =>
      LET slot(a) == Slot(a.group, Filed(a.lead, a.key))
      IN /\ \A i \in DOMAIN seen : table[slot(seen[i])] = seen[i].items
         /\ \A s \in Slots : HasParam(table, s) => \E i \in DOMAIN seen : s = slot(seen[i])
=============================================================================
