-------------------------- MODULE NmlParserProofs --------------------------
(***************************************************************************)
(* What the namelist reader guarantees for any names, items and texts, and *)
(* files of any length.                                                    *)
(***************************************************************************)
EXTENDS NmlParser, SequenceTheorems, TLAPS

-----------------------------------------------------------------------------
(* The operators *)

LEMMA SlotType == ASSUME NEW g \in Groups, NEW k \in Keys PROVE Slot(g, k) \in Slots
  BY NmlAssumption DEF Slot, Slots, Normalize

\* The last element gets more items, the others stay as they are
LEMMA ContinuedFacts ==
    ASSUME NEW R, NEW list \in Seq(R), list # <<>>, NEW items, WithItems(list[Len(list)], items) \in R
    PROVE  /\ Continued(list, items) \in Seq(R)
           /\ Len(Continued(list, items)) = Len(list)
           /\ \A j \in 1 .. Len(list) :
                 Continued(list, items)[j] = IF j = Len(list) THEN WithItems(list[j], items) ELSE list[j]
  <1> DEFINE e == WithItems(list[Len(list)], items)
  <1>1. Len(list) \in Nat \ {0}
    BY EmptySeq
  <1>2. Continued(list, items) = [list EXCEPT ![Len(list)] = e]
    BY DEF Continued, WithItems
  <1> HIDE DEF e
  <1>3. e \in R
    BY DEF e
  <1>4. Len(list) \in 1 .. Len(list)
    BY <1>1
  <1>5. /\ [list EXCEPT ![Len(list)] = e] \in Seq(R)
        /\ Len([list EXCEPT ![Len(list)] = e]) = Len(list)
        /\ \A j \in 1 .. Len(list) : [list EXCEPT ![Len(list)] = e][j] = IF j = Len(list) THEN e ELSE list[j]
    BY <1>3, <1>4, ExceptSeq
  <1> QED  BY <1>2, <1>5 DEF e

\* Assignments and their records with more items
Recorded == [group : Groups, lead : Lists, key : Keys, items : Lists]

LEMMA MoreItems ==
    ASSUME NEW items \in Lists
    PROVE  /\ \A a \in Assign : /\ WithItems(a, items) \in Assign
                                /\ WithItems(a, items).key = a.key
                                /\ WithItems(a, items).items = a.items \o items
           /\ \A r \in Recorded : /\ WithItems(r, items) \in Recorded
                                  /\ WithItems(r, items).group = r.group
                                  /\ WithItems(r, items).lead = r.lead
                                  /\ WithItems(r, items).key = r.key
                                  /\ WithItems(r, items).items = r.items \o items
  <1>1. \A l \in Lists : l \o items \in Lists
    BY ConcatProperties DEF Lists
  <1>2. ASSUME NEW a \in Assign
        PROVE  /\ WithItems(a, items) \in Assign
               /\ WithItems(a, items).key = a.key
               /\ WithItems(a, items).items = a.items \o items
    <2> DEFINE l == a.items \o items
    <2>1. l \in Lists
      BY <1>1 DEF Assign
    <2> HIDE DEF l
    <2>2. [a EXCEPT !.items = l] \in Assign /\ [a EXCEPT !.items = l].key = a.key /\ [a EXCEPT !.items = l].items = l
      BY <2>1 DEF Assign
    <2> QED  BY <2>2 DEF l, WithItems
  <1>3. ASSUME NEW r \in Recorded
        PROVE  /\ WithItems(r, items) \in Recorded
               /\ WithItems(r, items).group = r.group
               /\ WithItems(r, items).lead = r.lead
               /\ WithItems(r, items).key = r.key
               /\ WithItems(r, items).items = r.items \o items
    <2> DEFINE l == r.items \o items
    <2>1. l \in Lists
      BY <1>1 DEF Recorded
    <2> HIDE DEF l
    <2>2. /\ [r EXCEPT !.items = l] \in Recorded /\ [r EXCEPT !.items = l].key = r.key
          /\ [r EXCEPT !.items = l].group = r.group /\ [r EXCEPT !.items = l].lead = r.lead
          /\ [r EXCEPT !.items = l].items = l
      BY <2>1 DEF Recorded
    <2> QED  BY <2>2 DEF l, WithItems
  <1> QED  BY <1>2, <1>3

\* A sequence built element by element
LEMMA MappedSeq ==
    ASSUME NEW S, NEW list \in Seq(S), NEW R, NEW f, f \in [DOMAIN list -> R]
    PROVE  f \in Seq(R) /\ Len(f) = Len(list) /\ DOMAIN f = 1 .. Len(list)
  <1>1. Len(list) \in Nat /\ DOMAIN list = 1 .. Len(list)
    BY LenProperties
  <1>2. f \in Seq(R)
    BY <1>1, SeqDef
  <1>3. Len(f) \in Nat /\ DOMAIN f = 1 .. Len(f)
    BY <1>2, LenProperties
  <1>4. DOMAIN f = 1 .. Len(list)
    BY <1>1
  <1>5. Len(f) = Len(list)
    BY <1>1, <1>3, <1>4
  <1> QED  BY <1>2, <1>4, <1>5

LEMMA EntriesFacts ==
    ASSUME NEW list \in Seq(Assign), NEW g \in Groups
    PROVE  /\ Entries(list, g) \in Seq(Entry)
           /\ Len(Entries(list, g)) = Len(list)
           /\ \A i \in 1 .. Len(list) : /\ Entries(list, g)[i].slot = Slot(g, list[i].key)
                                      /\ Entries(list, g)[i].items = list[i].items
  <1>1. DOMAIN list = 1 .. Len(list)
    BY LenProperties
  <1>2. ASSUME NEW i \in DOMAIN list
        PROVE  [slot |-> Slot(g, list[i].key), named |-> list[i].key # NoName, items |-> list[i].items] \in Entry
    <2>1. list[i] \in Assign
      BY <1>1, ElementOfSeq
    <2>2. list[i].key \in Keys /\ list[i].items \in Lists
      BY <2>1 DEF Assign
    <2>3. Slot(g, list[i].key) \in Slots
      BY <2>2, SlotType
    <2> QED  BY <2>2, <2>3 DEF Entry
  <1>3. Entries(list, g) \in [DOMAIN list -> Entry]
    BY <1>2 DEF Entries
  <1>4. \A i \in 1 .. Len(list) : Entries(list, g)[i].slot = Slot(g, list[i].key) /\ Entries(list, g)[i].items = list[i].items
    BY <1>1 DEF Entries
  <1> QED  BY <1>3, <1>4, MappedSeq

LEMMA FiledType == ASSUME NEW lead \in Lists, NEW k \in Keys PROVE Filed(lead, k) \in Keys
  <1>1. CASE lead = <<>>
    BY <1>1 DEF Filed
  <1>2. CASE lead # <<>>
    <2>1. 1 \in 1 .. Len(lead)
      BY <1>2, EmptySeq DEF Lists
    <2>2. lead[1] \in DOMAIN Kind
      BY <2>1, ElementOfSeq DEF Lists
    <2>3. Glued[lead[1], k] \in Keys
      BY <2>2, NmlAssumption
    <2> QED  BY <1>2, <2>3 DEF Filed
  <1> QED  BY <1>1, <1>2

\* Only the first assignment is filed under another name
LEMMA LedFacts ==
    ASSUME NEW list \in Seq(Assign), list # <<>>, NEW lead \in Lists
    PROVE  /\ Led(lead, list) \in Seq(Assign) /\ Led(lead, list) # <<>>
           /\ Len(Led(lead, list)) = Len(list)
           /\ \A i \in 1 .. Len(list) :
                /\ Led(lead, list)[i].key = Filed(IF i = 1 THEN lead ELSE <<>>, list[i].key)
                /\ Led(lead, list)[i].items = list[i].items
  <1> DEFINE k == Filed(lead, list[1].key)
             e == [list[1] EXCEPT !.key = k]
  <1>1. Len(list) \in Nat \ {0}
    BY EmptySeq
  <1>2. list[1] \in Assign
    BY <1>1, ElementOfSeq
  <1>3. k \in Keys
    BY <1>2, FiledType DEF Assign
  <1>4. Led(lead, list) = [list EXCEPT ![1] = e]
    BY DEF Led
  <1> HIDE DEF k
  <1>5. e \in Assign /\ e.key = k /\ e.items = list[1].items
    BY <1>2, <1>3 DEF Assign
  <1> HIDE DEF e
  <1>6. 1 \in 1 .. Len(list)
    BY <1>1
  <1>7. /\ Led(lead, list) \in Seq(Assign) /\ Len(Led(lead, list)) = Len(list)
        /\ \A i \in 1 .. Len(list) : Led(lead, list)[i] = IF i = 1 THEN e ELSE list[i]
    BY <1>4, <1>5, <1>6, ExceptSeq
  <1>8. \A i \in 1 .. Len(list) :
           /\ Led(lead, list)[i].key = Filed(IF i = 1 THEN lead ELSE <<>>, list[i].key)
           /\ Led(lead, list)[i].items = list[i].items
    <2> SUFFICES ASSUME NEW i \in 1 .. Len(list)
                 PROVE  /\ Led(lead, list)[i].key = Filed(IF i = 1 THEN lead ELSE <<>>, list[i].key)
                        /\ Led(lead, list)[i].items = list[i].items
      OBVIOUS
    <2>1. CASE i = 1
      BY <1>5, <1>7, <2>1 DEF k
    <2>2. CASE i # 1
      BY <1>7, <2>2 DEF Filed
    <2> QED  BY <2>1, <2>2
  <1>9. Led(lead, list) # <<>>
    BY <1>1, <1>7, EmptySeq
  <1> QED  BY <1>7, <1>8, <1>9

\* What a text is
LEMMA TextFacts ==
    ASSUME NEW t \in Texts \cup {Nothing}
    PROVE  /\ t.assigns \in Seq(Assign) /\ t.items \in Lists /\ t.comma \in BOOLEAN
           /\ Len(t.assigns) \in Nat
  <1>1. CASE t \in Texts
    BY <1>1, NmlAssumption, LenProperties
  <1>2. CASE t = Nothing
    <2>1. t.assigns = <<>> /\ t.items = <<>> /\ t.comma = FALSE
      BY <1>2 DEF Nothing
    <2>2. t.assigns \in Seq(Assign) /\ t.items \in Lists
      BY <2>1, EmptySeq DEF Lists
    <2> QED  BY <2>1, <2>2, LenProperties
  <1> QED  BY <1>1, <1>2

LEMMA ContinuedAssigns ==
    ASSUME NEW list \in Seq(Assign), list # <<>>, NEW items \in Lists
    PROVE  /\ Continued(list, items) \in Seq(Assign) /\ Continued(list, items) # <<>>
           /\ Len(Continued(list, items)) = Len(list)
           /\ \A j \in 1 .. Len(list) :
                 Continued(list, items)[j] = IF j = Len(list) THEN WithItems(list[j], items) ELSE list[j]
  <1>1. Len(list) \in Nat \ {0} /\ Len(list) \in 1 .. Len(list)
    BY EmptySeq
  <1>2. list[Len(list)] \in Assign
    BY <1>1, ElementOfSeq
  <1>3. WithItems(list[Len(list)], items) \in Assign
    BY <1>2, MoreItems
  <1>4. /\ Continued(list, items) \in Seq(Assign)
        /\ Len(Continued(list, items)) = Len(list)
        /\ \A j \in 1 .. Len(list) :
              Continued(list, items)[j] = IF j = Len(list) THEN WithItems(list[j], items) ELSE list[j]
    BY <1>3, ContinuedFacts
  <1> QED  BY <1>1, <1>4, EmptySeq

LEMMA ContinuedRecords ==
    ASSUME NEW list \in Seq(Recorded), list # <<>>, NEW items \in Lists
    PROVE  /\ Continued(list, items) \in Seq(Recorded) /\ Continued(list, items) # <<>>
           /\ Len(Continued(list, items)) = Len(list)
           /\ \A j \in 1 .. Len(list) :
                 Continued(list, items)[j] = IF j = Len(list) THEN WithItems(list[j], items) ELSE list[j]
  <1>1. Len(list) \in Nat \ {0} /\ Len(list) \in 1 .. Len(list)
    BY EmptySeq
  <1>2. list[Len(list)] \in Recorded
    BY <1>1, ElementOfSeq
  <1>3. WithItems(list[Len(list)], items) \in Recorded
    BY <1>2, MoreItems
  <1>4. /\ Continued(list, items) \in Seq(Recorded)
        /\ Len(Continued(list, items)) = Len(list)
        /\ \A j \in 1 .. Len(list) :
              Continued(list, items)[j] = IF j = Len(list) THEN WithItems(list[j], items) ELSE list[j]
    BY <1>3, ContinuedFacts
  <1> QED  BY <1>1, <1>4, EmptySeq

\* The assignments of a text, the first under the name that lead makes of it
Named(lead, t) == IF t.assigns = <<>> THEN <<>> ELSE Led(lead, t.assigns)

LEMMA NamedFacts ==
    ASSUME NEW t \in Texts \cup {Nothing}, NEW lead \in Lists
    PROVE  /\ Named(lead, t) \in Seq(Assign)
           /\ Len(Named(lead, t)) = Len(t.assigns)
           /\ \A i \in 1 .. Len(t.assigns) :
                /\ Named(lead, t)[i].key = Filed(IF i = 1 THEN lead ELSE <<>>, t.assigns[i].key)
                /\ Named(lead, t)[i].items = t.assigns[i].items
  <1>1. t.assigns \in Seq(Assign)
    BY TextFacts
  <1>2. CASE t.assigns = <<>>
    BY <1>2, EmptySeq DEF Named
  <1>3. CASE t.assigns # <<>>
    BY <1>1, <1>3, LedFacts DEF Named
  <1> QED  BY <1>2, <1>3

\* Without items before them, they are as they stand in the text
LEMMA NamedAsIs ==
    ASSUME NEW t \in Texts \cup {Nothing}
    PROVE  Named(<<>>, t) = t.assigns
  <1> DEFINE none == <<>>
  <1>1. none \in Lists
    BY EmptySeq DEF Lists
  <1>2. t.assigns \in Seq(Assign)
    BY TextFacts
  <1>3. CASE t.assigns = <<>>
    BY <1>3 DEF Named
  <1>4. CASE t.assigns # <<>>
    <2> DEFINE a == t.assigns
    <2>1. Len(a) \in Nat \ {0}
      BY <1>2, <1>4, EmptySeq
    <2>2. a[1] \in Assign
      BY <1>2, <2>1, ElementOfSeq
    <2>3. Filed(none, a[1].key) = a[1].key
      BY DEF Filed
    <2>4. Named(none, t) = [a EXCEPT ![1] = [a[1] EXCEPT !.key = a[1].key]]
      BY <1>4, <2>3 DEF Named, Led
    <2>5. [a[1] EXCEPT !.key = a[1].key] = a[1]
      BY <2>2 DEF Assign
    <2>6. DOMAIN a = 1 .. Len(a) /\ a \in [1 .. Len(a) -> Assign]
      BY <1>2, LenProperties
    <2> HIDE DEF a, none
    <2>7. [a EXCEPT ![1] = a[1]] = a
      BY <2>6
    <2> QED  BY <2>4, <2>5, <2>7 DEF a, none
  <1> QED  BY <1>3, <1>4

LEMMA JoinedFacts ==
    ASSUME NEW list \in Seq(Assign), NEW before \in Lists, NEW t \in Texts \cup {Nothing}
    PROVE  /\ Joined(list, before, t) \in Seq(Assign)
           /\ list # <<>> => Joined(list, before, t) = Continued(list, t.items) \o t.assigns
           /\ list = <<>> => Joined(list, before, t) = Named(before \o t.items, t)
  <1>1. t.assigns \in Seq(Assign) /\ t.items \in Lists
    BY TextFacts
  <1>2. CASE list = <<>>
    <2>1. before \o t.items \in Lists
      BY <1>1, ConcatProperties DEF Lists
    <2>2. Named(before \o t.items, t) \in Seq(Assign)
      BY <2>1, NamedFacts
    <2>3. Joined(list, before, t) = Named(before \o t.items, t)
      BY <1>2 DEF Joined, Named
    <2> QED  BY <1>2, <2>2, <2>3
  <1>3. CASE list # <<>>
    <2>1. Continued(list, t.items) \in Seq(Assign)
      BY <1>1, <1>3, ContinuedAssigns
    <2>2. Continued(list, t.items) \o t.assigns \in Seq(Assign)
      BY <1>1, <2>1, ConcatProperties
    <2>3. Joined(list, before, t) = Continued(list, t.items) \o t.assigns
      BY <1>3 DEF Joined
    <2> QED  BY <1>3, <2>2, <2>3
  <1> QED  BY <1>2, <1>3

-----------------------------------------------------------------------------
(* The invariant *)

SlotOf(r) == Slot(r.group, Filed(r.lead, r.key))

\* The assignments in list are those of the text from position from + 1 on, in g
IsText(list, from, g, text) ==
    \A j \in 1 .. Len(list) : /\ text[from + j].group = g
                              /\ Filed(text[from + j].lead, text[from + j].key) = list[j].key
                              /\ text[from + j].items = list[j].items

\* How many assignments of the text have been inserted
Inserted == Len(seen) - Len(todo) - Len(deferred)

\* The text is what was inserted, what is to be inserted, what is deferred
Replayed ==
    /\ Inserted >= 0
    /\ \A i \in 1 .. Inserted : table[SlotOf(seen[i])] = seen[i].items
    /\ \A s \in Slots : HasParam(table, s) => \E i \in 1 .. Inserted : s = SlotOf(seen[i])
    /\ \A j \in 1 .. Len(todo) : /\ todo[j].slot = SlotOf(seen[Inserted + j])
                                /\ todo[j].items = seen[Inserted + j].items
    /\ IsText(deferred, Inserted + Len(todo), current, seen)

TextInv ==
    /\ seen \in Seq(Recorded)
    /\ current = NoGroup => last = "none"
    /\ status = "done" => current = NoGroup /\ todo = <<>>
    /\ Replayed
    /\ loose = stray
    /\ last = "comma" <=> deferred # <<>>

NmlInv == NmlTypeOK /\ TextInv

LEMMA InitInv == Init => NmlInv
  <1> SUFFICES ASSUME Init PROVE NmlInv
    OBVIOUS
  <1>1. /\ table \in Tables /\ status = "opening" /\ lines \in 0 .. MaxLines /\ current = NoGroup
        /\ deferred = <<>> /\ todo = <<>> /\ seen = <<>> /\ stray = <<>> /\ last = "none" /\ loose = <<>>
    BY NmlAssumption DEF Init, EmptyTable, Tables
  <1>2. Lower[NoGroup] = NoGroup /\ NoGroup \in Groups
    BY NmlAssumption
  <1>3. NmlTypeOK
    BY <1>1, <1>2, EmptySeq DEF NmlTypeOK, Lists
  <1> DEFINE empty == <<>>
  <1>a. empty \in Seq(Recorded) /\ Len(empty) = 0
    BY EmptySeq
  <1>b. seen = empty /\ todo = empty /\ deferred = empty
    BY <1>1
  <1> HIDE DEF empty
  <1>c. seen \in Seq(Recorded) /\ Len(seen) = 0 /\ Len(todo) = 0 /\ Len(deferred) = 0
    BY <1>a, <1>b, Zenon
  <1>4. seen \in Seq(Recorded) /\ Len(seen) = 0 /\ Len(todo) = 0 /\ Len(deferred) = 0 /\ Inserted = 0
    BY <1>c DEF Inserted
  <1>5. \A s \in Slots : ~HasParam(table, s)
    BY DEF Init, EmptyTable, HasParam
  <1>6. Replayed
    BY <1>4, <1>5 DEF Replayed, IsText
  <1> QED  BY <1>1, <1>3, <1>4, <1>6 DEF NmlInv, TextInv

-----------------------------------------------------------------------------
(* A line of text *)

LEMMA RecordsConcat ==
    ASSUME NEW a \in Seq(Recorded), NEW b \in Seq(Recorded)
    PROVE  /\ a \o b \in Seq(Recorded)
           /\ Len(a \o b) = Len(a) + Len(b)
           /\ \A i \in 1 .. Len(a) + Len(b) : (a \o b)[i] = IF i <= Len(a) THEN a[i] ELSE b[i - Len(a)]
  BY ConcatProperties

\* The text ends in the assignments of list, from position n + 1 on
EndsIn(list, n, g, text) ==
    /\ list \in Seq(Assign) /\ text \in Seq(Recorded) /\ n \in Nat
    /\ Len(text) = n + Len(list)
    /\ IsText(list, n, g, text)

Kept(n, text, longer) == \A i \in 1 .. n : longer[i] = text[i]

\* Text after text
LEMMA IsTextConcat ==
    ASSUME NEW list, NEW more, NEW n, NEW g, NEW text, NEW records,
           EndsIn(list, n, g, text), EndsIn(more, 0, g, records)
    PROVE  EndsIn(list \o more, n, g, text \o records) /\ Kept(n, text, text \o records)
  <1> DEFINE long == list \o more
             whole == text \o records
  <1>0. /\ list \in Seq(Assign) /\ more \in Seq(Assign) /\ n \in Nat
        /\ text \in Seq(Recorded) /\ records \in Seq(Recorded)
        /\ Len(text) = n + Len(list) /\ Len(records) = Len(more)
        /\ IsText(list, n, g, text) /\ IsText(more, 0, g, records)
    BY LenProperties DEF EndsIn
  <1>1. Len(list) \in Nat /\ Len(more) \in Nat /\ Len(text) \in Nat
    BY <1>0, LenProperties
  <1>2. /\ long \in Seq(Assign) /\ Len(long) = Len(list) + Len(more)
        /\ \A i \in 1 .. Len(list) + Len(more) : long[i] = IF i <= Len(list) THEN list[i] ELSE more[i - Len(list)]
    BY <1>0, ConcatProperties
  <1>3. /\ whole \in Seq(Recorded) /\ Len(whole) = Len(text) + Len(more)
        /\ \A i \in 1 .. Len(text) + Len(more) : whole[i] = IF i <= Len(text) THEN text[i] ELSE records[i - Len(text)]
    <2>1. /\ whole \in Seq(Recorded) /\ Len(whole) = Len(text) + Len(records)
          /\ \A i \in 1 .. Len(text) + Len(records) :
                whole[i] = IF i <= Len(text) THEN text[i] ELSE records[i - Len(text)]
      BY <1>0, RecordsConcat
    <2> HIDE DEF whole
    <2> QED  BY <1>0, <2>1, Zenon
  <1> HIDE DEF long, whole
  <1>4. \A i \in 1 .. n : whole[i] = text[i]
    BY <1>0, <1>1, <1>3
  <1>5. IsText(long, n, g, whole)
    <2> SUFFICES ASSUME NEW j \in 1 .. Len(list) + Len(more)
                 PROVE  /\ whole[n + j].group = g
                        /\ Filed(whole[n + j].lead, whole[n + j].key) = long[j].key
                        /\ whole[n + j].items = long[j].items
      BY <1>2 DEF IsText
    <2>1. CASE j <= Len(list)
      <3>1. n + j \in 1 .. Len(text) + Len(more) /\ n + j <= Len(text) /\ j \in 1 .. Len(list)
        BY <1>0, <1>1, <2>1
      <3>2. whole[n + j] = text[n + j] /\ long[j] = list[j]
        BY <1>2, <1>3, <2>1, <3>1, Zenon
      <3> QED  BY <1>0, <3>1, <3>2 DEF IsText
    <2>2. CASE j > Len(list)
      <3> DEFINE i == j - Len(list)
                 k == n + j
      <3>1. /\ i \in 1 .. Len(more) /\ 0 + i = i /\ k - Len(text) = i
            /\ k \in 1 .. Len(text) + Len(more) /\ ~(k <= Len(text)) /\ ~(j <= Len(list))
        BY <1>0, <1>1, <2>2
      <3>2. long[j] = more[i]
        BY <1>2, <3>1
      <3> HIDE DEF k, i
      <3>3. whole[k] = records[k - Len(text)]
        BY <1>3, <3>1
      <3>4. whole[k] = records[i]
        BY <3>1, <3>3, Zenon
      <3>5. /\ records[0 + i].group = g /\ Filed(records[0 + i].lead, records[0 + i].key) = more[i].key
            /\ records[0 + i].items = more[i].items
        BY <1>0, <3>1 DEF IsText
      <3> QED  BY <3>1, <3>2, <3>4, <3>5, Zenon DEF k
    <2> QED  BY <1>1, <2>1, <2>2
  <1>6. Len(whole) = n + Len(long)
    BY <1>0, <1>1, <1>2, <1>3
  <1> QED  BY <1>0, <1>2, <1>3, <1>4, <1>5, <1>6 DEF long, whole, EndsIn, Kept

\* The last assignment gets more items on both sides
LEMMA IsTextContinued ==
    ASSUME NEW list, list # <<>>, NEW n, NEW g, NEW text, EndsIn(list, n, g, text), NEW items \in Lists
    PROVE  EndsIn(Continued(list, items), n, g, Continued(text, items)) /\ Kept(n, text, Continued(text, items))
  <1> DEFINE long == Continued(list, items)
             whole == Continued(text, items)
  <1>0. /\ list \in Seq(Assign) /\ text \in Seq(Recorded) /\ n \in Nat
        /\ Len(text) = n + Len(list) /\ IsText(list, n, g, text)
    BY DEF EndsIn
  <1>1. Len(list) \in Nat \ {0} /\ Len(text) \in Nat \ {0}
    BY <1>0, EmptySeq, LenProperties
  <1>2. text # <<>>
    BY <1>0, <1>1, EmptySeq
  <1>3. /\ long \in Seq(Assign) /\ Len(long) = Len(list)
        /\ \A j \in 1 .. Len(list) : long[j] = IF j = Len(list) THEN WithItems(list[j], items) ELSE list[j]
    BY <1>0, ContinuedAssigns
  <1>4. /\ whole \in Seq(Recorded) /\ Len(whole) = Len(text)
        /\ \A j \in 1 .. Len(text) : whole[j] = IF j = Len(text) THEN WithItems(text[j], items) ELSE text[j]
    BY <1>0, <1>2, ContinuedRecords
  <1> HIDE DEF long, whole
  <1>5. \A i \in 1 .. n : whole[i] = text[i]
    <2> SUFFICES ASSUME NEW i \in 1 .. n PROVE whole[i] = text[i]
      OBVIOUS
    <2>1. i \in 1 .. Len(text) /\ i # Len(text)
      BY <1>0, <1>1
    <2> QED  BY <1>4, <2>1, Zenon
  <1>6. IsText(long, n, g, whole)
    <2> SUFFICES ASSUME NEW j \in 1 .. Len(list)
                 PROVE  /\ whole[n + j].group = g
                        /\ Filed(whole[n + j].lead, whole[n + j].key) = long[j].key
                        /\ whole[n + j].items = long[j].items
      BY <1>3 DEF IsText
    <2>1. /\ text[n + j].group = g /\ Filed(text[n + j].lead, text[n + j].key) = list[j].key
          /\ text[n + j].items = list[j].items
      BY <1>0 DEF IsText
    <2>2. n + j \in 1 .. Len(text) /\ (n + j = Len(text) <=> j = Len(list))
      BY <1>0, <1>1
    <2>3. CASE j # Len(list)
      <3>1. whole[n + j] = text[n + j] /\ long[j] = list[j]
        BY <1>3, <1>4, <2>2, <2>3, Zenon
      <3> QED  BY <2>1, <3>1
    <2>4. CASE j = Len(list)
      <3>1. whole[n + j] = WithItems(text[n + j], items) /\ long[j] = WithItems(list[j], items)
        BY <1>3, <1>4, <2>2, <2>4, Zenon
      <3>2. text[n + j] \in Recorded /\ list[j] \in Assign
        BY <1>0, <2>2, ElementOfSeq
      <3>3. /\ WithItems(text[n + j], items).group = text[n + j].group
            /\ WithItems(text[n + j], items).lead = text[n + j].lead
            /\ WithItems(text[n + j], items).key = text[n + j].key
            /\ WithItems(text[n + j], items).items = text[n + j].items \o items
        BY <3>2, MoreItems
      <3>4. /\ WithItems(list[j], items).key = list[j].key
            /\ WithItems(list[j], items).items = list[j].items \o items
        BY <3>2, MoreItems
      <3> QED  BY <2>1, <3>1, <3>3, <3>4, Zenon
    <2> QED  BY <2>3, <2>4
  <1>7. Len(whole) = n + Len(long)
    BY <1>0, <1>3, <1>4
  <1> QED  BY <1>0, <1>3, <1>4, <1>5, <1>6, <1>7 DEF long, whole, EndsIn, Kept

\* The assignments a line adds to the text
LEMMA RecordedOfFacts ==
    ASSUME NEW t \in Texts \cup {Nothing}, NEW g \in Groups, NEW lead \in Lists
    PROVE  /\ RecordedOf(t, g, lead) \in Seq(Recorded)
           /\ Len(RecordedOf(t, g, lead)) = Len(t.assigns)
           /\ IsText(Named(lead, t), 0, g, RecordedOf(t, g, lead))
  <1> DEFINE ld(i) == IF i = 1 THEN lead ELSE <<>>
  <1>1. t.assigns \in Seq(Assign) /\ DOMAIN t.assigns = 1 .. Len(t.assigns) /\ Len(t.assigns) \in Nat
    BY TextFacts, LenProperties
  <1>2. ASSUME NEW i \in DOMAIN t.assigns
        PROVE  [group |-> g, lead |-> ld(i), key |-> t.assigns[i].key, items |-> t.assigns[i].items] \in Recorded
    <2>1. t.assigns[i] \in Assign
      BY <1>1, ElementOfSeq
    <2>2. <<>> \in Lists
      BY EmptySeq DEF Lists
    <2>3. ld(i) \in Lists
      BY <2>2
    <2> HIDE DEF ld
    <2> QED  BY <2>1, <2>3 DEF Assign, Recorded
  <1>3. RecordedOf(t, g, lead) \in [DOMAIN t.assigns -> Recorded]
    BY <1>2 DEF RecordedOf
  <1>4. \A i \in 1 .. Len(t.assigns) :
           RecordedOf(t, g, lead)[i] =
             [group |-> g, lead |-> ld(i), key |-> t.assigns[i].key, items |-> t.assigns[i].items]
    BY <1>1 DEF RecordedOf
  <1>5. IsText(Named(lead, t), 0, g, RecordedOf(t, g, lead))
    <2>1. /\ Len(Named(lead, t)) = Len(t.assigns)
          /\ \A i \in 1 .. Len(t.assigns) : /\ Named(lead, t)[i].key = Filed(ld(i), t.assigns[i].key)
                                            /\ Named(lead, t)[i].items = t.assigns[i].items
      BY NamedFacts
    <2> HIDE DEF ld
    <2> SUFFICES ASSUME NEW i \in 1 .. Len(t.assigns)
                 PROVE  /\ RecordedOf(t, g, lead)[0 + i].group = g
                        /\ Filed(RecordedOf(t, g, lead)[0 + i].lead, RecordedOf(t, g, lead)[0 + i].key)
                             = Named(lead, t)[i].key
                        /\ RecordedOf(t, g, lead)[0 + i].items = Named(lead, t)[i].items
      BY <2>1 DEF IsText
    <2>2. 0 + i = i
      BY <1>1
    <2>3. RecordedOf(t, g, lead)[i] =
            [group |-> g, lead |-> ld(i), key |-> t.assigns[i].key, items |-> t.assigns[i].items]
      BY <1>4
    <2> QED  BY <2>1, <2>2, <2>3
  <1> QED  BY <1>1, <1>3, <1>5, MappedSeq

\* What is accumulated when t has been taken
LeadOf(t, closes) == Lead(t, closes, last, loose)

Accumulated(t, closes) ==
    (IF Belong(t, closes, last) THEN Continued(deferred, t.items) ELSE deferred) \o Named(LeadOf(t, closes), t)

LEMMA AccumulatedText ==
    ASSUME NmlInv, todo = <<>>, NEW g \in Groups, deferred # <<>> => g = current,
           NEW t \in Texts \cup {Nothing}, NEW closes \in BOOLEAN, Record(t, g, closes, last, loose)
    PROVE  /\ Accumulated(t, closes) \in Seq(Assign)
           /\ Inserted \in Nat
           /\ seen' \in Seq(Recorded)
           /\ Len(seen') = Inserted + Len(Accumulated(t, closes))
           /\ \A i \in 1 .. Inserted : seen'[i] = seen[i]
           /\ IsText(Accumulated(t, closes), Inserted, g, seen')
  <1>2. Replayed /\ (last = "comma" <=> deferred # <<>>)
    BY DEF NmlInv, TextInv
  <1>3. deferred \in Seq(Assign) /\ seen \in Seq(Recorded) /\ loose \in Lists
    BY DEF NmlInv, NmlTypeOK, TextInv
  <1>4. Len(deferred) \in Nat /\ Len(seen) \in Nat
    BY <1>3, LenProperties
  <1>5. Len(todo) = 0
    BY EmptySeq
  <1>6. Inserted = Len(seen) - Len(deferred) /\ Inserted \in Nat
    BY <1>2, <1>4, <1>5 DEF Inserted, Replayed
  <1>7. IsText(deferred, Inserted, g, seen)
    <2>1. IsText(deferred, Inserted, current, seen)
      BY <1>2, <1>5, <1>6 DEF Replayed
    <2>2. CASE deferred # <<>>
      BY <2>1, <2>2
    <2>3. CASE deferred = <<>>
      BY <2>3, EmptySeq DEF IsText
    <2> QED  BY <2>2, <2>3
  <1>8. t.assigns \in Seq(Assign) /\ t.items \in Lists
    BY TextFacts
  <1>9. LeadOf(t, closes) \in Lists
    BY <1>3, <1>8, EmptySeq, ConcatProperties DEF LeadOf, Lead, Lists
  <1> DEFINE records == RecordedOf(t, g, LeadOf(t, closes))
             named == Named(LeadOf(t, closes), t)
             base == IF Belong(t, closes, last) THEN Continued(deferred, t.items) ELSE deferred
             text == IF Belong(t, closes, last) THEN Continued(seen, t.items) ELSE seen
  <1>10. EndsIn(named, 0, g, records)
    <2>1. /\ records \in Seq(Recorded) /\ named \in Seq(Assign) /\ Len(records) = Len(named)
          /\ IsText(named, 0, g, records)
      BY <1>9, RecordedOfFacts, NamedFacts
    <2> HIDE DEF records, named
    <2>2. Len(records) = 0 + Len(named)
      BY <2>1, LenProperties
    <2> QED  BY <2>1, <2>2 DEF EndsIn
  <1>11. EndsIn(base, Inserted, g, text) /\ Kept(Inserted, seen, text)
    <2>1. EndsIn(deferred, Inserted, g, seen) /\ Kept(Inserted, seen, seen)
      BY <1>3, <1>4, <1>6, <1>7 DEF EndsIn, Kept
    <2>2. CASE Belong(t, closes, last)
      <3>1. deferred # <<>>
        BY <1>2, <2>2 DEF Belong
      <3>2. /\ EndsIn(Continued(deferred, t.items), Inserted, g, Continued(seen, t.items))
            /\ Kept(Inserted, seen, Continued(seen, t.items))
        BY <1>8, <2>1, <3>1, IsTextContinued
      <3> QED  BY <2>2, <3>2
    <2>3. CASE ~Belong(t, closes, last)
      BY <2>1, <2>3
    <2> QED  BY <2>2, <2>3
  <1>12. seen' = text \o records /\ Accumulated(t, closes) = base \o named
    BY DEF Record, Accumulated, LeadOf
  <1> HIDE DEF records, named, base, text
  <1>13. EndsIn(base \o named, Inserted, g, text \o records) /\ Kept(Inserted, text, text \o records)
    BY <1>10, <1>11, IsTextConcat
  <1>14. \A i \in 1 .. Inserted : (text \o records)[i] = seen[i]
    BY <1>11, <1>13 DEF Kept
  <1> QED  BY <1>6, <1>12, <1>13, <1>14 DEF EndsIn

\* What is accumulated is split in what is to be inserted and what stays
LEMMA SplitReplays ==
    ASSUME NmlInv, todo = <<>>, NEW g \in Groups, deferred # <<>> => g = current,
           NEW t \in Texts \cup {Nothing}, NEW closes \in BOOLEAN, Record(t, g, closes, last, loose),
           NEW p \in Seq(Assign), NEW q \in Seq(Assign), Accumulated(t, closes) = p \o q,
           todo' = Entries(p, g), deferred' = q, q # <<>> => current' = g, table' = table
    PROVE  Replayed'
  <1> DEFINE acc == Accumulated(t, closes)
  <1>1. /\ acc \in Seq(Assign) /\ Inserted \in Nat
        /\ Len(seen') = Inserted + Len(acc)
        /\ \A i \in 1 .. Inserted : seen'[i] = seen[i]
        /\ IsText(acc, Inserted, g, seen')
    BY AccumulatedText
  <1>2. /\ Len(p) \in Nat /\ Len(q) \in Nat /\ Len(acc) = Len(p) + Len(q)
        /\ \A i \in 1 .. Len(p) + Len(q) : acc[i] = IF i <= Len(p) THEN p[i] ELSE q[i - Len(p)]
    BY LenProperties, ConcatProperties
  <1> HIDE DEF acc
  <1>3. /\ Len(todo') = Len(p)
        /\ \A j \in 1 .. Len(p) : todo'[j].slot = Slot(g, p[j].key) /\ todo'[j].items = p[j].items
    BY EntriesFacts
  <1>4. Inserted' = Inserted
    BY <1>1, <1>2, <1>3 DEF Inserted
  <1>6. Replayed
    BY DEF NmlInv, TextInv
  <1>7. \A i \in 1 .. Inserted' : table'[SlotOf(seen[i])'] = seen'[i].items
    <2> SUFFICES ASSUME NEW i \in 1 .. Inserted PROVE table[SlotOf(seen[i])'] = seen'[i].items
      BY <1>4
    <2>1. seen'[i] = seen[i]
      BY <1>1
    <2>2. SlotOf(seen[i])' = SlotOf(seen[i])
      BY <2>1 DEF SlotOf
    <2> QED  BY <1>6, <2>1, <2>2 DEF Replayed
  <1>8. ASSUME NEW s \in Slots, HasParam(table', s)
        PROVE  \E i \in 1 .. Inserted' : s = SlotOf(seen[i])'
    <2>1. PICK i \in 1 .. Inserted : s = SlotOf(seen[i])
      BY <1>6, <1>8 DEF Replayed
    <2>2. SlotOf(seen[i])' = SlotOf(seen[i])
      BY <1>1 DEF SlotOf
    <2> QED  BY <1>4, <2>1, <2>2
  <1>9. ASSUME NEW j \in 1 .. Len(p)
        PROVE  /\ todo'[j].slot = SlotOf(seen'[Inserted' + j])
               /\ todo'[j].items = seen'[Inserted' + j].items
    <2>1. j \in 1 .. Len(p) + Len(q) /\ j \in 1 .. Len(acc) /\ j <= Len(p)
      BY <1>2
    <2>2. acc[j] = p[j]
      BY <1>2, <2>1
    <2>3. /\ seen'[Inserted + j].group = g /\ Filed(seen'[Inserted + j].lead, seen'[Inserted + j].key) = acc[j].key
          /\ seen'[Inserted + j].items = acc[j].items
      BY <1>1, <2>1 DEF IsText
    <2> QED  BY <1>3, <1>4, <2>2, <2>3 DEF SlotOf
  <1>10. IsText(q, Inserted' + Len(todo'), current', seen')
    <2> SUFFICES ASSUME NEW j \in 1 .. Len(q)
                 PROVE  /\ seen'[Inserted + Len(p) + j].group = current'
                        /\ Filed(seen'[Inserted + Len(p) + j].lead, seen'[Inserted + Len(p) + j].key) = q[j].key
                        /\ seen'[Inserted + Len(p) + j].items = q[j].items
      BY <1>3, <1>4 DEF IsText
    <2> DEFINE i == Len(p) + j
    <2>1. /\ i \in 1 .. Len(p) + Len(q) /\ i \in 1 .. Len(acc) /\ ~(i <= Len(p)) /\ i - Len(p) = j
          /\ Inserted + Len(p) + j = Inserted + i
      BY <1>1, <1>2
    <2> HIDE DEF i
    <2>2. acc[i] = q[j]
      BY <1>2, <2>1
    <2>3. /\ seen'[Inserted + i].group = g /\ Filed(seen'[Inserted + i].lead, seen'[Inserted + i].key) = acc[i].key
          /\ seen'[Inserted + i].items = acc[i].items
      BY <1>1, <2>1 DEF IsText
    <2>4. current' = g
      <3>1. Len(q) # 0
        BY <1>2
      <3> QED  BY <3>1, EmptySeq
    <2> QED  BY <2>1, <2>2, <2>3, <2>4
  <1>11. Inserted' >= 0
    BY <1>1, <1>4
  <1> QED  BY <1>3, <1>7, <1>8, <1>9, <1>10, <1>11 DEF Replayed

\* A line whose text is all accounted for
LEMMA LineStep ==
    ASSUME NmlInv, todo = <<>>, status = "reading", NEW g \in Groups, deferred # <<>> => g = current,
           NEW t \in Texts \cup {Nothing}, NEW closes \in BOOLEAN, Record(t, g, closes, last, loose),
           NEW p \in Seq(Assign), NEW q \in Seq(Assign), Accumulated(t, closes) = p \o q,
           todo' = Entries(p, g), deferred' = q,
           stray' \in Lists, stray' # <<>> => q = <<>>, loose' = stray',
           last' \in {"none", "comma", "end"}, last' = "comma" <=> q # <<>>,
           current' \in Groups, Lower[current'] = current', q # <<>> => current' = g,
           current' = NoGroup => last' = "none" /\ q = <<>> /\ stray' = <<>>,
           table' = table, status' = status, lines' \in 0 .. MaxLines
    PROVE  NmlInv'
  <1>1. Replayed'
    BY SplitReplays
  <1>2. seen' \in Seq(Recorded)
    BY AccumulatedText
  <1>3. todo' \in Seq(Entry)
    BY EntriesFacts
  <1>4. NmlTypeOK'
    BY <1>3 DEF NmlInv, NmlTypeOK
  <1>5. TextInv'
    BY <1>1, <1>2 DEF TextInv
  <1> QED  BY <1>4, <1>5 DEF NmlInv

\* A text: either it is all inserted, or its last part is deferred
LEMMA TextStep ==
    ASSUME NmlInv, todo = <<>>, status = "reading", NEW g \in Groups, g # NoGroup, Lower[g] = g,
           deferred # <<>> => g = current, NEW t \in Texts, Text(t, g, deferred, stray, last, loose),
           table' = table, status' = status, lines' \in 0 .. MaxLines, current' = g
    PROVE  NmlInv'
  <1> DEFINE none == <<>>
             starts == t.assigns # <<>>
             joined == IF starts THEN Joined(none, none, t) ELSE Joined(deferred, stray, t)
             flushed == IF starts THEN deferred ELSE none
  <1>1. t.assigns \in Seq(Assign) /\ t.items \in Lists /\ t.comma \in BOOLEAN
    BY TextFacts
  <1>2. /\ deferred \in Seq(Assign) /\ stray \in Lists /\ loose = stray
        /\ last \in {"none", "comma", "end"} /\ (last = "comma" <=> deferred # <<>>)
    BY DEF NmlInv, NmlTypeOK, TextInv
  <1>3. none \in Seq(Assign) /\ none \in Lists
    BY EmptySeq DEF Lists
  <1>4. joined \in Seq(Assign) /\ flushed \in Seq(Assign)
    BY <1>1, <1>2, <1>3, JoinedFacts
  <1>5. Record(t, g, FALSE, last, loose)
    BY DEF Text
  <1>6. Accumulated(t, FALSE) = flushed \o joined
    <2>1. CASE starts
      <3>1. none \o t.items = t.items
        BY <1>1, ConcatEmptySeq DEF Lists
      <3>2. Joined(none, none, t) = Named(none \o t.items, t)
        BY <2>1 DEF Joined, Named
      <3> QED  BY <2>1, <3>1, <3>2 DEF Accumulated, LeadOf, Lead, Belong
    <2>2. CASE ~starts
      <3>1. Named(LeadOf(t, FALSE), t) = none /\ none \o joined = joined
        BY <1>4, <2>2, ConcatEmptySeq DEF Named
      <3>2. CASE last = "comma"
        <4>1. joined = Continued(deferred, t.items) \o none
          BY <1>2, <2>2, <3>2, JoinedFacts
        <4> QED  BY <2>2, <3>1, <3>2, <4>1 DEF Accumulated, Belong
      <3>3. CASE last # "comma"
        <4>1. joined = none
          BY <1>2, <2>2, <3>3 DEF Joined
        <4>2. none \o none = none
          BY <1>3, ConcatEmptySeq
        <4> QED  BY <1>2, <2>2, <3>1, <3>3, <4>1, <4>2 DEF Accumulated, Belong
      <3> QED  BY <3>2, <3>3
    <2> QED  BY <2>1, <2>2
  <1>7. joined = none <=> ~starts /\ last # "comma"
    <2>1. CASE starts
      <3>1. joined = Led(none \o t.items, t.assigns) /\ none \o t.items \in Lists
        BY <1>1, <1>3, <2>1, ConcatEmptySeq DEF Joined, Lists
      <3> QED  BY <1>1, <2>1, <3>1, LedFacts
    <2>2. CASE ~starts /\ last = "comma"
      <3>1. joined = Continued(deferred, t.items) \o none /\ deferred # none
        BY <1>2, <2>2, JoinedFacts
      <3>2. Continued(deferred, t.items) \in Seq(Assign) /\ Continued(deferred, t.items) # none
        BY <1>1, <1>2, <3>1, ContinuedAssigns
      <3> QED  BY <2>2, <3>1, <3>2, ConcatEmptySeq
    <2>3. CASE ~starts /\ last # "comma"
      BY <1>2, <2>3 DEF Joined
    <2> QED  BY <2>1, <2>2, <2>3
  <1>8. /\ last' = LastAfter(t, last)
        /\ loose' = IF starts \/ last = "comma" THEN none ELSE loose \o t.items
    BY <1>5 DEF Record, Belong
  <1>9. loose \o t.items \in Lists
    BY <1>1, <1>2, ConcatProperties DEF Lists
  <1>10. /\ joined # none /\ ~t.comma =>
              todo' = Entries(flushed \o joined, g) /\ deferred' = none /\ stray' = none
         /\ ~(joined # none /\ ~t.comma) =>
              /\ todo' = Entries(flushed, g) /\ deferred' = joined
              /\ stray' = IF joined = none THEN stray \o t.items ELSE none
    BY DEF Text, Complete
  <1>11. flushed \o joined \in Seq(Assign) /\ (flushed \o joined) \o none = flushed \o joined
    BY <1>4, ConcatProperties, ConcatEmptySeq
  <1> HIDE DEF joined, flushed, none
  <1>12. CASE joined # none /\ ~t.comma
    <2>1. todo' = Entries(flushed \o joined, g) /\ deferred' = none /\ stray' = none
      BY <1>10, <1>12
    <2>2. loose' = none /\ last' = "end"
      BY <1>7, <1>8, <1>12 DEF LastAfter, none
    <2>3. Accumulated(t, FALSE) = (flushed \o joined) \o none
      BY <1>6, <1>11
    <2>4. stray' = <<>> /\ stray' \in Lists
      BY <1>3, <2>1 DEF none
    <2>5. stray' # <<>> => none = <<>>
      BY <2>4
    <2>6. last' = "comma" <=> none # <<>>
      BY <2>2 DEF none
    <2> QED  BY <1>3, <1>5, <1>11, <2>1, <2>2, <2>3, <2>4, <2>5, <2>6, LineStep
  <1>13. CASE ~(joined # none /\ ~t.comma)
    <2>1. /\ todo' = Entries(flushed, g) /\ deferred' = joined
          /\ stray' = IF joined = none THEN stray \o t.items ELSE none
      BY <1>10, <1>13
    <2>2. loose' = stray' /\ stray' \in Lists /\ (stray' # <<>> => joined = <<>>)
      BY <1>2, <1>3, <1>7, <1>8, <1>9, <2>1 DEF none
    <2>3. last' \in {"none", "comma", "end"} /\ (last' = "comma" <=> joined # <<>>)
      BY <1>2, <1>7, <1>8, <1>13 DEF LastAfter, none
    <2> QED  BY <1>4, <1>5, <1>6, <2>1, <2>2, <2>3, LineStep
  <1> QED  BY <1>12, <1>13

\* The end of a namelist: all of it is inserted
LEMMA CloseStep ==
    ASSUME NmlInv, todo = <<>>, status = "reading", NEW g \in Groups,
           deferred # <<>> => g = current, NEW t \in Texts \cup {Nothing},
           Close(t, g, deferred, stray, last, loose),
           table' = table, status' = status, lines' \in 0 .. MaxLines, current' = NoGroup
    PROVE  NmlInv'
  <1> DEFINE ended == Joined(deferred, stray, t)
             none == <<>>
  <1>1. t.assigns \in Seq(Assign) /\ t.items \in Lists
    BY TextFacts
  <1>2. /\ deferred \in Seq(Assign) /\ stray \in Lists /\ loose = stray
        /\ (last = "comma" <=> deferred # <<>>)
    BY DEF NmlInv, NmlTypeOK, TextInv
  <1>3. /\ ended \in Seq(Assign)
        /\ deferred # <<>> => ended = Continued(deferred, t.items) \o t.assigns
        /\ deferred = <<>> => ended = Named(stray \o t.items, t)
    BY <1>1, <1>2, JoinedFacts
  <1>4. /\ Record(t, g, TRUE, last, loose) /\ todo' = Entries(ended, g)
        /\ deferred' = none /\ stray' = none
    BY DEF Close
  <1>5. last' = "none" /\ loose' = none
    BY <1>4 DEF Record
  <1> HIDE DEF ended
  <1>6. Accumulated(t, TRUE) = ended
    <2>1. CASE last = "comma"
      <3>1. Named(LeadOf(t, TRUE), t) = t.assigns
        <4>1. LeadOf(t, TRUE) = <<>>
          BY <2>1 DEF LeadOf, Lead, Belong
        <4> QED  BY <4>1, NamedAsIs
      <3> QED  BY <1>2, <1>3, <2>1, <3>1 DEF Accumulated, Belong
    <2>2. CASE last # "comma"
      <3>1. LeadOf(t, TRUE) = stray \o t.items /\ deferred = none
        BY <1>2, <2>2 DEF LeadOf, Lead, Belong
      <3>2. Accumulated(t, TRUE) = none \o ended
        BY <1>3, <2>2, <3>1 DEF Accumulated, Belong
      <3> QED  BY <1>3, <3>2, ConcatEmptySeq
    <2> QED  BY <2>1, <2>2
  <1>7. ended \o none = ended /\ none \in Seq(Assign) /\ none \in Lists
    BY <1>3, ConcatEmptySeq, EmptySeq DEF Lists
  <1>8. Lower[NoGroup] = NoGroup /\ NoGroup \in Groups
    BY NmlAssumption
  <1>9. Accumulated(t, TRUE) = ended \o none
    BY <1>6, <1>7
  <1>10. /\ stray' \in Lists /\ stray' = <<>> /\ loose' = stray' /\ last' \in {"none", "comma", "end"}
         /\ ~(last' = "comma") /\ ~(none # <<>>)
    BY <1>4, <1>5, <1>7
  <1>11. current' \in Groups /\ Lower[current'] = current'
    BY <1>8
  <1>12. last' = "comma" <=> none # <<>>
    BY <1>10
  <1>13. stray' # <<>> => none = <<>>
    BY <1>10
  <1>14. none # <<>> => current' = g
    BY <1>10
  <1>15. current' = NoGroup => last' = "none" /\ none = <<>> /\ stray' = <<>>
    BY <1>5, <1>10
  <1> HIDE DEF none
  <1> QED  BY <1>3, <1>4, <1>7, <1>9, <1>10, <1>11, <1>12, <1>13, <1>14, <1>15, LineStep

-----------------------------------------------------------------------------
(* Insertion *)

\* The table takes the next assignment only where it changes no bound key
LEMMA InsertFacts ==
    ASSUME NmlTypeOK, InsertNext
    PROVE  /\ Head(todo) \in Entry /\ todo' \in Seq(Entry)
           /\ Len(todo') = Len(todo) - 1 /\ Len(todo) \in Nat \ {0}
           /\ \A j \in 1 .. Len(todo') : todo'[j] = todo[j + 1]
           /\ Head(todo) = todo[1]
           /\ table[Head(todo).slot] \in {Unset, Head(todo).items}
           /\ table' = [table EXCEPT ![Head(todo).slot] = Head(todo).items]
           /\ table' \in Tables
  <1>1. todo \in Seq(Entry) /\ todo # <<>> /\ todo' = Tail(todo) /\ table \in Tables
    BY DEF NmlTypeOK, InsertNext
  <1>2. /\ Head(todo) \in Entry /\ Tail(todo) \in Seq(Entry) /\ Len(Tail(todo)) = Len(todo) - 1
        /\ \A j \in 1 .. Len(Tail(todo)) : Tail(todo)[j] = todo[j + 1]
    BY <1>1, HeadTailProperties
  <1>3. Len(todo) \in Nat \ {0} /\ Head(todo) = todo[1]
    BY <1>1, EmptySeq
  <1>4. /\ table[Head(todo).slot] \in {Unset, Head(todo).items}
        /\ table' = [table EXCEPT ![Head(todo).slot] = Head(todo).items]
    BY DEF InsertNext, Acceptable, InsertAllowed, Insert
  <1>5. Head(todo).slot \in Slots /\ Head(todo).items \in Lists
    BY <1>2 DEF Entry
  <1>6. table' \in Tables
    BY <1>1, <1>4, <1>5 DEF Tables
  <1> QED  BY <1>1, <1>2, <1>3, <1>4, <1>6

LEMMA InsertStep == NmlInv /\ InsertNext => NmlInv'
  <1> SUFFICES ASSUME NmlInv, InsertNext PROVE NmlInv'
    OBVIOUS
  <1> DEFINE e == Head(todo)
  <1>1. NmlTypeOK /\ TextInv
    BY DEF NmlInv
  <1>2. UNCHANGED <<status, lines, current, deferred, stray, seen, last, loose>> /\ status = "reading"
    BY DEF InsertNext, accumulated, history
  <1>3. /\ e \in Entry /\ todo' \in Seq(Entry)
        /\ Len(todo') = Len(todo) - 1 /\ Len(todo) \in Nat \ {0}
        /\ \A j \in 1 .. Len(todo') : todo'[j] = todo[j + 1]
        /\ e = todo[1]
        /\ table[e.slot] \in {Unset, e.items}
        /\ table' = [table EXCEPT ![e.slot] = e.items]
        /\ table' \in Tables
    BY <1>1, InsertFacts
  <1> HIDE DEF e
  <1>4. NmlTypeOK'
    BY <1>1, <1>2, <1>3 DEF NmlTypeOK
  <1>5. e.slot \in Slots /\ e.items \in Lists /\ e.items # Unset /\ table \in Tables
    BY <1>1, <1>3, NmlAssumption DEF Entry, NmlTypeOK
  <1>6. seen \in Seq(Recorded) /\ Len(seen) \in Nat /\ Len(deferred) \in Nat
    BY <1>1, LenProperties DEF NmlTypeOK, TextInv
  <1>7. Replayed'
    <2>1. Replayed
      BY <1>1 DEF TextInv
    <2>2. Inserted \in Nat /\ Inserted' = Inserted + 1
      BY <1>2, <1>3, <1>6, <2>1 DEF Inserted, Replayed
    <2>3. e.slot = SlotOf(seen[Inserted + 1]) /\ e.items = seen[Inserted + 1].items
      BY <1>3, <2>1 DEF Replayed
    <2>4. \A s \in Slots : table'[s] = IF s = e.slot THEN e.items ELSE table[s]
      BY <1>3, <1>5 DEF Tables
    <2>5. ASSUME NEW i \in 1 .. Inserted + 1 PROVE table'[SlotOf(seen[i])] = seen[i].items
      <3>1. SlotOf(seen[i]) \in Slots /\ seen[i].items \in Lists
        <4>1. i \in 1 .. Len(seen)
          BY <1>3, <1>6, <2>2 DEF Inserted
        <4>2. seen[i] \in Recorded
          BY <1>6, <4>1, ElementOfSeq
        <4>3. Filed(seen[i].lead, seen[i].key) \in Keys
          BY <4>2, FiledType DEF Recorded
        <4> QED  BY <4>2, <4>3, SlotType DEF Recorded, SlotOf
      <3>2. CASE i = Inserted + 1
        BY <2>3, <2>4, <3>1, <3>2
      <3>3. CASE i # Inserted + 1
        <4>1. table[SlotOf(seen[i])] = seen[i].items
          <5>1. i \in 1 .. Inserted
            BY <2>2, <3>3
          <5> QED  BY <2>1, <5>1 DEF Replayed
        <4>2. seen[i].items # Unset
          BY <3>1, NmlAssumption
        <4> QED  BY <1>3, <2>4, <3>1, <4>1, <4>2
      <3> QED  BY <3>2, <3>3
    <2>6. ASSUME NEW s \in Slots, HasParam(table', s)
          PROVE  \E i \in 1 .. Inserted + 1 : s = SlotOf(seen[i])
      <3>1. CASE s = e.slot
        <4>1. Inserted + 1 \in 1 .. Inserted + 1
          BY <2>2
        <4> QED  BY <2>3, <3>1, <4>1
      <3>2. CASE s # e.slot
        <4>1. HasParam(table, s)
          BY <2>4, <2>6, <3>2 DEF HasParam
        <4>2. PICK i \in 1 .. Inserted : s = SlotOf(seen[i])
          BY <2>1, <4>1 DEF Replayed
        <4>3. i \in 1 .. Inserted + 1
          BY <2>2
        <4> QED  BY <4>2, <4>3
      <3> QED  BY <3>1, <3>2
    <2>7. ASSUME NEW j \in 1 .. Len(todo')
          PROVE  /\ todo'[j].slot = SlotOf(seen[Inserted + 1 + j])
                 /\ todo'[j].items = seen[Inserted + 1 + j].items
      <3>1. j + 1 \in 1 .. Len(todo) /\ Inserted + 1 + j = Inserted + (j + 1)
        BY <1>3, <2>2
      <3>2. todo'[j] = todo[j + 1]
        BY <1>3
      <3>3. /\ todo[j + 1].slot = SlotOf(seen[Inserted + (j + 1)])
            /\ todo[j + 1].items = seen[Inserted + (j + 1)].items
        BY <2>1, <3>1 DEF Replayed
      <3> QED  BY <3>1, <3>2, <3>3
    <2>8. IsText(deferred, Inserted + 1 + Len(todo'), current, seen)
      <3>1. IsText(deferred, Inserted + Len(todo), current, seen)
        BY <2>1 DEF Replayed
      <3>2. Inserted + 1 + Len(todo') = Inserted + Len(todo)
        BY <1>3, <2>2
      <3> QED  BY <3>1, <3>2
    <2>9. seen' = seen /\ deferred' = deferred /\ current' = current
      BY <1>2
    <2> QED  BY <2>2, <2>5, <2>6, <2>7, <2>8, <2>9 DEF Replayed, SlotOf, IsText
  <1>8. TextInv'
    BY <1>1, <1>2, <1>7 DEF TextInv
  <1> QED  BY <1>4, <1>8 DEF NmlInv

-----------------------------------------------------------------------------
(* Every step *)

\* A step that moves neither text nor values
LEMMA QuietStep ==
    ASSUME NmlInv, UNCHANGED <<table, current, accumulated, todo, history>>, lines' \in 0 .. MaxLines,
           \/ status' \in {"opening", "reading", "failed"}
           \/ status' = "done" /\ current = NoGroup /\ todo = <<>>
    PROVE  NmlInv'
  <1>1. UNCHANGED <<table, current, deferred, stray, todo, seen, last, loose>>
    BY DEF accumulated, history
  <1>2. NmlTypeOK'
    BY <1>1 DEF NmlInv, NmlTypeOK
  <1>3. TextInv'
    BY <1>1 DEF NmlInv, TextInv, Replayed, Inserted, IsText, SlotOf
  <1> QED  BY <1>2, <1>3 DEF NmlInv

LEMMA TakeLineFacts ==
    ASSUME NmlTypeOK, TakeLine
    PROVE  lines' \in 0 .. MaxLines /\ todo = <<>> /\ status = "reading"
  BY NmlAssumption DEF TakeLine, NmlTypeOK

LEMMA OpenStep ==
    ASSUME NmlInv, NEW g \in Groups, NEW t \in Texts \cup {Nothing}, NEW closes \in BOOLEAN, ReadOpen(g, t, closes)
    PROVE  NmlInv'
  <1>1. NmlTypeOK /\ TextInv
    BY DEF NmlInv
  <1>2. /\ current = NoGroup /\ lines' \in 0 .. MaxLines /\ todo = <<>> /\ status = "reading"
        /\ table' = table /\ status' = status
    BY <1>1, TakeLineFacts DEF ReadOpen
  <1>3. deferred = <<>> /\ stray = <<>> /\ last = "none" /\ loose = <<>>
    BY <1>1, <1>2 DEF NmlTypeOK, TextInv
  <1>4. Lower[g] \in Groups /\ Lower[Lower[g]] = Lower[g] /\ Lower[g] # NoGroup
    BY NmlAssumption DEF ReadOpen
  <1>5. CASE closes
    <2>1. Close(t, Lower[g], deferred, stray, last, loose) /\ current' = NoGroup
      BY <1>3, <1>5 DEF ReadOpen
    <2> QED  BY <1>2, <1>3, <1>4, <2>1, CloseStep
  <1>6. CASE ~closes /\ t # Nothing
    <2>1. Text(t, Lower[g], deferred, stray, last, loose) /\ current' = Lower[g] /\ t \in Texts
      BY <1>3, <1>6 DEF ReadOpen
    <2> QED  BY <1>2, <1>3, <1>4, <2>1, TextStep
  <1>7. CASE ~closes /\ t = Nothing
    <2>1. /\ UNCHANGED <<table, status, deferred, stray, todo, seen, last, loose>>
          /\ current' = Lower[g]
      BY <1>3, <1>7 DEF ReadOpen, Text, Close, Nothing
    <2>2. NmlTypeOK'
      BY <1>1, <1>2, <1>3, <1>4, <2>1 DEF NmlTypeOK
    <2>3. Replayed => Replayed'
      <3>1. Len(deferred) = 0
        BY <1>3, EmptySeq
      <3>2. IsText(deferred, Inserted + Len(todo), current, seen)'
        BY <2>1, <3>1 DEF IsText
      <3> QED  BY <2>1, <3>2 DEF Replayed, Inserted, SlotOf
    <2>4. TextInv'
      BY <1>1, <1>2, <1>4, <2>1, <2>3 DEF TextInv
    <2> QED  BY <2>2, <2>4 DEF NmlInv
  <1> QED  BY <1>5, <1>6, <1>7

LEMMA StepInv == NmlInv /\ [Next]_vars => NmlInv'
  <1> SUFFICES ASSUME NmlInv, [Next]_vars PROVE NmlInv'
    OBVIOUS
  <1>1. NmlTypeOK /\ TextInv
    BY DEF NmlInv
  <1>2. lines \in 0 .. MaxLines /\ status \in {"opening", "reading", "done", "failed"}
    BY <1>1 DEF NmlTypeOK
  <1>3. CASE Fail
    BY <1>2, <1>3, QuietStep DEF Fail
  <1>4. CASE Open
    BY <1>2, <1>3, <1>4, QuietStep DEF Open
  <1>5. CASE ReadRefused
    <2>1. lines' \in 0 .. MaxLines
      BY <1>1, <1>5, TakeLineFacts DEF ReadRefused
    <2> QED  BY <1>5, <2>1, QuietStep DEF ReadRefused
  <1>6. ASSUME NEW t \in Texts, ReadText(t) PROVE NmlInv'
    <2>1. /\ current # NoGroup /\ lines' \in 0 .. MaxLines /\ todo = <<>> /\ status = "reading"
          /\ UNCHANGED <<table, status, current>> /\ Text(t, current, deferred, stray, last, loose)
      BY <1>1, <1>6, TakeLineFacts DEF ReadText
    <2>2. current \in Groups /\ Lower[current] = current
      BY <1>1 DEF NmlTypeOK
    <2> QED  BY <2>1, <2>2, TextStep
  <1>7. ASSUME NEW t \in Texts \cup {Nothing}, ReadClose(t) PROVE NmlInv'
    <2>1. /\ lines' \in 0 .. MaxLines /\ todo = <<>> /\ status = "reading" /\ current' = NoGroup
          /\ UNCHANGED <<table, status>> /\ Close(t, current, deferred, stray, last, loose)
      BY <1>1, <1>7, TakeLineFacts DEF ReadClose
    <2>2. current \in Groups
      BY <1>1 DEF NmlTypeOK
    <2> QED  BY <2>1, <2>2, CloseStep
  <1>8. ASSUME NEW g \in Groups, NEW t \in Texts \cup {Nothing}, NEW closes \in BOOLEAN, ReadOpen(g, t, closes)
        PROVE  NmlInv'
    BY <1>8, OpenStep
  <1>9. CASE InsertNext
    BY <1>9, InsertStep
  <1>10. CASE RefuseNext
    BY <1>3, <1>10 DEF RefuseNext
  <1>11. CASE EndOfFile
    BY <1>2, <1>11, QuietStep DEF EndOfFile
  <1>12. CASE UNCHANGED vars
    <2>1. UNCHANGED <<table, current, accumulated, todo, history>> /\ lines' = lines /\ status' = status
      BY <1>12 DEF vars
    <2>2. status = "done" => current = NoGroup /\ todo = <<>>
      BY <1>1 DEF TextInv
    <2> QED  BY <1>2, <2>1, <2>2, QuietStep
  <1>13. CASE Constructed
    BY <1>12, <1>13 DEF Constructed
  <1> QED  BY <1>4, <1>5, <1>6, <1>7, <1>8, <1>9, <1>10, <1>11, <1>12, <1>13 DEF Next

LEMMA Invariance == Spec => []NmlInv
  <1> QED  BY InitInv, StepInv, PTL DEF Spec

-----------------------------------------------------------------------------
(* Theorems *)

\* The reader's variables keep their types; accumulated text is assignments or
\* stray items, and there is none outside a namelist.
THEOREM ReaderIsTyped == Spec => []NmlTypeOK
  <1>1. NmlInv => NmlTypeOK
    BY DEF NmlInv
  <1> QED  BY <1>1, Invariance, PTL

\* A file that has been read leaves exactly the assignments of its text in the
\* table, by the layout of its lines: with the items that belong to each, under
\* the name its lines give it.
THEOREM TableIsTheText == Spec => []TextIsTable
  <1>1. NmlInv => TextIsTable
    <2> SUFFICES ASSUME NmlInv, status = "done"
                 PROVE  /\ \A i \in DOMAIN seen : table[SlotOf(seen[i])] = seen[i].items
                        /\ \A s \in Slots : HasParam(table, s) => \E i \in DOMAIN seen : s = SlotOf(seen[i])
      BY DEF TextIsTable, SlotOf
    <2>1. Replayed /\ todo = <<>> /\ seen \in Seq(Recorded)
      BY DEF NmlInv, TextInv
    <2>2. deferred = <<>>
      BY DEF NmlInv, NmlTypeOK, TextInv
    <2>3. DOMAIN seen = 1 .. Len(seen) /\ Len(seen) \in Nat
      BY <2>1, LenProperties
    <2>4. Inserted = Len(seen)
      <3>1. Len(todo) = 0 /\ Len(deferred) = 0
        BY <2>1, <2>2, EmptySeq
      <3> QED  BY <2>3, <3>1 DEF Inserted
    <2> QED  BY <2>1, <2>3, <2>4 DEF Replayed
  <1> QED  BY <1>1, Invariance, PTL
=============================================================================
