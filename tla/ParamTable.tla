----------------------------- MODULE ParamTable -----------------------------
(***************************************************************************)
(* The typed key/value store behind both parameter-file readers            *)
(* (framework/MOM_param_table.cpp).  A table maps a slot, that is a group  *)
(* and a key, to a value or to Unset; a group of the C++ map exists here   *)
(* exactly when one of its keys is bound, because insert creates a group   *)
(* only to put a key in it.  Values are compared as typed variants, so an  *)
(* integer and a real of the same magnitude are different values.          *)
(***************************************************************************)
CONSTANTS
    Groups,            \* group names, the empty name (NoBlock) included
    Keys,              \* parameter names
    Values,            \* typed values (the ParamValue variant)
    Unset,             \* "no such key": not a value
    CaseInsensitive,   \* the constructor's flag: TRUE for namelists
    Lower              \* string_utils::lowercase, on group and key names

ASSUME UnsetAssumption == Unset \notin Values
ASSUME LowerAssumption ==
    /\ CaseInsensitive \in BOOLEAN
    /\ \A g \in Groups : Lower[g] \in Groups /\ Lower[Lower[g]] = Lower[g]
    /\ \A k \in Keys : Lower[k] \in Keys /\ Lower[Lower[k]] = Lower[k]

Slots == Groups \X Keys

Tables == [Slots -> Values \cup {Unset}]

EmptyTable == [s \in Slots |-> Unset]

Normalize(name) == IF CaseInsensitive THEN Lower[name] ELSE name

Slot(group, key) == <<Normalize(group), Normalize(key)>>

HasParam(t, s) == t[s] # Unset

\* Mutants of InsertAllowed: a later assignment silently wins; an override
\* may create its key.
InsertLastWins(t, s, v, isOverride) == isOverride => HasParam(t, s)
InsertOverrideCreates(t, s, v, isOverride) == isOverride \/ t[s] \in {Unset, v}

\* What insert accepts: an override needs a bound key, a plain insert a free
\* key or the very value that is already there.
InsertAllowed(t, s, v, isOverride) ==
    IF isOverride THEN HasParam(t, s) ELSE t[s] \in {Unset, v}

Insert(t, s, v) == [t EXCEPT ![s] = v]

GetGroups(t) == {g \in Groups : \E k \in Keys : HasParam(t, <<g, k>>)}
=============================================================================
