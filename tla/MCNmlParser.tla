---------------------------- MODULE MCNmlParser ----------------------------
(* Instance of NmlParser for TLC: a namelist and a variable in two          *)
(* spellings, a second variable, and items of two types.  A line may hold   *)
(* an assignment, two, items alone, or items and then an assignment.        *)
EXTENDS NmlParser

TheGroups == {"none", "Nml", "nml"}
TheNames == {"2 a", "2 b", "x a", "x b"}   \* what text before a key makes of it
TheKeys == {"A", "a", "b", "none"} \cup TheNames
TheLower == [n \in TheGroups \cup TheKeys |->
               CASE n = "Nml" -> "nml" [] n = "A" -> "a" [] OTHER -> n]
TheKind == [i \in {"1", "2", "x"} |-> IF i = "x" THEN "string" ELSE "int"]
TheGlued == [n \in {"1", "2", "x"} \X TheKeys |->
               LET a == TheLower[n[2]] = "a"
               IN IF n[1] = "x" THEN (IF a THEN "x a" ELSE "x b") ELSE (IF a THEN "2 a" ELSE "2 b")]

Assignment(key, items, comma) ==
    [assigns |-> <<[key |-> key, items |-> items]>>, items |-> <<>>, comma |-> comma]
Items(items, comma) == [assigns |-> <<>>, items |-> items, comma |-> comma]

TheTexts ==
    {Assignment("A", <<"1">>, comma) : comma \in BOOLEAN}
    \cup {Assignment("a", <<"1">>, FALSE), Assignment("a", <<"2">>, TRUE), Assignment("b", <<"2">>, FALSE),
          Assignment("none", <<"1">>, FALSE), Assignment("b", <<>>, FALSE)}
    \cup {[assigns |-> <<[key |-> "b", items |-> <<"1">>], [key |-> "A", items |-> <<"2">>]>>,
           items |-> <<>>, comma |-> TRUE]}
    \cup {[Assignment("b", <<"1">>, comma) EXCEPT !.items = <<"2">>] : comma \in BOOLEAN}
    \cup {Items(<<"2">>, TRUE), Items(<<"2">>, FALSE), Items(<<"x">>, FALSE)}
=============================================================================
