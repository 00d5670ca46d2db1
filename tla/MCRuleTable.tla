--------------------------- MODULE MCRuleTable ----------------------------
(* Two programs of one name and a third whose name starts with it; one     *)
(* head whose URL begins that of a second, and a third unlike them.        *)
EXTENDS RuleTable, TLC

CONSTANTS d1, d2, h1, h2, h3

MCPrograms == {[name |-> "a", path |-> "p"], [name |-> "a", path |-> "q"],
               [name |-> "ab", path |-> "p"]}
MCStarts == {<<"a", "a">>, <<"ab", "ab">>, <<"a", "ab">>}
MCSenior == {<<"boss", "staff">>}
MCJustice == [u \in Users |-> {IF u = "staff" THEN "net" ELSE "open", "head"}]
MCSame == {<<h1, h1>>, <<h2, h2>>, <<h3, h3>>, <<h1, h2>>}
MCAlike == MCSame \union {<<h2, h1>>}
Symmetric == Permutations({d1, d2})
=============================================================================
