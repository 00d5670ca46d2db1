----------------------------- MODULE MCSsdtHook -----------------------------
(* The idle process comes first in a query; one of two names starts with   *)
(* the other.                                                              *)
EXTENDS SsdtHook, TLC

CONSTANTS c1, c2, b1, b2, b3

MCProcesses == <<0, 1, 2, 3>>
MCStarts == {<<"a", "a">>, <<"ab", "ab">>, <<"a", "ab">>}
MCImages == {{"a"}, {"a", "ab"}}
MCCalls == [arrays |-> 3, list |-> 5]
Symmetric == Permutations({c1, c2})
=============================================================================
