---------------------------- MODULE MCFilterStack ----------------------------
(* A device object for each of two storage devices, one of which may pass  *)
(* for a shadow copy.                                                      *)
EXTENDS FilterStack

CONSTANTS s1, s2, x1, x2

MCDisk == [x \in {x1, x2} |-> IF x = x1 THEN s1 ELSE s2]
=============================================================================
