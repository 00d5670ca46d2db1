-------------------------- MODULE MCCredentials ---------------------------
(* An owner and a user; two processes of the desktop program. *)
EXTENDS Credentials, TLC

CONSTANTS d1, d2

Symmetric == Permutations({d1, d2})
=============================================================================
