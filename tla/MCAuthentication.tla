--------------------------- MODULE MCAuthentication ---------------------------
(* Small instances of Authentication for TLC.                              *)
EXTENDS Authentication, TLC

CONSTANTS d

\* The demo account that matters is the administrator's.
DemoAdmin == d :> Admin

Interchangeable == Permutations(Clients)
=============================================================================
