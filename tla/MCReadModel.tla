----------------------------- MODULE MCReadModel -----------------------------
(* Small instances of ReadModel for TLC.                                   *)
EXTENDS ReadModel, TLC
=============================================================================
