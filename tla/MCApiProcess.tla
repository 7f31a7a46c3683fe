---------------------------- MODULE MCApiProcess ----------------------------
(* Small instances of ApiProcess for TLC.                                  *)
EXTENDS ApiProcess

\* A patch of a sensor, and of a technician.
SomePublications == {{"sensor", "lift"}, {"technician"}}
=============================================================================
