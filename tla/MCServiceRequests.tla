-------------------------- MODULE MCServiceRequests --------------------------
(* Small instances of ServiceRequests for TLC.                             *)
EXTENDS ServiceRequests, TLC

CONSTANTS l1

OnOneLift == [r \in Requests |-> l1]

\* A patch of the reason, an end, and assignments of either technician.
SomeBodies ==
    {[status |-> Unset, tech |-> Unset], [status |-> "completed", tech |-> Unset]}
    \union [status : {"assigned"}, tech : Techs]

Interchangeable == Permutations(Clients) \union Permutations(Techs) \union Permutations(Requests)
=============================================================================
