------------------------------ MODULE RateLimit ------------------------------
(***************************************************************************)
(* RateLimitMiddleware of main.py: two windows over the requests let in,   *)
(* per host, on a monotonic clock.  dispatch runs on the event loop        *)
(* without an await up to its decision.                                    *)
(*                                                                         *)
(* Times are kept as ages.  Preflight requests, /health and the static     *)
(* clients are not counted and are left out.                               *)
(***************************************************************************)
EXTENDS Integers, Sequences, FiniteSets

CONSTANTS Hosts,        \* client keys
          Minute,       \* the 60-second window
          Burst,        \* the 10-second window
          PerMinute, PerBurst

\* What is assumed of the constants.
Sound ==
    /\ Minute \in Nat /\ Burst \in 0..Minute
    /\ PerMinute \in Nat \ {0} /\ PerBurst \in Nat \ {0}

VARIABLES
    bucket,     \* bucket[h]: ages of requests let in, the oldest first
    admitted    \* admitted[h][w]: how many were let in within the last w

vars == <<bucket, admitted>>

Ages == 0..Minute + 1     \* Minute + 1: older than any window

Init ==
    /\ bucket = [h \in Hosts |-> << >>]
    /\ admitted = [h \in Hosts |-> [w \in 0..Minute |-> 0]]

-----------------------------------------------------------------------------

\* How many entries at the front of a bucket are older than the window.
Stale(b, window) == Cardinality({i \in DOMAIN b : \A j \in 1..i : b[j] > window})

\* A plausible bug: the bucket is cleaned with the cutoff of the burst.
FreshBurst(b) == SubSeq(b, Stale(b, Burst) + 1, Len(b))

\* A plausible bug: nothing is dropped.
FreshAll(b) == b

\* What the loop leaves, which drops from the front what is older than a minute.
Fresh(b) == SubSeq(b, Stale(b, Minute) + 1, Len(b))

\* The entries of a bucket within the window.
Recent(b, window) == {i \in DOMAIN b : b[i] <= window}

HasRoom(h) ==
    /\ Len(Fresh(bucket[h])) < PerMinute
    /\ Cardinality(Recent(Fresh(bucket[h]), Burst)) < PerBurst

\* dispatch lets the request in,
Admit(h) ==
    /\ HasRoom(h)
    /\ bucket' = [bucket EXCEPT ![h] = Append(Fresh(@), 0)]
    /\ admitted' = [admitted EXCEPT ![h] = [w \in 0..Minute |-> @[w] + 1]]

\* or answers 429: the request is not counted.
Refuse(h) ==
    /\ ~HasRoom(h)
    /\ bucket' = [bucket EXCEPT ![h] = Fresh(@)]
    /\ UNCHANGED admitted

Tick ==
    /\ bucket' = [h \in Hosts |->
                    [i \in DOMAIN bucket[h] |->
                        IF bucket[h][i] > Minute THEN Minute + 1 ELSE bucket[h][i] + 1]]
    /\ admitted' = [h \in Hosts |->
                      [w \in 0..Minute |-> IF w = 0 THEN 0 ELSE admitted[h][w - 1]]]

Next == Tick \/ \E h \in Hosts : Admit(h) \/ Refuse(h)

SafeSpec == Init /\ [][Next]_vars

\* Time goes on.
Spec == SafeSpec /\ WF_vars(Tick)

-----------------------------------------------------------------------------
(* Properties.                                                             *)

\* The type invariant.
TypeOK ==
    /\ bucket \in [Hosts -> Seq(Ages)]
    /\ admitted \in [Hosts -> [0..Minute -> Nat]]

\* In any minute and in any ten seconds a host has no more requests let in
\* than the limits, although refused ones and old ones leave the bucket.
WithinLimits ==
    \A h \in Hosts : admitted[h][Minute] <= PerMinute /\ admitted[h][Burst] <= PerBurst

\* A host that is refused is let in again, however often it tries: refused
\* requests do not renew the window.
NobodyIsShutOut == \A h \in Hosts : []<>HasRoom(h)
=============================================================================
