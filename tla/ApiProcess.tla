------------------------------ MODULE ApiProcess ------------------------------
(***************************************************************************)
(* One process of the API (main.py): the rate limiter is passed before     *)
(* list requests reach the query cache and commands the services, and the  *)
(* clock is the same for all.                                              *)
(***************************************************************************)
EXTENDS Integers, Sequences

CONSTANTS Keys, Readers, Writers, Publications, TTL, Timeout, NoEntry, Expired,
          Hosts, Minute, Burst, PerMinute, PerBurst

VARIABLES storage, index, reader, writer, bucket, admitted

Cache == INSTANCE QueryCache
Limit == INSTANCE RateLimit

ASSUME ApiProcessAssumption == Cache!Sound /\ Limit!Sound

cacheVars == <<storage, index, reader, writer>>
limitVars == <<bucket, admitted>>
vars == <<storage, index, reader, writer, bucket, admitted>>

Init == Cache!Init /\ Limit!Init

\* A request of the host that is let in: a list of lifts, a command, or one
\* of another endpoint.
LetIn(h) ==
    /\ Limit!Admit(h)
    /\ \/ \E q \in Readers, k \in Keys : Cache!Request(q, k)
       \/ \E w \in Writers, events \in Publications : Cache!Apply(w, events)
       \/ UNCHANGED cacheVars

TurnAway(h) == Limit!Refuse(h) /\ UNCHANGED cacheVars

\* A request that was let in goes on.
Read(q) == Cache!Read(q) /\ UNCHANGED limitVars
Write(w) == Cache!Write(w) /\ UNCHANGED limitVars

Tick == Cache!Tick /\ Limit!Tick

Next ==
    \/ \E h \in Hosts : LetIn(h) \/ TurnAway(h)
    \/ \E q \in Readers : Read(q)
    \/ \E w \in Writers : Write(w)
    \/ Tick

\* Time goes on; a statement ends, at the latest when the pool ends it.
Spec ==
    /\ Init /\ [][Next]_vars
    /\ WF_vars(Tick)
    /\ \A q \in Readers : WF_vars(Read(q))

-----------------------------------------------------------------------------
(* Properties: those of the parts, of the whole.                           *)

\* The type invariant.
TypeOK == Cache!TypeOK /\ Limit!TypeOK

\* A hit is never more out of date than QueryCache says.
RowsAreRecent == Cache!RowsAreRecent

\* An entry is out of date only by a race with a command.
StaleByRaceOnly == Cache!StaleByRaceOnly

\* What is stored can be invalidated.
StoredIsIndexed == Cache!StoredIsIndexed

\* No host has more requests let in than the limits.
WithinLimits == Limit!WithinLimits

\* However busy the process is, a host that was refused is let in again.
NobodyIsShutOut == Limit!NobodyIsShutOut
=============================================================================
