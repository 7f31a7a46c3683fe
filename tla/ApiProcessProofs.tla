--------------------------- MODULE ApiProcessProofs ---------------------------
(***************************************************************************)
(* Theorems about ApiProcess: whatever the rate limiter lets through, the  *)
(* cache behaves as QueryCache says and the buckets as RateLimit does, and *)
(* so the process has the properties of both.                              *)
(***************************************************************************)
EXTENDS ApiProcess, TLAPS

CacheProofs == INSTANCE QueryCacheProofs
LimitProofs == INSTANCE RateLimitProofs

-----------------------------------------------------------------------------
(* The cache.                                                              *)

LEMMA StepOfCache == [Next]_vars => [Cache!Next]_(Cache!vars)
  <1>1. ASSUME NEW h \in Hosts, LetIn(h) PROVE Cache!Next \/ UNCHANGED Cache!vars
    BY <1>1 DEF LetIn, Cache!Next, cacheVars, Cache!vars
  <1>2. ASSUME NEW h \in Hosts, TurnAway(h) PROVE UNCHANGED Cache!vars
    BY <1>2 DEF TurnAway, cacheVars, Cache!vars
  <1>3. ASSUME NEW q \in Readers, Read(q) PROVE Cache!Next
    BY <1>3 DEF Read, Cache!Next
  <1>4. ASSUME NEW w \in Writers, Write(w) PROVE Cache!Next
    BY <1>4 DEF Write, Cache!Next
  <1>5. CASE Tick
    BY <1>5 DEF Tick, Cache!Next
  <1>6. CASE UNCHANGED vars
    BY <1>6 DEF vars, Cache!vars
  <1> QED
    BY <1>1, <1>2, <1>3, <1>4, <1>5, <1>6 DEF Next

LEMMA SoundCache == Cache!Sound
  BY ApiProcessAssumption

\* The module of the proofs has names of its own for the same definitions.
LEMMA SameSystem ==
    /\ CacheProofs!Sound
    /\ Cache!Init => CacheProofs!Init
    /\ [Cache!Next]_(Cache!vars) => [CacheProofs!Next]_(CacheProofs!vars)
  <1>1. CacheProofs!Sound
    BY SoundCache
    DEF Cache!Sound, Cache!Aggregates, Cache!Entry, Cache!Current, CacheProofs!Sound,
        CacheProofs!Aggregates, CacheProofs!Entry, CacheProofs!Current
  <1>2. Cache!Init => CacheProofs!Init
    BY DEF Cache!Init, Cache!NoReader, Cache!NoWriter, CacheProofs!Init,
        CacheProofs!NoReader, CacheProofs!NoWriter
  <1>3. [Cache!Next]_(Cache!vars) => [CacheProofs!Next]_(CacheProofs!vars)
    BY DEF Cache!Next, Cache!vars, Cache!Read, Cache!Write, Cache!Tick, Cache!Request,
        Cache!Hit, Cache!Miss, Cache!Select, Cache!Put, Cache!Fail, Cache!Apply,
        Cache!Invalidate, Cache!Commit, Cache!Abort, Cache!SetReader, Cache!SetWriter,
        Cache!Outdated, Cache!Aged, Cache!Later, Cache!Waited, Cache!Current,
        Cache!Entry, Cache!Reader, Cache!Writer, Cache!NoReader, Cache!NoWriter,
        Cache!CommitAhead, Cache!Cascade, CacheProofs!Next, CacheProofs!vars,
        CacheProofs!Read, CacheProofs!Write, CacheProofs!Tick, CacheProofs!Request,
        CacheProofs!Hit, CacheProofs!Miss, CacheProofs!Select, CacheProofs!Put,
        CacheProofs!Fail, CacheProofs!Apply, CacheProofs!Invalidate, CacheProofs!Commit,
        CacheProofs!Abort, CacheProofs!SetReader, CacheProofs!SetWriter,
        CacheProofs!Outdated, CacheProofs!Aged, CacheProofs!Later, CacheProofs!Waited,
        CacheProofs!Current, CacheProofs!Entry, CacheProofs!Reader, CacheProofs!Writer,
        CacheProofs!NoReader, CacheProofs!NoWriter, CacheProofs!CommitAhead,
        CacheProofs!Cascade
  <1> QED
    BY <1>1, <1>2, <1>3

LEMMA SameProperties ==
    /\ CacheProofs!TypeOK => Cache!TypeOK
    /\ CacheProofs!RowsAreRecent => RowsAreRecent
    /\ CacheProofs!StaleByRaceOnly => StaleByRaceOnly
    /\ CacheProofs!StoredIsIndexed => StoredIsIndexed
  <1>1. CacheProofs!TypeOK => Cache!TypeOK
    BY DEF Cache!TypeOK, Cache!Entry, Cache!Reader, Cache!NoReader, Cache!Writer,
        Cache!NoWriter, CacheProofs!TypeOK, CacheProofs!Entry, CacheProofs!Reader,
        CacheProofs!NoReader, CacheProofs!Writer, CacheProofs!NoWriter
  <1>2. CacheProofs!RowsAreRecent => RowsAreRecent
    BY DEF RowsAreRecent, Cache!RowsAreRecent, Cache!Entry, CacheProofs!RowsAreRecent, CacheProofs!Entry
  <1>3. CacheProofs!StaleByRaceOnly => StaleByRaceOnly
    BY DEF StaleByRaceOnly, Cache!StaleByRaceOnly, Cache!Entry, Cache!Current, CacheProofs!StaleByRaceOnly,
        CacheProofs!Entry, CacheProofs!Current
  <1>4. CacheProofs!StoredIsIndexed => StoredIsIndexed
    BY DEF StoredIsIndexed, Cache!StoredIsIndexed, CacheProofs!StoredIsIndexed
  <1> QED
    BY <1>1, <1>2, <1>3, <1>4

LEMMA ImplementsProvedCache == Spec => CacheProofs!Spec
  <1>1. Init => CacheProofs!Init
    BY SameSystem DEF Init
  <1>2. [Next]_vars => [CacheProofs!Next]_(CacheProofs!vars)
    BY StepOfCache, SameSystem
  <1> QED
    BY <1>1, <1>2, PTL DEF Spec, CacheProofs!Spec

\* What is cached has its type.
THEOREM CacheTyped == Spec => []Cache!TypeOK
  <1>1. CacheProofs!Spec => []CacheProofs!TypeOK
    BY SameSystem, CacheProofs!TypeCorrect
  <1> QED
    BY <1>1, ImplementsProvedCache, SameProperties, PTL

\* No hit of the process is out of date for longer than the TTL and the timeout.
THEOREM StalenessIsBounded == Spec => []RowsAreRecent
  <1>1. CacheProofs!Spec => []CacheProofs!RowsAreRecent
    BY SameSystem, CacheProofs!StalenessIsBounded
  <1> QED
    BY <1>1, ImplementsProvedCache, SameProperties, PTL

\* An entry is out of date only if its query raced with the commit of a command.
THEOREM OnlyRacesLeaveStaleRows == Spec => []StaleByRaceOnly
  <1>1. CacheProofs!Spec => []CacheProofs!StaleByRaceOnly
    BY SameSystem, CacheProofs!OnlyRacesLeaveStaleRows
  <1> QED
    BY <1>1, ImplementsProvedCache, SameProperties, PTL

\* What is stored is in the index, so that a command can invalidate it.
THEOREM NothingEscapesInvalidation == Spec => []StoredIsIndexed
  <1>1. CacheProofs!Spec => []CacheProofs!StoredIsIndexed
    BY SameSystem, CacheProofs!NothingEscapesInvalidation
  <1> QED
    BY <1>1, ImplementsProvedCache, SameProperties, PTL

-----------------------------------------------------------------------------
(* The rate limiter.                                                       *)

LEMMA StepOfLimit == [Next]_vars => [Limit!Next]_(Limit!vars)
  <1>1. ASSUME NEW h \in Hosts, LetIn(h) \/ TurnAway(h) PROVE Limit!Next
    BY <1>1 DEF LetIn, TurnAway, Limit!Next
  <1>2. ASSUME NEW q \in Readers, Read(q) PROVE UNCHANGED Limit!vars
    BY <1>2 DEF Read, limitVars, Limit!vars
  <1>3. ASSUME NEW w \in Writers, Write(w) PROVE UNCHANGED Limit!vars
    BY <1>3 DEF Write, limitVars, Limit!vars
  <1>4. CASE Tick
    BY <1>4 DEF Tick, Limit!Next
  <1>5. CASE UNCHANGED vars
    BY <1>5 DEF vars, Limit!vars
  <1> QED
    BY <1>1, <1>2, <1>3, <1>4, <1>5 DEF Next

\* The module of the proofs has names of its own for the same definitions.
LEMMA SameLimit ==
    /\ LimitProofs!Sound
    /\ Limit!Init => LimitProofs!Init
    /\ [Limit!Next]_(Limit!vars) => [LimitProofs!Next]_(LimitProofs!vars)
    /\ LimitProofs!TypeOK => Limit!TypeOK
    /\ LimitProofs!WithinLimits => WithinLimits
  <1>1. LimitProofs!Sound
    BY ApiProcessAssumption DEF Limit!Sound, LimitProofs!Sound
  <1>2. Limit!Init => LimitProofs!Init
    BY DEF Limit!Init, LimitProofs!Init
  <1>3. [Limit!Next]_(Limit!vars) => [LimitProofs!Next]_(LimitProofs!vars)
    <2>1. Limit!Tick <=> LimitProofs!Tick
      BY DEF Limit!Tick, LimitProofs!Tick
    <2>c. \A S : Limit!Cardinality(S) = LimitProofs!Cardinality(S)
      BY DEF Limit!Cardinality, LimitProofs!Cardinality
    <2>2. \A b : Limit!Fresh(b) = LimitProofs!Fresh(b)
      BY <2>c DEF Limit!Fresh, Limit!Stale, LimitProofs!Fresh, LimitProofs!Stale
    <2>3. \A h : Limit!HasRoom(h) <=> LimitProofs!HasRoom(h)
      BY <2>c, <2>2 DEF Limit!HasRoom, Limit!Recent, LimitProofs!HasRoom, LimitProofs!Recent
    <2>4. ASSUME NEW h \in Hosts
          PROVE  /\ Limit!Admit(h) <=> LimitProofs!Admit(h)
                 /\ Limit!Refuse(h) <=> LimitProofs!Refuse(h)
      BY <2>2, <2>3 DEF Limit!Admit, Limit!Refuse, LimitProofs!Admit, LimitProofs!Refuse
    <2> QED
      BY <2>1, <2>4 DEF Limit!Next, Limit!vars, LimitProofs!Next, LimitProofs!vars
  <1>4. LimitProofs!TypeOK => Limit!TypeOK
    BY DEF Limit!TypeOK, Limit!Ages, LimitProofs!TypeOK, LimitProofs!Ages
  <1>5. LimitProofs!WithinLimits => WithinLimits
    BY DEF WithinLimits, Limit!WithinLimits, LimitProofs!WithinLimits
  <1> QED
    BY <1>1, <1>2, <1>3, <1>4, <1>5

LEMMA ImplementsProvedLimit == Spec => LimitProofs!SafeSpec
  <1>1. Init => LimitProofs!Init
    BY SameLimit DEF Init
  <1>2. [Next]_vars => [LimitProofs!Next]_(LimitProofs!vars)
    BY StepOfLimit, SameLimit
  <1> QED
    BY <1>1, <1>2, PTL DEF Spec, LimitProofs!SafeSpec

\* What is cached, and what the buckets and their history hold, has its type.
THEOREM TypeCorrect == Spec => []TypeOK
  <1>1. LimitProofs!SafeSpec => []LimitProofs!TypeOK
    BY SameLimit, LimitProofs!TypeCorrect
  <1>2. Cache!TypeOK /\ LimitProofs!TypeOK => TypeOK
    BY SameLimit DEF TypeOK
  <1> QED
    BY <1>1, <1>2, CacheTyped, ImplementsProvedLimit, PTL

\* However list requests, commands and other requests share the process, no
\* host has more of them let in than the limits, in any minute or ten seconds.
THEOREM LimitsHold == Spec => []WithinLimits
  <1>1. LimitProofs!SafeSpec => []LimitProofs!WithinLimits
    BY SameLimit, LimitProofs!LimitsHold
  <1> QED
    BY <1>1, ImplementsProvedLimit, SameLimit, PTL
==============================================================================
