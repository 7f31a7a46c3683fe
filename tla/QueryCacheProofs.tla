--------------------------- MODULE QueryCacheProofs ---------------------------
(***************************************************************************)
(* Theorems about QueryCache, for any keys, requests, TTL and timeout.     *)
(***************************************************************************)
EXTENDS QueryCache, TLAPS

\* A commit changes of an entry only when it is out of date since,
LEMMA OutdatedEntry ==
    ASSUME NEW e \in Entry, NEW changed \in BOOLEAN
    PROVE  /\ Outdated(e, changed) \in Entry
           /\ Outdated(e, changed).left = e.left
           /\ Outdated(e, changed).raced = e.raced
           /\ Outdated(e, changed).late \in {e.late, 0}
           /\ Outdated(e, changed).late # e.late => changed
  BY DEF Outdated, Entry, Current

\* and the same of a list request.
LEMMA OutdatedReader ==
    ASSUME Sound, NEW r \in Reader, NEW changed \in BOOLEAN
    PROVE  /\ Outdated(r, changed) \in Reader
           /\ Outdated(r, changed).pc = r.pc
           /\ Outdated(r, changed).since = r.since
           /\ Outdated(r, changed).late \in {r.late, 0}
  BY DEF Outdated, Reader, Current, Sound

\* What a tick makes of what is stored.
LEMMA AgedStored ==
    ASSUME Sound, NEW e \in Entry \union {NoEntry, Expired}
    PROVE  /\ Aged(e) \in Entry \union {NoEntry, Expired}
           /\ Aged(e) # NoEntry => e # NoEntry
           /\ Aged(e) \in Entry =>
                 /\ e \in Entry
                 /\ Aged(e).left = e.left - 1
                 /\ Aged(e).raced = e.raced
                 /\ Aged(e).late = Later(e.late)
  <1>1. CASE e \notin Entry
    BY <1>1 DEF Aged, Sound
  <1>2. CASE e \in Entry /\ e.left = 0
    BY <1>2 DEF Aged, Sound
  <1>3. CASE e \in Entry /\ e.left # 0
    <2>1. Aged(e) = [e EXCEPT !.left = @ - 1, !.late = Later(@)]
      BY <1>3 DEF Aged
    <2>2. e.left - 1 \in 0..TTL /\ Later(e.late) \in Int
      BY <1>3 DEF Entry, Sound, Later, Current
    <2> QED
      BY <1>3, <2>1, <2>2 DEF Entry, Sound
  <1> QED
    BY <1>1, <1>2, <1>3

\* What a tick makes of a list request, which the pool has not timed out.
LEMMA WaitedReader ==
    ASSUME Sound, NEW r \in Reader, r.pc = "put" => r.since < Timeout
    PROVE  /\ Waited(r) \in Reader
           /\ Waited(r).pc = r.pc
           /\ r.pc = "put" =>
                 Waited(r).since = r.since + 1 /\ Waited(r).late = Later(r.late)
           /\ r.pc # "put" => Waited(r) = r
  <1>1. CASE r.pc # "put"
    BY <1>1 DEF Waited
  <1>2. CASE r.pc = "put"
    <2>1. Waited(r) = [pc |-> r.pc, key |-> r.key, since |-> r.since + 1, late |-> Later(r.late)]
      BY <1>2 DEF Waited, Reader
    <2>2. r.since + 1 \in 0..Timeout /\ Later(r.late) \in Int
      BY <1>2 DEF Reader, Later, Current, Sound
    <2> QED
      BY <1>2, <2>1, <2>2 DEF Reader
  <1> QED
    BY <1>1, <1>2

LEMMA NotNone ==
    /\ NoReader \notin Reader /\ NoReader.pc = "none"
    /\ NoWriter \notin Writer /\ NoWriter.pc = "none"
  BY DEF Reader, NoReader, Writer, NoWriter

-----------------------------------------------------------------------------
(* Types.                                                                  *)

LEMMA InitTyped == ASSUME Sound, Init PROVE TypeOK
  BY DEF Init, TypeOK, Sound

LEMMA NextTyped == ASSUME Sound, TypeOK, [Next]_vars PROVE TypeOK'
  <1>1. ASSUME NEW q \in Readers, NEW k \in Keys, Request(q, k) PROVE TypeOK'
    <2>1. [pc |-> "get", key |-> k, since |-> 0, late |-> Current] \in Reader
      BY DEF Sound, Reader, Current
    <2> QED
      BY <1>1, <2>1 DEF Request, SetReader, TypeOK
  <1>2. ASSUME NEW q \in Readers, Hit(q) \/ Fail(q) PROVE TypeOK'
    BY <1>2 DEF Hit, Fail, SetReader, TypeOK
  <1>3. ASSUME NEW q \in Readers, Miss(q) PROVE TypeOK'
    <2>1. reader[q] \in Reader
      BY <1>3, NotNone DEF Miss, TypeOK
    <2>2. [reader[q] EXCEPT !.pc = "select"] \in Reader
      BY <2>1 DEF Reader
    <2>3. index' \subseteq Keys
      BY <1>3 DEF Miss, TypeOK
    <2> QED
      BY <1>3, <2>2, <2>3 DEF Miss, SetReader, TypeOK
  <1>4. ASSUME NEW q \in Readers, Select(q) PROVE TypeOK'
    <2>1. reader[q] \in Reader
      BY <1>4, NotNone DEF Select, TypeOK
    <2>2. [pc |-> "put", key |-> reader[q].key, since |-> 0, late |-> Current] \in Reader
      BY <2>1 DEF Reader, Sound, Current
    <2> QED
      BY <1>4, <2>2 DEF Select, SetReader, TypeOK
  <1>5. ASSUME NEW q \in Readers, Put(q) PROVE TypeOK'
    <2>1. reader[q] \in Reader
      BY <1>5, NotNone DEF Put, TypeOK
    <2>2. [left |-> TTL, late |-> reader[q].late,
           raced |-> reader[q].late # Current \/ CommitAhead] \in Entry
      BY <2>1 DEF Reader, Entry, Sound, CommitAhead
    <2>3. reader[q].key \in Keys
      BY <2>1 DEF Reader
    <2> QED
      BY <1>5, <2>2, <2>3 DEF Put, SetReader, TypeOK
  <1>6. ASSUME NEW w \in Writers, NEW events \in Publications, Apply(w, events) PROVE TypeOK'
    <2>1. [pc |-> "applied", events |-> events] \in Writer
      BY DEF Writer
    <2> QED
      BY <1>6, <2>1 DEF Apply, SetWriter, TypeOK
  <1>7. ASSUME NEW w \in Writers, Invalidate(w) PROVE TypeOK'
    <2>1. writer[w] \in Writer
      BY <1>7, NotNone DEF Invalidate, TypeOK
    <2>2. [writer[w] EXCEPT !.pc = "told"] \in Writer
      BY <2>1 DEF Writer
    <2> QED
      BY <1>7, <2>2 DEF Invalidate, SetWriter, TypeOK
  <1>8. ASSUME NEW w \in Writers, Commit(w) PROVE TypeOK'
    <2> DEFINE changed == "lift" \in writer[w].events
    <2>0. changed \in BOOLEAN
      OBVIOUS
    <2> HIDE DEF changed
    <2>1. \A k \in Keys : storage[k] \in Entry => Outdated(storage[k], changed) \in Entry
      BY <2>0, OutdatedEntry
    <2>2. \A q \in Readers : reader[q] # NoReader => Outdated(reader[q], changed) \in Reader
      BY <2>0, OutdatedReader DEF TypeOK
    <2> QED
      BY <1>8, <2>1, <2>2 DEF Commit, SetWriter, TypeOK, changed
  <1>9. ASSUME NEW w \in Writers, Abort(w) PROVE TypeOK'
    BY <1>9 DEF Abort, SetWriter, TypeOK
  <1>10. CASE Tick
    <2>1. \A k \in Keys : Aged(storage[k]) \in Entry \union {NoEntry, Expired}
      BY AgedStored DEF TypeOK
    <2>2. \A q \in Readers : Waited(reader[q]) \in {NoReader} \union Reader
      <3> SUFFICES ASSUME NEW q \in Readers PROVE Waited(reader[q]) \in {NoReader} \union Reader
        OBVIOUS
      <3>1. CASE reader[q] = NoReader
        BY <3>1, NotNone DEF Waited
      <3>2. CASE reader[q] \in Reader
        BY <3>2, <1>10, WaitedReader DEF Tick
      <3> QED
        BY <3>1, <3>2 DEF TypeOK
    <2> QED
      BY <1>10, <2>1, <2>2 DEF Tick, TypeOK
  <1>11. CASE UNCHANGED vars
    BY <1>11 DEF vars, TypeOK
  <1> QED
    BY <1>1, <1>2, <1>3, <1>4, <1>5, <1>6, <1>7, <1>8, <1>9, <1>10, <1>11
    DEF Next, Read, Write

\* The dictionaries, the list requests and the commands have their types.
THEOREM TypeCorrect == ASSUME Sound PROVE Spec => []TypeOK
  BY InitTyped, NextTyped, PTL DEF Spec

-----------------------------------------------------------------------------
(* What is stored is indexed.                                              *)

LEMMA NextIndexed ==
    ASSUME Sound, TypeOK, StoredIsIndexed, [Next]_vars
    PROVE  StoredIsIndexed'
  <1>1. ASSUME NEW q \in Readers, Miss(q) \/ Put(q) PROVE StoredIsIndexed'
    BY <1>1 DEF Miss, Put, StoredIsIndexed, TypeOK
  <1>2. ASSUME NEW w \in Writers, Invalidate(w) PROVE StoredIsIndexed'
    BY <1>2 DEF Invalidate, StoredIsIndexed
  <1>3. ASSUME NEW w \in Writers, Commit(w) PROVE StoredIsIndexed'
    BY <1>3 DEF Commit, StoredIsIndexed, Sound
  <1>4. CASE Tick
    BY <1>4, AgedStored DEF Tick, StoredIsIndexed, TypeOK
  <1>5. CASE UNCHANGED <<storage, index>>
    BY <1>5 DEF StoredIsIndexed
  <1> QED
    BY <1>1, <1>2, <1>3, <1>4, <1>5
    DEF Next, Read, Write, Request, Hit, Select, Fail, Apply, Abort, vars

\* A key that expires on its own takes no other one out of the index.
THEOREM NothingEscapesInvalidation == ASSUME Sound PROVE Spec => []StoredIsIndexed
  <1>1. Init => StoredIsIndexed
    BY DEF Init, StoredIsIndexed
  <1> QED
    BY <1>1, TypeCorrect, NextIndexed, PTL DEF Spec

-----------------------------------------------------------------------------
(* Staleness by races only.                                                *)

\* What is stored while a command is between invalidation and commit was put
\* there since.
MarkedAhead ==
    CommitAhead => \A k \in Keys : storage[k] \in Entry => storage[k].raced

RaceInv == StoredIsIndexed /\ MarkedAhead /\ StaleByRaceOnly

\* A command that writes rows of lifts clears the tag.
LEMMA LiftIsCleared ==
    ASSUME NEW events, "lift" \in events
    PROVE  "lift" \in UNION {Cascade(a) : a \in events}
  <1>1. "lift" \in Cascade("lift")
    BY DEF Cascade
  <1> QED
    BY <1>1

LEMMA NextRaceInv ==
    ASSUME Sound, TypeOK, RaceInv, [Next]_vars
    PROVE  MarkedAhead' /\ StaleByRaceOnly'
  <1>1. ASSUME NEW q \in Readers, Miss(q)
        PROVE  MarkedAhead' /\ StaleByRaceOnly'
    <2>1. \A k \in Keys : storage'[k] \in Entry => storage'[k] = storage[k]
      BY <1>1 DEF Miss, TypeOK, Sound
    <2>2. CommitAhead' = CommitAhead
      BY <1>1 DEF Miss, CommitAhead
    <2> QED
      BY <2>1, <2>2 DEF RaceInv, MarkedAhead, StaleByRaceOnly
  <1>2. ASSUME NEW q \in Readers, Put(q)
        PROVE  MarkedAhead' /\ StaleByRaceOnly'
    <2> DEFINE e == [left |-> TTL, late |-> reader[q].late,
                     raced |-> reader[q].late # Current \/ CommitAhead]
    <2>1. \A k \in Keys : storage'[k] = storage[k] \/ storage'[k] = e
      BY <1>2 DEF Put, TypeOK
    <2>2. CommitAhead' = CommitAhead
      BY <1>2 DEF Put, CommitAhead
    <2>3. e.late # Current \/ CommitAhead => e.raced
      OBVIOUS
    <2> QED
      BY <2>1, <2>2, <2>3 DEF RaceInv, MarkedAhead, StaleByRaceOnly
  <1>3. ASSUME NEW w \in Writers, NEW events \in Publications, Apply(w, events)
        PROVE  MarkedAhead' /\ StaleByRaceOnly'
    <2>1. CommitAhead' => CommitAhead
      BY <1>3, NotNone DEF Apply, SetWriter, CommitAhead, TypeOK
    <2> QED
      BY <1>3, <2>1 DEF Apply, RaceInv, MarkedAhead, StaleByRaceOnly
  <1>4. ASSUME NEW w \in Writers, Invalidate(w)
        PROVE  MarkedAhead' /\ StaleByRaceOnly'
    <2>1. \A k \in Keys : storage'[k] \in Entry => storage'[k] = storage[k]
      BY <1>4 DEF Invalidate, Sound
    <2>2. CASE "lift" \in writer[w].events
      <3>1. \A k \in Keys : storage'[k] = NoEntry
        BY <1>4, <2>2, LiftIsCleared DEF Invalidate, RaceInv, StoredIsIndexed
      <3> QED
        BY <3>1 DEF MarkedAhead, StaleByRaceOnly, Sound
    <2>3. CASE "lift" \notin writer[w].events
      <3>1. CommitAhead' => CommitAhead
        BY <1>4, <2>3 DEF Invalidate, SetWriter, CommitAhead, TypeOK
      <3> QED
        BY <2>1, <3>1 DEF RaceInv, MarkedAhead, StaleByRaceOnly
    <2> QED
      BY <2>2, <2>3
  <1>5. ASSUME NEW w \in Writers, Commit(w)
        PROVE  MarkedAhead' /\ StaleByRaceOnly'
    <2> DEFINE changed == "lift" \in writer[w].events
    <2>0. changed \in BOOLEAN
      OBVIOUS
    <2>1. CommitAhead' => CommitAhead
      BY <1>5, NotNone DEF Commit, SetWriter, CommitAhead, TypeOK
    <2>2. changed => CommitAhead
      BY <1>5 DEF Commit, CommitAhead
    <2>3. \A k \in Keys : storage'[k] = IF storage[k] \in Entry
                                        THEN Outdated(storage[k], changed) ELSE storage[k]
      BY <1>5 DEF Commit
    <2> HIDE DEF changed
    <2>4. \A k \in Keys : storage'[k] \in Entry =>
              /\ storage[k] \in Entry
              /\ storage'[k].raced = storage[k].raced
              /\ storage'[k].late # storage[k].late => CommitAhead
      BY <2>0, <2>2, <2>3, OutdatedEntry
    <2> QED
      BY <2>1, <2>4 DEF RaceInv, MarkedAhead, StaleByRaceOnly
  <1>6. ASSUME NEW w \in Writers, Abort(w)
        PROVE  MarkedAhead' /\ StaleByRaceOnly'
    <2>1. CommitAhead' => CommitAhead
      BY <1>6, NotNone DEF Abort, SetWriter, CommitAhead, TypeOK
    <2> QED
      BY <1>6, <2>1 DEF Abort, RaceInv, MarkedAhead, StaleByRaceOnly
  <1>7. CASE Tick
    <2>1. \A k \in Keys : storage'[k] \in Entry =>
              /\ storage[k] \in Entry
              /\ storage'[k].raced = storage[k].raced
              /\ storage'[k].late # Current => storage[k].late # Current
      BY <1>7, AgedStored DEF Tick, TypeOK, Later
    <2>2. CommitAhead' = CommitAhead
      BY <1>7 DEF Tick, CommitAhead
    <2> QED
      BY <2>1, <2>2 DEF RaceInv, MarkedAhead, StaleByRaceOnly
  <1>8. CASE UNCHANGED <<storage, writer>>
    BY <1>8 DEF RaceInv, MarkedAhead, StaleByRaceOnly, CommitAhead
  <1> QED
    BY <1>1, <1>2, <1>3, <1>4, <1>5, <1>6, <1>7, <1>8
    DEF Next, Read, Write, Request, Hit, Select, Fail, vars

\* An entry is out of date only if its query raced with the commit of a command.
THEOREM OnlyRacesLeaveStaleRows == ASSUME Sound PROVE Spec => []StaleByRaceOnly
  <1>1. Init => MarkedAhead /\ StaleByRaceOnly
    BY DEF Init, MarkedAhead, StaleByRaceOnly, Sound
  <1>2. TypeOK /\ StoredIsIndexed /\ MarkedAhead /\ StaleByRaceOnly /\ [Next]_vars
        => MarkedAhead' /\ StaleByRaceOnly'
    BY NextRaceInv DEF RaceInv
  <1> QED
    BY <1>1, <1>2, TypeCorrect, NothingEscapesInvalidation, PTL DEF Spec

-----------------------------------------------------------------------------
(* Bounded staleness.                                                      *)

\* Rows are out of date for no longer than their query takes,
ReadersAreRecent ==
    \A q \in Readers : reader[q] # NoReader => reader[q].late <= reader[q].since

\* and than it took and the entry has lived.
EntriesAreRecent ==
    \A k \in Keys :
        storage[k] \in Entry => storage[k].late + storage[k].left <= TTL + Timeout

LEMMA NextReadersAreRecent ==
    ASSUME Sound, TypeOK, ReadersAreRecent, [Next]_vars
    PROVE  ReadersAreRecent'
  <1> SUFFICES ASSUME NEW q \in Readers, reader'[q] # NoReader, reader'[q] # reader[q]
               PROVE  reader'[q].late <= reader'[q].since
    BY DEF ReadersAreRecent
  <1>1. ASSUME NEW p \in Readers, NEW k \in Keys, Request(p, k)
        PROVE  reader'[q].late <= reader'[q].since
    BY <1>1 DEF Request, SetReader, TypeOK, Current
  <1>2. ASSUME NEW p \in Readers, Miss(p)
        PROVE  reader'[q].late <= reader'[q].since
    <2>1. p = q /\ reader[q] \in Reader
      BY <1>2, NotNone DEF Miss, SetReader, TypeOK
    <2>2. reader'[q] = [reader[q] EXCEPT !.pc = "select"]
      BY <1>2, <2>1 DEF Miss, SetReader, TypeOK
    <2> QED
      BY <2>1, <2>2, NotNone DEF ReadersAreRecent, Reader
  <1>3. ASSUME NEW p \in Readers, Select(p)
        PROVE  reader'[q].late <= reader'[q].since
    BY <1>3 DEF Select, SetReader, TypeOK, Current
  <1>4. ASSUME NEW p \in Readers, Hit(p) \/ Put(p) \/ Fail(p)
        PROVE  reader'[q].late <= reader'[q].since
    BY <1>4 DEF Hit, Put, Fail, SetReader, TypeOK
  <1>5. ASSUME NEW w \in Writers, Commit(w)
        PROVE  reader'[q].late <= reader'[q].since
    <2> DEFINE changed == "lift" \in writer[w].events
    <2>0. changed \in BOOLEAN
      OBVIOUS
    <2>1. reader[q] \in Reader /\ reader'[q] = Outdated(reader[q], changed)
      BY <1>5 DEF Commit, TypeOK
    <2> HIDE DEF changed
    <2>2. /\ reader'[q].since = reader[q].since
          /\ reader'[q].late \in {reader[q].late, 0}
      BY <2>0, <2>1, OutdatedReader
    <2>3. reader[q].late <= reader[q].since /\ 0 <= reader[q].since
      BY <2>1, NotNone DEF ReadersAreRecent, Reader, Sound
    <2> QED
      BY <2>2, <2>3
  <1>6. CASE Tick
    <2>1. reader[q] \in Reader /\ reader'[q] = Waited(reader[q])
      BY <1>6, NotNone DEF Tick, TypeOK, Waited
    <2>2. reader[q].pc = "put" => reader[q].since < Timeout
      BY <1>6 DEF Tick
    <2>3. reader[q].pc = "put"
      BY <2>1, <2>2, WaitedReader
    <2>4. /\ reader'[q].since = reader[q].since + 1
          /\ reader'[q].late = Later(reader[q].late)
      BY <2>1, <2>2, <2>3, WaitedReader
    <2>5. reader[q].late <= reader[q].since /\ reader[q].late \in Int /\ reader[q].since \in Nat
      BY <2>1, NotNone DEF ReadersAreRecent, Reader, Sound
    <2> QED
      BY <2>4, <2>5 DEF Later, Current
  <1> QED
    BY <1>1, <1>2, <1>3, <1>4, <1>5, <1>6
    DEF Next, Read, Write, Invalidate, Apply, Abort, vars

LEMMA NextEntriesAreRecent ==
    ASSUME Sound, TypeOK, ReadersAreRecent, EntriesAreRecent, [Next]_vars
    PROVE  EntriesAreRecent'
  <1> SUFFICES ASSUME NEW k \in Keys, storage'[k] \in Entry, storage'[k] # storage[k]
               PROVE  storage'[k].late + storage'[k].left <= TTL + Timeout
    BY DEF EntriesAreRecent
  <1>1. ASSUME NEW q \in Readers, Miss(q) PROVE FALSE
    BY <1>1 DEF Miss, TypeOK, Sound
  <1>2. ASSUME NEW q \in Readers, Put(q)
        PROVE  storage'[k].late + storage'[k].left <= TTL + Timeout
    <2>1. reader[q] \in Reader
      BY <1>2, NotNone DEF Put, TypeOK
    <2>2. storage'[k].left = TTL /\ storage'[k].late = reader[q].late
      BY <1>2 DEF Put, TypeOK
    <2>3. reader[q].late <= Timeout /\ reader[q].late \in Int
      BY <2>1, NotNone DEF ReadersAreRecent, Reader, Sound
    <2> QED
      BY <2>2, <2>3 DEF Sound
  <1>3. ASSUME NEW w \in Writers, Invalidate(w) PROVE FALSE
    BY <1>3 DEF Invalidate, Sound
  <1>4. ASSUME NEW w \in Writers, Commit(w)
        PROVE  storage'[k].late + storage'[k].left <= TTL + Timeout
    <2> DEFINE changed == "lift" \in writer[w].events
    <2>0. changed \in BOOLEAN
      OBVIOUS
    <2>1. storage[k] \in Entry /\ storage'[k] = Outdated(storage[k], changed)
      BY <1>4 DEF Commit
    <2> HIDE DEF changed
    <2>2. /\ storage'[k].left = storage[k].left
          /\ storage'[k].late \in {storage[k].late, 0}
      BY <2>0, <2>1, OutdatedEntry
    <2>3. storage[k].late + storage[k].left <= TTL + Timeout /\ storage[k].left \in 0..TTL
      BY <2>1 DEF EntriesAreRecent, Entry
    <2> QED
      BY <2>2, <2>3 DEF Sound
  <1>5. CASE Tick
    <2>1. storage'[k] = Aged(storage[k]) /\ storage[k] \in Entry \union {NoEntry, Expired}
      BY <1>5 DEF Tick, TypeOK
    <2>2. /\ storage[k] \in Entry
          /\ storage'[k].left = storage[k].left - 1
          /\ storage'[k].late = Later(storage[k].late)
      BY <2>1, AgedStored
    <2>3. /\ storage[k].late + storage[k].left <= TTL + Timeout
          /\ storage[k].left \in 0..TTL /\ storage[k].late \in Int
      BY <2>2 DEF EntriesAreRecent, Entry
    <2> QED
      BY <2>2, <2>3 DEF Sound, Later, Current
  <1> QED
    BY <1>1, <1>2, <1>3, <1>4, <1>5
    DEF Next, Read, Write, Request, Hit, Select, Fail, Apply, Abort, vars

\* No hit is out of date for longer than the TTL and the timeout of the pool.
THEOREM StalenessIsBounded == ASSUME Sound PROVE Spec => []RowsAreRecent
  <1>1. Init => ReadersAreRecent /\ EntriesAreRecent
    BY DEF Init, ReadersAreRecent, EntriesAreRecent, Sound
  <1>2. TypeOK /\ EntriesAreRecent => RowsAreRecent
    <2> SUFFICES ASSUME TypeOK, EntriesAreRecent, NEW k \in Keys, storage[k] \in Entry
                 PROVE  storage[k].late <= TTL + Timeout
      BY DEF RowsAreRecent
    <2>1. /\ storage[k].late + storage[k].left <= TTL + Timeout
          /\ storage[k].left \in 0..TTL /\ storage[k].late \in Int
      BY DEF EntriesAreRecent, Entry
    <2> QED
      BY <2>1 DEF Sound
  <1> QED
    BY <1>1, <1>2, TypeCorrect, NextReadersAreRecent, NextEntriesAreRecent, PTL DEF Spec
=============================================================================
