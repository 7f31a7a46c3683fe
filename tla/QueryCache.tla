------------------------------ MODULE QueryCache ------------------------------
(***************************************************************************)
(* The cache of the list of lifts: application/cache.py, list_lifts of     *)
(* api/v1/lifts.py, which fills it from lifts_read, and the commands,      *)
(* which invalidate it and commit afterwards.                              *)
(*                                                                         *)
(* The functions of the cache run under one lock of one event loop; a      *)
(* query or a command is interrupted between them.  Of the rows a query    *)
(* got there is only for how long they have been out of date.  Time is     *)
(* what is left to an entry and what has passed since a snapshot.          *)
(***************************************************************************)
EXTENDS Integers

CONSTANTS Keys,         \* a user and a page
          Readers,      \* list requests that can be in flight at a time
          Writers,      \* commands that can be in flight at a time
          Publications, \* the aggregates of the events of a command
          TTL,          \* _DEFAULT_TTL_SECONDS
          Timeout,      \* command_timeout of the pool, for a statement and for the
                        \* reset of its connection on release
          NoEntry, Expired

Aggregates == {"lift", "sensor", "event", "service_request", "technician", "report"}

Current == -1
Entry == [left : 0..TTL,                \* until it expires
          late : Int,                   \* since its rows are out of date, or Current
          raced : BOOLEAN]              \* put next to a commit it does not know of

\* What is assumed of the constants.
Sound ==
    /\ Publications \subseteq SUBSET Aggregates
    /\ TTL \in Nat /\ Timeout \in Nat
    /\ NoEntry \notin Entry /\ Expired \notin Entry /\ NoEntry # Expired

VARIABLES
    storage,    \* storage[k]: _storage
    index,      \* _index["lift"]
    reader,     \* reader[q]: a list request
    writer      \* writer[w]: a command

vars == <<storage, index, reader, writer>>

NoReader == [pc |-> "none"]
Reader == [pc : {"get", "select", "put"}, key : Keys,
           since : 0..Timeout,          \* since the snapshot of its SELECT
           late : Int]                  \* since its rows are out of date, or Current
NoWriter == [pc |-> "none"]
Writer == [pc : {"applied", "told"}, events : Publications]

Init ==
    /\ storage = [k \in Keys |-> NoEntry]
    /\ index = {}
    /\ reader = [q \in Readers |-> NoReader]
    /\ writer = [w \in Writers |-> NoWriter]

-----------------------------------------------------------------------------
(* list_lifts.                                                             *)

SetReader(q, r) == reader' = [reader EXCEPT ![q] = r]

Request(q, k) ==
    /\ reader[q] = NoReader
    /\ SetReader(q, [pc |-> "get", key |-> k, since |-> 0, late |-> Current])
    /\ UNCHANGED <<storage, index, writer>>

\* get, if there is a value: it is the answer.
Hit(q) ==
    /\ reader[q].pc = "get"
    /\ storage[reader[q].key] \in Entry
    /\ SetReader(q, NoReader)
    /\ UNCHANGED <<storage, index, writer>>

\* A plausible bug: the tag goes with an expired key.
MissDropTag(q) ==
    LET k == reader[q].key IN
    /\ reader[q].pc = "get"
    /\ storage[k] \notin Entry
    /\ storage' = [storage EXCEPT ![k] = NoEntry]
    /\ index' = IF storage[k] = Expired THEN {} ELSE index
    /\ SetReader(q, [reader[q] EXCEPT !.pc = "select"])
    /\ UNCHANGED writer

\* get, if there is none or it has expired: its key goes.
Miss(q) ==
    LET k == reader[q].key IN
    /\ reader[q].pc = "get"
    /\ storage[k] \notin Entry
    /\ storage' = [storage EXCEPT ![k] = NoEntry]
    /\ index' = IF storage[k] = Expired THEN index \ {k} ELSE index
    /\ SetReader(q, [reader[q] EXCEPT !.pc = "select"])
    /\ UNCHANGED writer

\* list_page: the snapshot of the statement, once the pool has a connection.
Select(q) ==
    /\ reader[q].pc = "select"
    /\ SetReader(q, [pc |-> "put", key |-> reader[q].key, since |-> 0, late |-> Current])
    /\ UNCHANGED <<storage, index, writer>>

\* Some command has invalidated the cache and is yet to commit.
CommitAhead == \E w \in Writers : writer[w].pc = "told" /\ "lift" \in writer[w].events

\* put, when the rows are there.
Put(q) ==
    LET r == reader[q] IN
    /\ r.pc = "put"
    /\ storage' = [storage EXCEPT ![r.key] =
                      [left |-> TTL, late |-> r.late,
                       raced |-> r.late # Current \/ CommitAhead]]
    /\ index' = index \union {r.key}
    /\ SetReader(q, NoReader)
    /\ UNCHANGED writer

\* The statement times out or fails, or the client is gone.
Fail(q) ==
    /\ reader[q].pc \in {"select", "put"}
    /\ SetReader(q, NoReader)
    /\ UNCHANGED <<storage, index, writer>>

-----------------------------------------------------------------------------
(* The commands.                                                           *)

SetWriter(w, t) == writer' = [writer EXCEPT ![w] = t]

\* The events are applied to the read model; nothing is committed.
Apply(w, events) ==
    /\ writer[w] = NoWriter
    /\ SetWriter(w, [pc |-> "applied", events |-> events])
    /\ UNCHANGED <<storage, index, reader>>

\* A plausible bug: a lift's own events are taken to be in its cascade.
CascadeOthers(aggregate) ==
    CASE aggregate \in {"lift", "report"} -> {"sensor", "event", "service_request"}
      [] aggregate \in {"sensor", "event"} -> {aggregate}
      [] OTHER -> {"technician", "service_request"}

\* The tags invalidate_for_aggregate clears.
Cascade(aggregate) ==
    CASE aggregate = "lift" -> {"lift", "sensor", "event", "service_request", "report"}
      [] aggregate \in {"sensor", "event"} -> {"lift", aggregate}
      [] aggregate = "service_request" -> {"lift", "service_request", "technician"}
      [] aggregate = "technician" -> {"technician", "service_request"}
      [] aggregate = "report" -> {"lift", "report", "service_request"}

\* invalidate_for_aggregate for each of the aggregates, and the answer: the
\* keys of the tag go.  All of them have the one tag, "lift".
Invalidate(w) ==
    LET cleared == "lift" \in UNION {Cascade(a) : a \in writer[w].events} IN
    /\ writer[w].pc = "applied"
    /\ storage' = [k \in Keys |-> IF cleared /\ k \in index THEN NoEntry ELSE storage[k]]
    /\ index' = IF cleared THEN {} ELSE index
    /\ SetWriter(w, [writer[w] EXCEPT !.pc = "told"])
    /\ UNCHANGED reader

\* What is current is not any more, if the command changed rows of lifts.
Outdated(x, changed) == IF changed /\ x.late = Current THEN [x EXCEPT !.late = 0] ELSE x

\* get_session commits, after the answer.
Commit(w) ==
    LET changed == "lift" \in writer[w].events IN
    /\ writer[w].pc = "told"
    /\ storage' = [k \in Keys |-> IF storage[k] \in Entry THEN Outdated(storage[k], changed)
                                  ELSE storage[k]]
    /\ reader' = [q \in Readers |-> IF reader[q] = NoReader THEN NoReader
                                    ELSE Outdated(reader[q], changed)]
    /\ SetWriter(w, NoWriter)
    /\ UNCHANGED index

Abort(w) ==
    /\ writer[w] # NoWriter
    /\ SetWriter(w, NoWriter)
    /\ UNCHANGED <<storage, index, reader>>

-----------------------------------------------------------------------------
(* Time.                                                                   *)

Later(late) == IF late = Current THEN Current ELSE late + 1

\* A plausible bug: an entry that is hit is renewed, and somebody hits it.
AgedByHits(e) ==
    IF e \in Entry THEN [e EXCEPT !.left = TTL, !.late = Later(e.late)] ELSE e

Aged(e) ==
    CASE e \notin Entry -> e
      [] e \in Entry -> IF e.left = 0 THEN Expired
                        ELSE [e EXCEPT !.left = @ - 1, !.late = Later(@)]

Waited(r) == IF r.pc = "put" THEN [r EXCEPT !.since = @ + 1, !.late = Later(@)] ELSE r

\* A plausible bug: the pool has no command_timeout.
TickUnlimited ==
    /\ storage' = [k \in Keys |-> Aged(storage[k])]
    /\ reader' = [q \in Readers |-> Waited(reader[q])]
    /\ UNCHANGED <<index, writer>>

\* The pool ends a statement that has taken its time.
Tick ==
    /\ \A q \in Readers : reader[q].pc = "put" => reader[q].since < Timeout
    /\ storage' = [k \in Keys |-> Aged(storage[k])]
    /\ reader' = [q \in Readers |-> Waited(reader[q])]
    /\ UNCHANGED <<index, writer>>

-----------------------------------------------------------------------------

Read(q) == Hit(q) \/ Miss(q) \/ Select(q) \/ Put(q) \/ Fail(q)

Write(w) == Invalidate(w) \/ Commit(w) \/ Abort(w)

Next ==
    \/ \E q \in Readers : Read(q) \/ \E k \in Keys : Request(q, k)
    \/ \E w \in Writers : Write(w) \/ \E events \in Publications : Apply(w, events)
    \/ Tick

Spec == Init /\ [][Next]_vars

-----------------------------------------------------------------------------
(* Properties.                                                             *)

\* The type invariant.
TypeOK ==
    /\ storage \in [Keys -> Entry \union {NoEntry, Expired}]
    /\ index \subseteq Keys
    /\ reader \in [Readers -> {NoReader} \union Reader]
    /\ writer \in [Writers -> {NoWriter} \union Writer]

\* Whatever races, a hit is out of date by no more than the life of an entry
\* and the time a statement may take.
RowsAreRecent ==
    \A k \in Keys : storage[k] \in Entry => storage[k].late <= TTL + Timeout

\* Invalidation before the commit is repaired by time alone: a hit that is
\* out of date was put by a query that a command overtook, or between the
\* invalidation of a command and its commit.
StaleByRaceOnly ==
    \A k \in Keys : storage[k] \in Entry /\ storage[k].late # Current => storage[k].raced

\* What is stored can be invalidated, in spite of keys that expire one by one.
StoredIsIndexed == \A k \in Keys : storage[k] # NoEntry => k \in index
=============================================================================
