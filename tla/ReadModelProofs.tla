--------------------------- MODULE ReadModelProofs ---------------------------
(* Theorems about ReadModel, for any lifts, commands and columns.          *)
EXTENDS ReadModel, TLAPS

-----------------------------------------------------------------------------
(* The inductive invariant, part by part.                                  *)

\* What holds of every transaction wherever it is: how far it is with its
\* rebuilds, and that a command whose change is counted rebuilds twice.
Orderly(t) ==
    /\ t.pc \in {"sync", "upsert"} => t.synced < t.syncs
    /\ t.pc = "remove" => t.synced = 0 /\ t.syncs = 0
    /\ t.pc \in {"done", "told"} /\ ~t.failed => t.synced = t.syncs
    /\ t.failed => t.pc \in {"done", "told"}
    /\ t.adds = 1 => t.syncs = 2
    /\ t.locks => t.syncs > 0
    /\ t.synced > 0 /\ ~t.failed => t.holds

Typed == TypeOK /\ \A c \in Clients : tx[c] # NoTx => Orderly(tx[c])

\* A row of lifts_read has one holder.
OneHolder ==
    \A c, d \in Clients, l \in Lifts : Holds(c, l) /\ Holds(d, l) => c = d

\* A transaction knows of no change but its own and the committed ones.
Sober(t) ==
    t.row # NoRow =>
        /\ t.row.changes <= changes[t.event.lift] + t.adds
        /\ t.row.ticks <= ticks[t.event.lift]

NoRumours == \A c \in Clients : tx[c] # NoTx => Sober(tx[c])

\* From its second snapshot on, a command whose change is counted has a row
\* that will be exact at its commit, but for a tick.
SecondLook(t) ==
    t.adds = 1 /\ ~t.failed /\ (t.synced = 2 \/ (t.synced = 1 /\ t.pc = "upsert"))

Exact(t) ==
    LET l == t.event.lift IN
    /\ t.row \in Row
    /\ t.row.changes = changes[l] + 1
    /\ t.row.ticks <= ticks[l]
    /\ t.row.ticks = ticks[l] => t.row.status = IF t.locks THEN t.status ELSE lift[l]

SecondLookExact == \A c \in Clients : tx[c] # NoTx /\ SecondLook(tx[c]) => Exact(tx[c])

-----------------------------------------------------------------------------
(* Types.                                                                  *)

\* A transaction under way, told from none by where it is.
LEMMA TxKinds ==
    ASSUME TypeOK, NEW c \in Clients
    PROVE  /\ tx[c].pc # "none" => tx[c] # NoTx
           /\ tx[c] # NoTx => tx[c] \in Tx /\ LiftOf(c) \in Lifts
  BY DEF TypeOK, NoTx, Tx, DomainEvent, LiftOf

LEMMA TxIsSome == ASSUME NEW t \in Tx PROVE t # NoTx
  BY DEF Tx, NoTx

\* A step that only sets a client's transaction keeps the types, if it sets it
\* to an orderly one.
LEMMA SetTyped ==
    ASSUME Typed, NEW c \in Clients, NEW t \in Tx, Orderly(t),
           tx' = [tx EXCEPT ![c] = t],
           issued' \in Nat,
           UNCHANGED <<lift, changes, ticks, shown, pending, tasks>>
    PROVE  Typed'
  <1>1. TypeOK'
    BY DEF Typed, TypeOK
  <1>2. ASSUME NEW d \in Clients, tx'[d] # NoTx PROVE Orderly(tx'[d])
    BY <1>2 DEF Typed, TypeOK
  <1> QED
    BY <1>1, <1>2 DEF Typed

\* A step that ends a client's transaction keeps the types, if what it writes
\* has them.
LEMMA EndTyped ==
    ASSUME Typed, NEW c \in Clients, EndTx(c), issued' = issued,
           lift' \in [Lifts -> Status], changes' \in [Lifts -> Nat],
           ticks' \in [Lifts -> Nat], shown' \in [Lifts -> Row \union {NoRow}],
           pending' \subseteq DomainEvent,
           tasks' \subseteq DomainEvent
    PROVE  Typed'
  <1>1. TypeOK'
    BY DEF Typed, TypeOK, EndTx
  <1>2. ASSUME NEW d \in Clients, tx'[d] # NoTx PROVE Orderly(tx'[d])
    BY <1>2 DEF Typed, TypeOK, EndTx
  <1> QED
    BY <1>1, <1>2 DEF Typed

LEMMA InitTyped == Init => Typed
  <1> SUFFICES ASSUME Init PROVE Typed
    OBVIOUS
  <1>1. ASSUME NEW l \in Lifts
        PROVE  [status |-> lift[l], changes |-> 0, ticks |-> 0] \in Row
    BY DEF Init, Row
  <1>2. TypeOK
    BY <1>1 DEF Init, TypeOK
  <1>3. \A c \in Clients : tx[c] = NoTx
    BY DEF Init
  <1> QED
    BY <1>2, <1>3 DEF Typed

\* The transaction a command begins with.
Beginning(t) ==
    /\ t.pc \in {"sync", "remove"}
    /\ t.synced = 0 /\ t.row = NoRow /\ t.holds = FALSE /\ t.failed = FALSE

LEMMA StartSets ==
    ASSUME Typed, NEW c \in Clients, NEW l \in Lifts, NEW pc \in {"sync", "remove"},
           NEW status \in Status, NEW adds \in {0, 1}, NEW syncs \in 0..2,
           Start(c, l, pc, status, adds, syncs),
           pc = "sync" => syncs > 0,
           pc = "remove" => syncs = 0 /\ status = lift[l],
           adds = 1 => syncs = 2
    PROVE  /\ tx[c] = NoTx /\ issued' \in Nat
           /\ \E t \in Tx : Orderly(t) /\ Beginning(t) /\ tx' = [tx EXCEPT ![c] = t]
           /\ UNCHANGED <<lift, changes, ticks, shown, pending, tasks>>
  <1> DEFINE t == [pc |-> pc, event |-> [id |-> issued + 1, lift |-> l],
                   status |-> status, locks |-> status # lift[l], adds |-> adds,
                   syncs |-> syncs, synced |-> 0, row |-> NoRow,
                   holds |-> FALSE, failed |-> FALSE]
  <1>1. issued + 1 \in Nat
    BY DEF Typed, TypeOK
  <1>2. t \in Tx
    BY <1>1 DEF Tx, DomainEvent
  <1>3. /\ t.pc = pc /\ t.adds = adds /\ t.syncs = syncs /\ t.synced = 0
        /\ t.row = NoRow /\ t.holds = FALSE /\ t.failed = FALSE
        /\ t.locks => status # lift[l]
    OBVIOUS
  <1>4. tx' = [tx EXCEPT ![c] = t]
    BY DEF Start
  <1> HIDE DEF t
  <1>5. Beginning(t)
    BY <1>3 DEF Beginning
  <1>6. ~t.failed
    BY <1>3
  <1>7. Orderly(t)
    BY <1>3, <1>6 DEF Orderly
  <1> QED
    BY <1>1, <1>2, <1>4, <1>5, <1>7 DEF Start

\* Every command begins that way.
LEMMA CommandSets ==
    ASSUME Typed, NEW c \in Clients, Command(c)
    PROVE  /\ tx[c] = NoTx /\ issued' \in Nat
           /\ \E t \in Tx : Orderly(t) /\ Beginning(t) /\ tx' = [tx EXCEPT ![c] = t]
           /\ UNCHANGED <<lift, changes, ticks, shown, pending, tasks>>
  <1> PICK l \in Lifts :
        \/ \E s \in Status : PatchLift(c, l, s) \/ FileReport(c, l, s)
        \/ ChangeChild(c, l) \/ DeleteChild(c, l) \/ DeleteLift(c, l)
    BY DEF Command
  <1>0. lift[l] \in Status
    BY DEF Typed, TypeOK
  <1>1. ASSUME NEW s \in Status, PatchLift(c, l, s)
        PROVE  Start(c, l, "sync", s, 0, 1)
    BY <1>1 DEF PatchLift
  <1>2. ASSUME NEW s \in Status, FileReport(c, l, s)
        PROVE  Start(c, l, "sync", s, 1, 2)
    BY <1>2 DEF FileReport
  <1>3. CASE \E s \in Status : PatchLift(c, l, s)
    BY <1>3, <1>1, StartSets
  <1>4. CASE \E s \in Status : FileReport(c, l, s)
    BY <1>4, <1>2, StartSets
  <1>5. CASE ChangeChild(c, l)
    BY <1>5, <1>0, StartSets DEF ChangeChild
  <1>6. CASE DeleteChild(c, l)
    BY <1>6, <1>0, StartSets DEF DeleteChild
  <1>7. CASE DeleteLift(c, l)
    BY <1>7, <1>0, StartSets DEF DeleteLift
  <1> QED
    BY <1>3, <1>4, <1>5, <1>6, <1>7

\* The fields of a transaction under way.
LEMMA TxFields ==
    ASSUME NEW t \in Tx
    PROVE  /\ t.pc \in {"sync", "upsert", "remove", "done", "told"}
           /\ t.event \in DomainEvent /\ t.event.lift \in Lifts
           /\ t.status \in Status /\ t.locks \in BOOLEAN
           /\ t.adds \in {0, 1} /\ t.syncs \in 0..2 /\ t.synced \in 0..2
           /\ t.row \in Row \union {NoRow}
           /\ t.holds \in BOOLEAN /\ t.failed \in BOOLEAN
  BY DEF Tx, DomainEvent

\* What the rebuild of a row sees of a lift is a row.
LEMMA SeenByType ==
    ASSUME Typed, NEW c \in Clients, tx[c] # NoTx
    PROVE  /\ SeenBy(c) \in Row
           /\ SeenBy(c).changes = changes[LiftOf(c)] + tx[c].adds
           /\ SeenBy(c).ticks = ticks[LiftOf(c)]
           /\ SeenBy(c).status = IF tx[c].locks THEN tx[c].status ELSE lift[LiftOf(c)]
  <1>1. tx[c] \in Tx /\ LiftOf(c) \in Lifts
    BY TxKinds DEF Typed
  <1>2. /\ lift[LiftOf(c)] \in Status /\ changes[LiftOf(c)] \in Nat
        /\ ticks[LiftOf(c)] \in Nat
    BY <1>1 DEF Typed, TypeOK
  <1>3. tx[c].status \in Status /\ tx[c].adds \in {0, 1}
    BY <1>1, TxFields
  <1> QED
    BY <1>2, <1>3 DEF SeenBy, Row

\* The steps of a transaction under way, by the fields they set.
Moved(t, u) ==
    /\ u.event = t.event /\ u.status = t.status /\ u.adds = t.adds /\ u.syncs = t.syncs

LEMMA SnapshotSets ==
    ASSUME Typed, NEW c \in Clients, Snapshot(c)
    PROVE  \E u \in Tx :
             /\ tx' = [tx EXCEPT ![c] = u]
             /\ tx[c] \in Tx /\ tx[c].pc = "sync" /\ u.pc = "upsert"
             /\ Moved(tx[c], u) /\ Orderly(u)
             /\ u.row = SeenBy(c) /\ u.synced = tx[c].synced
             /\ u.holds = tx[c].holds /\ u.locks = tx[c].locks /\ u.failed = tx[c].failed
  <1> DEFINE u == [tx[c] EXCEPT !.pc = "upsert", !.row = SeenBy(c)]
  <1>1. tx[c] # NoTx /\ tx[c] \in Tx /\ tx[c].pc = "sync"
    BY TxKinds DEF Snapshot, Typed
  <1>2. SeenBy(c) \in Row
    BY <1>1, SeenByType
  <1>3. u \in Tx
    BY <1>1, <1>2 DEF Tx
  <1>4. /\ u.pc = "upsert" /\ Moved(tx[c], u)
        /\ u.row = SeenBy(c) /\ u.synced = tx[c].synced
        /\ u.holds = tx[c].holds /\ u.locks = tx[c].locks /\ u.failed = tx[c].failed
    BY <1>1 DEF Moved, Tx
  <1>5. tx' = [tx EXCEPT ![c] = u]
    BY DEF Snapshot, Step
  <1> HIDE DEF u
  <1>6. Orderly(u)
    BY <1>1, <1>4 DEF Typed, Orderly, Moved
  <1> QED
    BY <1>1, <1>3, <1>4, <1>5, <1>6

LEMMA UpsertSets ==
    ASSUME Typed, NEW c \in Clients, Upsert(c)
    PROVE  \E u \in Tx :
             /\ tx' = [tx EXCEPT ![c] = u]
             /\ tx[c] \in Tx /\ tx[c].pc = "upsert" /\ u.pc \in {"sync", "done"}
             /\ Moved(tx[c], u) /\ Orderly(u)
             /\ u.row = tx[c].row /\ u.synced = tx[c].synced + 1
             /\ u.holds = TRUE /\ u.locks = tx[c].locks /\ u.failed = tx[c].failed
             /\ tx[c].failed = FALSE
  <1> DEFINE n == tx[c].synced + 1
             pc == IF n = tx[c].syncs THEN "done" ELSE "sync"
             u == [tx[c] EXCEPT !.pc = pc, !.synced = n, !.holds = TRUE]
  <1>1. tx[c] # NoTx /\ tx[c] \in Tx /\ tx[c].pc = "upsert"
    BY TxKinds DEF Upsert, Typed
  <1>2. Orderly(tx[c])
    BY <1>1 DEF Typed
  <1>3. tx[c].syncs \in 0..2 /\ tx[c].synced \in 0..2 /\ tx[c].failed \in BOOLEAN
    BY <1>1, TxFields
  <1>4. n \in 0..2 /\ n <= tx[c].syncs
    BY <1>1, <1>2, <1>3 DEF Orderly
  <1>5. tx' = [tx EXCEPT ![c] = u]
    BY DEF Upsert, Step
  <1>6. tx[c].failed = FALSE
    BY <1>1, <1>2, <1>3 DEF Orderly
  <1>7. pc \in {"sync", "done"} /\ (pc = "sync" => n < tx[c].syncs)
        /\ (pc = "done" => n = tx[c].syncs)
    BY <1>3, <1>4
  <1>8. n = tx[c].synced + 1
    OBVIOUS
  <1> HIDE DEF n, pc
  <1>9. u \in Tx
    BY <1>1, <1>4, <1>7 DEF Tx
  <1>10. /\ u.pc = pc /\ Moved(tx[c], u)
         /\ u.row = tx[c].row /\ u.synced = n
         /\ u.holds = TRUE /\ u.locks = tx[c].locks /\ u.failed = tx[c].failed
    BY <1>1 DEF Moved, Tx
  <1> HIDE DEF u
  <1>11. Orderly(u)
    BY <1>2, <1>3, <1>4, <1>6, <1>7, <1>10 DEF Orderly, Moved
  <1> QED
    BY <1>1, <1>5, <1>6, <1>7, <1>8, <1>9, <1>10, <1>11

LEMMA RemoveSets ==
    ASSUME Typed, NEW c \in Clients, Remove(c)
    PROVE  \E u \in Tx :
             /\ tx' = [tx EXCEPT ![c] = u]
             /\ tx[c] \in Tx /\ tx[c].pc = "remove" /\ u.pc = "done"
             /\ Moved(tx[c], u) /\ Orderly(u)
             /\ u.row = tx[c].row /\ u.synced = tx[c].synced
             /\ u.holds = (shown[LiftOf(c)] # NoRow)
             /\ u.locks = tx[c].locks /\ u.failed = tx[c].failed
  <1> DEFINE h == shown[LiftOf(c)] # NoRow
             u == [tx[c] EXCEPT !.pc = "done", !.holds = h]
  <1>1. tx[c] # NoTx /\ tx[c] \in Tx /\ tx[c].pc = "remove"
    BY TxKinds DEF Remove, Typed
  <1>2. Orderly(tx[c])
    BY <1>1 DEF Typed
  <1>3. tx[c].syncs \in 0..2 /\ tx[c].synced \in 0..2 /\ tx[c].failed \in BOOLEAN
    BY <1>1, TxFields
  <1>4. tx' = [tx EXCEPT ![c] = u]
    BY DEF Remove, Step
  <1>5. h \in BOOLEAN
    OBVIOUS
  <1>6. h = (shown[LiftOf(c)] # NoRow)
    OBVIOUS
  <1> HIDE DEF h
  <1>7. u \in Tx
    BY <1>1, <1>5 DEF Tx
  <1>8. /\ u.pc = "done" /\ Moved(tx[c], u)
        /\ u.row = tx[c].row /\ u.synced = tx[c].synced
        /\ u.locks = tx[c].locks /\ u.failed = tx[c].failed
    BY <1>1 DEF Moved, Tx
  <1>9. u.holds = h
    BY <1>1 DEF Tx
  <1> HIDE DEF u
  <1>10. Orderly(u)
    BY <1>1, <1>2, <1>3, <1>8, <1>9 DEF Orderly, Moved
  <1> QED
    BY <1>1, <1>4, <1>6, <1>7, <1>8, <1>9, <1>10

LEMMA SyncFailsSets ==
    ASSUME Typed, NEW c \in Clients, SyncFails(c)
    PROVE  \E u \in Tx :
             /\ tx' = [tx EXCEPT ![c] = u]
             /\ tx[c] \in Tx /\ u.pc = "done"
             /\ Moved(tx[c], u) /\ Orderly(u)
             /\ u.row = tx[c].row /\ u.synced = tx[c].synced
             /\ u.holds = FALSE /\ u.locks = FALSE /\ u.failed = TRUE
  <1> DEFINE u == [tx[c] EXCEPT !.pc = "done", !.failed = TRUE, !.holds = FALSE,
                                !.locks = FALSE]
  <1>1. tx[c] # NoTx /\ tx[c] \in Tx
    BY TxKinds DEF SyncFails, Typed
  <1>2. Orderly(tx[c])
    BY <1>1 DEF Typed
  <1>3. u \in Tx
    BY <1>1 DEF Tx
  <1>4. tx' = [tx EXCEPT ![c] = u]
    BY DEF SyncFails, Step
  <1>5. /\ u.pc = "done" /\ Moved(tx[c], u)
        /\ u.row = tx[c].row /\ u.synced = tx[c].synced
        /\ u.holds = FALSE /\ u.locks = FALSE /\ u.failed = TRUE
    BY <1>1 DEF Moved, Tx
  <1> HIDE DEF u
  <1>6. Orderly(u)
    BY <1>2, <1>5 DEF Orderly, Moved
  <1> QED
    BY <1>1, <1>3, <1>4, <1>5, <1>6

LEMMA RespondSets ==
    ASSUME Typed, NEW c \in Clients, Respond(c)
    PROVE  \E u \in Tx :
             /\ tx' = [tx EXCEPT ![c] = u]
             /\ tx[c] \in Tx /\ tx[c].pc = "done" /\ u.pc = "told"
             /\ Moved(tx[c], u) /\ Orderly(u)
             /\ u.row = tx[c].row /\ u.synced = tx[c].synced
             /\ u.holds = tx[c].holds /\ u.locks = tx[c].locks /\ u.failed = tx[c].failed
  <1> DEFINE u == [tx[c] EXCEPT !.pc = "told"]
  <1>1. tx[c] # NoTx /\ tx[c] \in Tx /\ tx[c].pc = "done"
    BY TxKinds DEF Respond, Typed
  <1>2. Orderly(tx[c])
    BY <1>1 DEF Typed
  <1>3. u \in Tx
    BY <1>1 DEF Tx
  <1>4. tx' = [tx EXCEPT ![c] = u]
    BY DEF Respond, Step
  <1>5. /\ u.pc = "told" /\ Moved(tx[c], u)
        /\ u.row = tx[c].row /\ u.synced = tx[c].synced
        /\ u.holds = tx[c].holds /\ u.locks = tx[c].locks /\ u.failed = tx[c].failed
    BY <1>1 DEF Moved, Tx
  <1> HIDE DEF u
  <1>6. Orderly(u)
    BY <1>1, <1>2, <1>5 DEF Orderly, Moved
  <1> QED
    BY <1>1, <1>3, <1>4, <1>5, <1>6

-----------------------------------------------------------------------------
(* Every step keeps the types.                                             *)

\* A transaction that commits has done all its rebuilds.
LEMMA CommitWrites ==
    ASSUME Typed, NEW c \in Clients, Commit(c)
    PROVE  /\ tx[c] \in Tx /\ tx[c] # NoTx /\ LiftOf(c) \in Lifts
           /\ Orderly(tx[c])
           /\ tx[c].pc = "told" /\ ~tx[c].failed /\ tx[c].synced = tx[c].syncs
           /\ lift' = IF tx[c].locks THEN [lift EXCEPT ![LiftOf(c)] = tx[c].status] ELSE lift
           /\ changes' = [changes EXCEPT ![LiftOf(c)] = @ + tx[c].adds]
           /\ shown' = IF tx[c].holds THEN [shown EXCEPT ![LiftOf(c)] = tx[c].row] ELSE shown
           /\ pending' = pending
           /\ Schedule(c) /\ EndTx(c) /\ ticks' = ticks /\ issued' = issued
  <1>1. tx[c].pc = "told" /\ ~tx[c].failed
    BY DEF Commit
  <1>2. tx[c] # NoTx /\ tx[c] \in Tx /\ LiftOf(c) \in Lifts
    BY <1>1, TxKinds DEF Typed
  <1>3. Orderly(tx[c])
    BY <1>2 DEF Typed
  <1>4. tx[c].synced = tx[c].syncs
    BY <1>1, <1>3 DEF Orderly
  <1> QED
    BY <1>1, <1>2, <1>3, <1>4 DEF Commit

LEMMA CommitTyped ==
    ASSUME Typed, NEW c \in Clients, Commit(c)
    PROVE  Typed'
  <1>1. tx[c] \in Tx /\ LiftOf(c) \in Lifts
    BY CommitWrites
  <1>2. /\ tx[c].status \in Status /\ tx[c].adds \in {0, 1} /\ tx[c].event \in DomainEvent
        /\ tx[c].row \in Row \union {NoRow}
    BY <1>1, TxFields
  <1>3. lift' \in [Lifts -> Status]
    BY <1>1, <1>2, CommitWrites DEF Typed, TypeOK
  <1>4. changes' \in [Lifts -> Nat]
    BY <1>1, <1>2, CommitWrites DEF Typed, TypeOK
  <1>5. shown' \in [Lifts -> Row \union {NoRow}]
    BY <1>1, <1>2, CommitWrites DEF Typed, TypeOK
  <1>6. tasks' \subseteq DomainEvent
    BY <1>2, CommitWrites DEF Typed, TypeOK, Schedule
  <1>7. pending' \subseteq DomainEvent
    BY <1>2, CommitWrites DEF Typed, TypeOK
  <1>8. ticks' \in [Lifts -> Nat] /\ issued' = issued /\ EndTx(c)
    BY CommitWrites DEF Typed, TypeOK
  <1> QED
    BY <1>3, <1>4, <1>5, <1>6, <1>7, <1>8, EndTyped

LEMMA CommitFailedTyped ==
    ASSUME Typed, NEW c \in Clients, CommitFailed(c)
    PROVE  Typed'
  <1>1. tx[c] \in Tx
    BY TxKinds DEF CommitFailed, Typed
  <1>2. tx[c].event \in DomainEvent
    BY <1>1, TxFields
  <1>3. tasks' \subseteq DomainEvent
    BY <1>2 DEF CommitFailed, Schedule, Typed, TypeOK
  <1> QED
    BY <1>3, EndTyped DEF CommitFailed, Typed, TypeOK

LEMMA TruthType ==
    ASSUME Typed, NEW l \in Lifts
    PROVE  Truth(l) \in Row
  BY DEF Typed, TypeOK, Truth, Row

\* A worker's step changes the read model and the log only.
LEMMA ProcessTyped ==
    ASSUME Typed, NEW e \in tasks, Process(e)
    PROVE  Typed'
  <1>1. e \in DomainEvent /\ e.lift \in Lifts
    BY DEF Typed, TypeOK, DomainEvent
  <1>2. Truth(e.lift) \in Row
    BY <1>1, TruthType
  <1>3. TypeOK'
    BY <1>1, <1>2 DEF Process, Typed, TypeOK
  <1> QED
    BY <1>3 DEF Process, Typed

LEMMA TickTyped ==
    ASSUME Typed, NEW l \in Lifts, NEW s \in Status, Tick(l, s)
    PROVE  Typed'
  <1>1. TypeOK'
    BY DEF Tick, Typed, TypeOK
  <1> QED
    BY <1>1 DEF Tick, Typed

LEMMA NextTyped == Typed /\ [Next]_vars => Typed'
  <1> SUFFICES ASSUME Typed, [Next]_vars PROVE Typed'
    OBVIOUS
  <1>1. ASSUME NEW c \in Clients, Command(c) PROVE Typed'
    BY <1>1, CommandSets, SetTyped
  <1>2. ASSUME NEW c \in Clients, Snapshot(c) PROVE Typed'
    BY <1>2, SnapshotSets, SetTyped DEF Snapshot, Step, Typed, TypeOK
  <1>3. ASSUME NEW c \in Clients, Upsert(c) PROVE Typed'
    BY <1>3, UpsertSets, SetTyped DEF Upsert, Step, Typed, TypeOK
  <1>4. ASSUME NEW c \in Clients, Remove(c) PROVE Typed'
    BY <1>4, RemoveSets, SetTyped DEF Remove, Step, Typed, TypeOK
  <1>5. ASSUME NEW c \in Clients, Respond(c) PROVE Typed'
    BY <1>5, RespondSets, SetTyped DEF Respond, Step, Typed, TypeOK
  <1>6. ASSUME NEW c \in Clients, SyncFails(c) PROVE Typed'
    BY <1>6, SyncFailsSets, SetTyped DEF SyncFails, Step, Typed, TypeOK
  <1>7. ASSUME NEW c \in Clients, Abort(c) PROVE Typed'
    BY <1>7, EndTyped DEF Abort, Typed, TypeOK
  <1>8. CASE UNCHANGED vars
    BY <1>8 DEF vars, Typed, TypeOK
  <1> QED
    BY <1>1, <1>2, <1>3, <1>4, <1>5, <1>6, <1>7, <1>8, CommitTyped, CommitFailedTyped,
       ProcessTyped, TickTyped DEF Next, Finish

\* Every variable keeps its type, for any number of commands in flight.
THEOREM TypeCorrect == SafeSpec => []TypeOK
  <1>1. Typed => TypeOK
    BY DEF Typed
  <1> QED
    BY <1>1, InitTyped, NextTyped, PTL DEF SafeSpec

-----------------------------------------------------------------------------
(* Nothing is left to a worker.                                            *)

LEMMA PendingNext ==
    ASSUME Typed, NothingLeftPending, [Next]_vars
    PROVE  NothingLeftPending'
  <1> USE DEF NothingLeftPending
  <1>1. ASSUME NEW c \in Clients, Command(c) PROVE pending' = pending
    BY <1>1, CommandSets
  <1>2. ASSUME NEW c \in Clients,
               \/ Snapshot(c) \/ Upsert(c) \/ Remove(c) \/ Respond(c) \/ SyncFails(c)
               \/ Abort(c) \/ CommitFailed(c)
        PROVE  pending' = pending
    BY <1>2 DEF Snapshot, Upsert, Remove, Respond, SyncFails, Abort, CommitFailed, Step
  <1>3. ASSUME NEW c \in Clients, Commit(c) PROVE pending' = pending
    BY <1>3, CommitWrites
  <1>4. ASSUME NEW e \in tasks, Process(e) PROVE pending' = pending
    BY <1>4 DEF Process
  <1>5. ASSUME NEW l \in Lifts, NEW s \in Status, Tick(l, s) PROVE pending' = pending
    BY <1>5 DEF Tick
  <1>6. CASE UNCHANGED vars
    BY <1>6 DEF vars
  <1> QED
    BY <1>1, <1>2, <1>3, <1>4, <1>5, <1>6 DEF Next, Finish

\* No event is ever left for a worker to apply, whatever fails.
THEOREM WorkerIsIdle == SafeSpec => []NothingLeftPending
  <1>1. Init => NothingLeftPending
    BY DEF Init, NothingLeftPending
  <1>2. Typed /\ NothingLeftPending /\ [Next]_vars => NothingLeftPending'
    BY PendingNext
  <1> QED
    BY <1>1, <1>2, InitTyped, NextTyped, PTL DEF SafeSpec

-----------------------------------------------------------------------------
(* The read model shows nothing that is not committed.                     *)

\* A step of a client that leaves the counts alone and sets a transaction that
\* knows no more than it may.
LEMMA SetSober ==
    ASSUME Typed, NoRumours, NEW c \in Clients, NEW u \in Tx, Sober(u),
           tx' = [tx EXCEPT ![c] = u], UNCHANGED <<changes, ticks>>
    PROVE  NoRumours'
  <1> SUFFICES ASSUME NEW d \in Clients, tx'[d] # NoTx PROVE Sober(tx[d])'
    BY DEF NoRumours
  <1>1. CASE d = c
    BY <1>1 DEF Typed, TypeOK, Sober
  <1>2. CASE d # c
    BY <1>2 DEF Typed, TypeOK, NoRumours, Sober
  <1> QED
    BY <1>1, <1>2

\* What a transaction knew stays right when the counts grow.
LEMMA SoberGrows ==
    ASSUME Typed, NEW t \in Tx, Sober(t),
           changes' \in [Lifts -> Nat], ticks' \in [Lifts -> Nat],
           \A l \in Lifts : changes[l] <= changes'[l] /\ ticks[l] <= ticks'[l]
    PROVE  Sober(t)'
  <1>1. t.event.lift \in Lifts /\ t.adds \in {0, 1} /\ t.row \in Row \union {NoRow}
    BY TxFields
  <1>2. CASE t.row = NoRow
    BY <1>2 DEF Sober
  <1>3. CASE t.row # NoRow
    <2>1. t.row.changes \in Nat /\ t.row.ticks \in Nat
      BY <1>1, <1>3 DEF Row
    <2>2. /\ t.row.changes <= changes[t.event.lift] + t.adds
          /\ t.row.ticks <= ticks[t.event.lift]
      BY <1>3 DEF Sober
    <2>3. /\ changes[t.event.lift] \in Nat /\ ticks[t.event.lift] \in Nat
          /\ changes'[t.event.lift] \in Nat /\ ticks'[t.event.lift] \in Nat
          /\ changes[t.event.lift] <= changes'[t.event.lift]
          /\ ticks[t.event.lift] <= ticks'[t.event.lift]
      BY <1>1 DEF Typed, TypeOK
    <2>4. /\ t.row.changes <= changes'[t.event.lift] + t.adds
          /\ t.row.ticks <= ticks'[t.event.lift]
      BY <1>1, <2>1, <2>2, <2>3
    <2> QED
      BY <2>4 DEF Sober
  <1> QED
    BY <1>2, <1>3

\* The same of all transactions, of which a step may end one.
LEMMA RumoursGrow ==
    ASSUME Typed, NoRumours,
           changes' \in [Lifts -> Nat], ticks' \in [Lifts -> Nat],
           \A l \in Lifts : changes[l] <= changes'[l] /\ ticks[l] <= ticks'[l],
           \A d \in Clients : tx'[d] \in {NoTx, tx[d]}
    PROVE  NoRumours'
  <1> SUFFICES ASSUME NEW d \in Clients, tx'[d] # NoTx PROVE Sober(tx[d])'
    BY DEF NoRumours
  <1>1. tx'[d] = tx[d] /\ tx[d] \in Tx /\ Sober(tx[d])
    BY TxKinds DEF NoRumours, Typed
  <1>2. PICK t \in Tx : t = tx[d] /\ t = tx'[d]
    BY <1>1
  <1>3. Sober(t)'
    BY <1>1, <1>2, SoberGrows
  <1> QED
    BY <1>2, <1>3 DEF Sober

\* A row that shows no more than the counts still does when they grow.
LEMMA PhantomsStayOut ==
    ASSUME Typed, NoPhantoms, shown' = shown,
           changes' \in [Lifts -> Nat], ticks' \in [Lifts -> Nat],
           \A l \in Lifts : changes[l] <= changes'[l] /\ ticks[l] <= ticks'[l]
    PROVE  NoPhantoms'
  <1> SUFFICES ASSUME NEW l \in Lifts, shown[l] # NoRow
               PROVE  shown[l].changes <= changes'[l] /\ shown[l].ticks <= ticks'[l]
    BY DEF NoPhantoms
  <1>1. shown[l] \in Row
    BY DEF Typed, TypeOK
  <1>2. shown[l].changes \in Nat /\ shown[l].ticks \in Nat
    BY <1>1 DEF Row
  <1> QED
    BY <1>2 DEF NoPhantoms, Typed, TypeOK

LEMMA CountsGrow ==
    ASSUME Typed, [Next]_vars
    PROVE  \A l \in Lifts : changes[l] <= changes'[l] /\ ticks[l] <= ticks'[l]
  <1> SUFFICES ASSUME NEW k \in Lifts
               PROVE  changes[k] <= changes'[k] /\ ticks[k] <= ticks'[k]
    OBVIOUS
  <1>0. changes[k] \in Nat /\ ticks[k] \in Nat
    BY DEF Typed, TypeOK
  <1>1. ASSUME NEW c \in Clients, Command(c) PROVE UNCHANGED <<changes, ticks>>
    BY <1>1, CommandSets
  <1>2. ASSUME NEW c \in Clients,
               \/ Snapshot(c) \/ Upsert(c) \/ Remove(c) \/ Respond(c) \/ SyncFails(c)
               \/ Abort(c) \/ CommitFailed(c)
        PROVE  UNCHANGED <<changes, ticks>>
    BY <1>2 DEF Snapshot, Upsert, Remove, Respond, SyncFails, Abort, CommitFailed, Step
  <1>3. ASSUME NEW c \in Clients, Commit(c)
        PROVE  changes[k] <= changes'[k] /\ ticks' = ticks
    <2>1. tx[c].adds \in {0, 1}
      BY <1>3, CommitWrites, TxFields
    <2> QED
      BY <1>0, <1>3, <2>1, CommitWrites DEF Typed, TypeOK
  <1>4. ASSUME NEW e \in tasks, Process(e) PROVE UNCHANGED <<changes, ticks>>
    BY <1>4 DEF Process
  <1>5. ASSUME NEW l \in Lifts, NEW s \in Status, Tick(l, s)
        PROVE  changes' = changes /\ ticks[k] <= ticks'[k]
    BY <1>0, <1>5 DEF Tick, Typed, TypeOK
  <1>6. CASE UNCHANGED vars
    BY <1>0, <1>6 DEF vars
  <1> QED
    BY <1>0, <1>1, <1>2, <1>3, <1>4, <1>5, <1>6 DEF Next, Finish

LEMMA RumoursNext ==
    ASSUME Typed, NoRumours, [Next]_vars
    PROVE  NoRumours'
  <1>0. \A d \in Clients : tx[d] # NoTx => Sober(tx[d])
    BY DEF NoRumours
  <1>1. ASSUME NEW c \in Clients, Command(c) PROVE NoRumours'
    <2>1. PICK t \in Tx : Beginning(t) /\ tx' = [tx EXCEPT ![c] = t]
      BY <1>1, CommandSets
    <2>2. Sober(t)
      BY <2>1 DEF Beginning, Sober
    <2> QED
      BY <1>1, <2>1, <2>2, CommandSets, SetSober
  <1>2. ASSUME NEW c \in Clients, Snapshot(c) PROVE NoRumours'
    <2>1. PICK u \in Tx : /\ tx' = [tx EXCEPT ![c] = u] /\ tx[c] \in Tx
                          /\ Moved(tx[c], u) /\ u.row = SeenBy(c)
      BY <1>2, SnapshotSets
    <2>2. tx[c] # NoTx
      BY <2>1, TxIsSome
    <2>3. /\ SeenBy(c).changes = changes[u.event.lift] + u.adds
          /\ SeenBy(c).ticks = ticks[u.event.lift]
          /\ SeenBy(c) \in Row
      BY <2>1, <2>2, SeenByType DEF Moved, LiftOf
    <2>4. Sober(u)
      BY <2>1, <2>3 DEF Sober, Row
    <2> QED
      BY <1>2, <2>1, <2>4, SetSober DEF Snapshot, Step
  <1>3. ASSUME NEW c \in Clients,
               Upsert(c) \/ Remove(c) \/ Respond(c) \/ SyncFails(c)
        PROVE  NoRumours'
    <2>1. PICK u \in Tx : /\ tx' = [tx EXCEPT ![c] = u] /\ tx[c] \in Tx
                          /\ Moved(tx[c], u) /\ u.row = tx[c].row
      <3>1. CASE Upsert(c)
        BY <3>1, UpsertSets
      <3>2. CASE Remove(c)
        BY <3>2, RemoveSets
      <3>3. CASE Respond(c)
        BY <3>3, RespondSets
      <3>4. CASE SyncFails(c)
        BY <3>4, SyncFailsSets
      <3> QED
        BY <1>3, <3>1, <3>2, <3>3, <3>4
    <2>2. Sober(tx[c])
      BY <1>0, <2>1, TxIsSome
    <2>3. Sober(u)
      BY <2>1, <2>2 DEF Sober, Moved
    <2> QED
      BY <1>3, <2>1, <2>3, SetSober DEF Upsert, Remove, Respond, SyncFails, Step
  <1>4. ASSUME \A d \in Clients : tx'[d] \in {NoTx, tx[d]} PROVE NoRumours'
    <2>1. changes' \in [Lifts -> Nat] /\ ticks' \in [Lifts -> Nat]
      BY NextTyped DEF Typed, TypeOK
    <2> QED
      BY <1>4, <2>1, CountsGrow, RumoursGrow
  <1>5. ASSUME NEW c \in Clients, Commit(c) \/ CommitFailed(c) \/ Abort(c)
        PROVE  NoRumours'
    <2>1. tx' = [tx EXCEPT ![c] = NoTx]
      BY <1>5 DEF Commit, CommitFailed, Abort, EndTx
    <2>2. \A d \in Clients : tx'[d] \in {NoTx, tx[d]}
      BY <2>1 DEF Typed, TypeOK
    <2> QED
      BY <1>4, <2>2
  <1>6. CASE tx' = tx
    BY <1>4, <1>6
  <1> QED
    BY <1>1, <1>2, <1>3, <1>5, <1>6 DEF Next, Finish, Process, Tick, vars

LEMMA PhantomsNext ==
    ASSUME Typed, NoRumours, NoPhantoms, [Next]_vars
    PROVE  NoPhantoms'
  <1>0. changes' \in [Lifts -> Nat] /\ ticks' \in [Lifts -> Nat]
    BY NextTyped DEF Typed, TypeOK
  <1>1. CASE shown' = shown
    BY <1>0, <1>1, CountsGrow, PhantomsStayOut
  <1>2. ASSUME NEW c \in Clients, Commit(c) PROVE NoPhantoms'
    <2> DEFINE l == LiftOf(c)
    <2>1. tx[c] \in Tx /\ tx[c] # NoTx /\ l \in Lifts /\ Sober(tx[c])
      BY <1>2, CommitWrites DEF NoRumours
    <2>2. CASE ~tx[c].holds
      BY <1>1, <1>2, <2>2, CommitWrites
    <2>3. CASE tx[c].holds
      <3> SUFFICES ASSUME NEW k \in Lifts, shown'[k] # NoRow
                   PROVE  shown'[k].changes <= changes'[k] /\ shown'[k].ticks <= ticks'[k]
        BY DEF NoPhantoms
      <3>1. shown' = [shown EXCEPT ![l] = tx[c].row]
        BY <1>2, <2>3, CommitWrites
      <3>2. changes' = [changes EXCEPT ![l] = @ + tx[c].adds] /\ ticks' = ticks
        BY <1>2, CommitWrites
      <3>3. CASE k = l
        BY <2>1, <3>1, <3>2, <3>3 DEF Sober, LiftOf, Typed, TypeOK
      <3>4. CASE k # l
        BY <3>1, <3>2, <3>4 DEF NoPhantoms, Typed, TypeOK
      <3> QED
        BY <3>3, <3>4
    <2> QED
      BY <2>2, <2>3
  <1>3. ASSUME NEW e \in tasks, Process(e), shown' # shown PROVE NoPhantoms'
    <2>1. /\ shown' = [shown EXCEPT ![e.lift] = Truth(e.lift)]
          /\ UNCHANGED <<changes, ticks>>
      BY <1>3 DEF Process
    <2> SUFFICES ASSUME NEW k \in Lifts, shown'[k] # NoRow
                 PROVE  shown'[k].changes <= changes'[k] /\ shown'[k].ticks <= ticks'[k]
      BY DEF NoPhantoms
    <2>2. changes[k] \in Nat /\ ticks[k] \in Nat
      BY DEF Typed, TypeOK
    <2>3. CASE k = e.lift
      BY <2>1, <2>2, <2>3 DEF Truth, Typed, TypeOK
    <2>4. CASE k # e.lift
      BY <2>1, <2>4 DEF NoPhantoms, Typed, TypeOK
    <2> QED
      BY <2>3, <2>4
  <1>4. ASSUME NEW c \in Clients,
               \/ Command(c) \/ Snapshot(c) \/ Upsert(c) \/ Remove(c) \/ Respond(c)
               \/ SyncFails(c) \/ Abort(c) \/ CommitFailed(c)
        PROVE  shown' = shown
    BY <1>4, CommandSets
       DEF Snapshot, Upsert, Remove, Respond, SyncFails, Abort, CommitFailed, Step
  <1> QED
    BY <1>1, <1>2, <1>3, <1>4 DEF Next, Finish, Tick, vars

\* The read model never shows a change that is not committed.
THEOREM ShowsOnlyCommitted == SafeSpec => []NoPhantoms
  <1> DEFINE I == Typed /\ NoRumours /\ NoPhantoms
  <1>1. Init => I
    <2>1. Init => NoRumours
      BY DEF Init, NoRumours
    <2>2. Init => NoPhantoms
      BY DEF Init, NoPhantoms
    <2> QED
      BY <2>1, <2>2, InitTyped
  <1>2. I /\ [Next]_vars => I'
    BY NextTyped, RumoursNext, PhantomsNext
  <1>3. I => NoPhantoms
    OBVIOUS
  <1> HIDE DEF I
  <1> QED
    BY <1>1, <1>2, <1>3, PTL DEF SafeSpec

-----------------------------------------------------------------------------
(* Who holds a row of lifts_read.                                          *)

\* A step that sets a transaction which holds the row only if the old one did
\* or nobody else does.
LEMMA SetHolder ==
    ASSUME Typed, OneHolder, NEW c \in Clients, NEW u \in Tx,
           tx' = [tx EXCEPT ![c] = u],
           u.holds => Holds(c, u.event.lift) \/ RowFreeFor(c, u.event.lift)
    PROVE  OneHolder'
  <1>0. ASSUME NEW d \in Clients, NEW l \in Lifts, d # c
        PROVE  Holds(d, l)' = Holds(d, l)
    BY <1>0 DEF Typed, TypeOK, Holds, LiftOf
  <1>1. ASSUME NEW l \in Lifts, Holds(c, l)'
        PROVE  u.holds /\ u.event.lift = l
    BY <1>1 DEF Typed, TypeOK, Holds, LiftOf
  <1>2. ASSUME NEW d \in Clients, NEW l \in Lifts, d # c, Holds(c, l)', Holds(d, l)'
        PROVE  FALSE
    <2>1. Holds(d, l)
      BY <1>0, <1>2
    <2>2. ~RowFreeFor(c, l)
      BY <1>2, <2>1 DEF RowFreeFor
    <2>3. Holds(c, l)
      BY <1>1, <1>2, <2>2
    <2> QED
      BY <1>2, <2>1, <2>3 DEF OneHolder
  <1>3. ASSUME NEW d \in Clients, NEW e \in Clients, NEW l \in Lifts, d # c, e # c,
               Holds(d, l)', Holds(e, l)'
        PROVE  d = e
    BY <1>0, <1>3 DEF OneHolder
  <1> QED
    BY <1>2, <1>3 DEF OneHolder

LEMMA HolderNext ==
    ASSUME Typed, OneHolder, [Next]_vars
    PROVE  OneHolder'
  <1>1. ASSUME NEW c \in Clients, Command(c) PROVE OneHolder'
    <2>1. PICK t \in Tx : Beginning(t) /\ tx' = [tx EXCEPT ![c] = t]
      BY <1>1, CommandSets
    <2>2. ~t.holds
      BY <2>1 DEF Beginning
    <2> QED
      BY <2>1, <2>2, SetHolder
  <1>2. ASSUME NEW c \in Clients, Upsert(c) PROVE OneHolder'
    <2>1. PICK u \in Tx : tx' = [tx EXCEPT ![c] = u] /\ Moved(tx[c], u)
      BY <1>2, UpsertSets
    <2>2. RowFreeFor(c, u.event.lift)
      BY <1>2, <2>1 DEF Upsert, Moved, LiftOf
    <2> QED
      BY <2>1, <2>2, SetHolder
  <1>3. ASSUME NEW c \in Clients, Remove(c) PROVE OneHolder'
    <2>1. PICK u \in Tx : /\ tx' = [tx EXCEPT ![c] = u] /\ Moved(tx[c], u)
                          /\ u.holds = (shown[LiftOf(c)] # NoRow)
      BY <1>3, RemoveSets
    <2>2. u.holds => RowFreeFor(c, u.event.lift)
      BY <1>3, <2>1 DEF Remove, Moved, LiftOf
    <2> QED
      BY <2>1, <2>2, SetHolder
  <1>4. ASSUME NEW c \in Clients, SyncFails(c) PROVE OneHolder'
    <2>1. PICK u \in Tx : tx' = [tx EXCEPT ![c] = u] /\ u.holds = FALSE
      BY <1>4, SyncFailsSets
    <2> QED
      BY <2>1, SetHolder
  <1>5. ASSUME NEW c \in Clients, NEW u \in Tx, tx' = [tx EXCEPT ![c] = u],
               tx[c] \in Tx, Moved(tx[c], u), u.holds = tx[c].holds
        PROVE  OneHolder'
    <2>1. u.holds => Holds(c, u.event.lift)
      BY <1>5, TxIsSome DEF Holds, Moved, LiftOf
    <2> QED
      BY <1>5, <2>1, SetHolder
  <1>6. ASSUME NEW c \in Clients, Snapshot(c) PROVE OneHolder'
    BY <1>5, <1>6, SnapshotSets
  <1>7. ASSUME NEW c \in Clients, Respond(c) PROVE OneHolder'
    BY <1>5, <1>7, RespondSets
  <1>8. ASSUME \A d \in Clients : tx'[d] \in {NoTx, tx[d]} PROVE OneHolder'
    BY <1>8 DEF OneHolder, Holds, LiftOf
  <1>9. ASSUME NEW c \in Clients, Commit(c) \/ CommitFailed(c) \/ Abort(c)
        PROVE  OneHolder'
    <2>1. tx' = [tx EXCEPT ![c] = NoTx]
      BY <1>9 DEF Commit, CommitFailed, Abort, EndTx
    <2>2. \A d \in Clients : tx'[d] \in {NoTx, tx[d]}
      BY <2>1 DEF Typed, TypeOK
    <2> QED
      BY <1>8, <2>2
  <1>10. CASE tx' = tx
    BY <1>8, <1>10
  <1> QED
    BY <1>1, <1>2, <1>3, <1>4, <1>6, <1>7, <1>9, <1>10 DEF Next, Finish, Process, Tick, vars

-----------------------------------------------------------------------------
(* The second look is exact.                                               *)

\* A command that has had its second look holds the row.
LEMMA SecondLookHolds ==
    ASSUME Typed, NEW c \in Clients, tx[c] # NoTx, SecondLook(tx[c])
    PROVE  /\ tx[c] \in Tx /\ LiftOf(c) \in Lifts
           /\ Holds(c, LiftOf(c))
  <1>1. tx[c] \in Tx /\ LiftOf(c) \in Lifts /\ Orderly(tx[c])
    BY TxKinds DEF Typed
  <1>2. tx[c].synced > 0 /\ ~tx[c].failed
    BY DEF SecondLook
  <1> QED
    BY <1>1, <1>2 DEF Orderly, Holds

\* A step that writes nothing but a client's transaction, if what it sets is
\* exact.
LEMMA SetExact ==
    ASSUME Typed, SecondLookExact, NEW c \in Clients, NEW u \in Tx,
           SecondLook(u) => Exact(u),
           tx' = [tx EXCEPT ![c] = u], UNCHANGED <<lift, changes, ticks>>
    PROVE  SecondLookExact'
  <1> SUFFICES ASSUME NEW d \in Clients, tx'[d] # NoTx, SecondLook(tx'[d])
               PROVE  Exact(tx[d])'
    BY DEF SecondLookExact, SecondLook
  <1>1. CASE d = c
    BY <1>1 DEF Typed, TypeOK, Exact
  <1>2. CASE d # c
    BY <1>2 DEF Typed, TypeOK, SecondLookExact, Exact
  <1> QED
    BY <1>1, <1>2

\* A step under which every transaction that goes on keeps its lift as it was.
LEMMA KeepExact ==
    ASSUME Typed, SecondLookExact,
           \A d \in Clients :
              \/ tx'[d] = NoTx
              \/ /\ tx'[d] = tx[d]
                 /\ tx[d] # NoTx /\ SecondLook(tx[d]) =>
                      /\ lift'[LiftOf(d)] = lift[LiftOf(d)]
                      /\ changes'[LiftOf(d)] = changes[LiftOf(d)]
                      /\ ticks'[LiftOf(d)] = ticks[LiftOf(d)]
    PROVE  SecondLookExact'
  <1> SUFFICES ASSUME NEW d \in Clients, tx'[d] # NoTx, SecondLook(tx'[d])
               PROVE  Exact(tx[d])'
    BY DEF SecondLookExact, SecondLook
  <1>1. tx'[d] = tx[d] /\ Exact(tx[d])
    BY DEF SecondLookExact
  <1> QED
    BY <1>1 DEF Exact, LiftOf

LEMMA ExactNext ==
    ASSUME Typed, OneHolder, SecondLookExact, [Next]_vars
    PROVE  SecondLookExact'
  <1>0. \A d \in Clients : tx[d] # NoTx /\ SecondLook(tx[d]) => Exact(tx[d])
    BY DEF SecondLookExact
  <1>1. ASSUME NEW c \in Clients, Command(c) PROVE SecondLookExact'
    <2>1. PICK t \in Tx : Beginning(t) /\ tx' = [tx EXCEPT ![c] = t]
      BY <1>1, CommandSets
    <2>2. ~SecondLook(t)
      BY <2>1 DEF Beginning, SecondLook
    <2> QED
      BY <1>1, <2>1, <2>2, CommandSets, SetExact
  <1>2. ASSUME NEW c \in Clients, Snapshot(c) PROVE SecondLookExact'
    <2>1. PICK u \in Tx : /\ tx' = [tx EXCEPT ![c] = u] /\ tx[c] \in Tx
                          /\ Moved(tx[c], u) /\ u.row = SeenBy(c)
                          /\ u.locks = tx[c].locks
      BY <1>2, SnapshotSets
    <2>2. tx[c] # NoTx
      BY <2>1, TxIsSome
    <2>3. u.event.lift \in Lifts
      BY TxFields
    <2>4. /\ SeenBy(c) \in Row
          /\ SeenBy(c).changes = changes[u.event.lift] + u.adds
          /\ SeenBy(c).ticks = ticks[u.event.lift]
          /\ SeenBy(c).status = IF u.locks THEN u.status ELSE lift[u.event.lift]
      BY <2>1, <2>2, SeenByType DEF Moved, LiftOf
    <2>5. SecondLook(u) => Exact(u)
      <3>1. ticks[u.event.lift] \in Nat
        BY <2>3 DEF Typed, TypeOK
      <3> QED
        BY <2>1, <2>4, <3>1 DEF SecondLook, Exact
    <2> QED
      BY <1>2, <2>1, <2>5, SetExact DEF Snapshot, Step
  <1>3. ASSUME NEW c \in Clients, NEW u \in Tx, tx' = [tx EXCEPT ![c] = u],
               tx[c] \in Tx, Moved(tx[c], u), u.row = tx[c].row, u.locks = tx[c].locks,
               SecondLook(u) => SecondLook(tx[c]), UNCHANGED <<lift, changes, ticks>>
        PROVE  SecondLookExact'
    <2>1. SecondLook(u) => Exact(tx[c])
      BY <1>0, <1>3, TxIsSome
    <2>2. SecondLook(u) => Exact(u)
      BY <1>3, <2>1 DEF Exact, Moved
    <2> QED
      BY <1>3, <2>2, SetExact
  <1>4. ASSUME NEW c \in Clients, Upsert(c) PROVE SecondLookExact'
    <2>1. PICK u \in Tx : /\ tx' = [tx EXCEPT ![c] = u] /\ tx[c] \in Tx
                          /\ tx[c].pc = "upsert" /\ u.pc \in {"sync", "done"}
                          /\ Moved(tx[c], u) /\ u.row = tx[c].row
                          /\ u.synced = tx[c].synced + 1
                          /\ u.locks = tx[c].locks /\ u.failed = tx[c].failed
      BY <1>4, UpsertSets
    <2>2. tx[c].synced \in 0..2
      BY <2>1, TxFields
    <2>3. SecondLook(u) => SecondLook(tx[c])
      BY <2>1, <2>2 DEF SecondLook, Moved
    <2> QED
      BY <1>3, <1>4, <2>1, <2>3 DEF Upsert, Step
  <1>5. ASSUME NEW c \in Clients, Remove(c) PROVE SecondLookExact'
    <2>1. PICK u \in Tx : /\ tx' = [tx EXCEPT ![c] = u] /\ tx[c] \in Tx
                          /\ tx[c].pc = "remove" /\ Moved(tx[c], u)
      BY <1>5, RemoveSets
    <2>2. Orderly(tx[c])
      BY <2>1, TxIsSome DEF Typed
    <2>3. ~SecondLook(u)
      BY <2>1, <2>2 DEF Orderly, SecondLook, Moved
    <2> QED
      BY <1>5, <2>1, <2>3, SetExact DEF Remove, Step
  <1>6. ASSUME NEW c \in Clients, Respond(c) PROVE SecondLookExact'
    <2>1. PICK u \in Tx : /\ tx' = [tx EXCEPT ![c] = u] /\ tx[c] \in Tx
                          /\ u.pc = "told" /\ Moved(tx[c], u) /\ u.row = tx[c].row
                          /\ u.synced = tx[c].synced
                          /\ u.locks = tx[c].locks /\ u.failed = tx[c].failed
      BY <1>6, RespondSets
    <2>2. SecondLook(u) => SecondLook(tx[c])
      BY <2>1 DEF SecondLook, Moved
    <2> QED
      BY <1>3, <1>6, <2>1, <2>2 DEF Respond, Step
  <1>7. ASSUME NEW c \in Clients, SyncFails(c) PROVE SecondLookExact'
    <2>1. PICK u \in Tx : tx' = [tx EXCEPT ![c] = u] /\ u.failed = TRUE
      BY <1>7, SyncFailsSets
    <2>2. ~SecondLook(u)
      BY <2>1 DEF SecondLook
    <2> QED
      BY <1>7, <2>1, <2>2, SetExact DEF SyncFails, Step
  <1>8. ASSUME NEW c \in Clients, CommitFailed(c) \/ Abort(c) PROVE SecondLookExact'
    <2>1. tx' = [tx EXCEPT ![c] = NoTx] /\ UNCHANGED <<lift, changes, ticks>>
      BY <1>8 DEF CommitFailed, Abort, EndTx
    <2>2. \A d \in Clients : tx'[d] = NoTx \/ tx'[d] = tx[d]
      BY <2>1 DEF Typed, TypeOK
    <2> QED
      BY <2>1, <2>2, KeepExact
  <1>9. ASSUME NEW c \in Clients, Commit(c) PROVE SecondLookExact'
    <2> DEFINE l == LiftOf(c)
    <2>1. /\ tx[c] \in Tx /\ tx[c] # NoTx /\ l \in Lifts /\ Orderly(tx[c])
          /\ ~tx[c].failed /\ tx[c].synced = tx[c].syncs
          /\ lift' = IF tx[c].locks THEN [lift EXCEPT ![l] = tx[c].status] ELSE lift
          /\ changes' = [changes EXCEPT ![l] = @ + tx[c].adds]
          /\ EndTx(c) /\ ticks' = ticks
      BY <1>9, CommitWrites
    <2>2. tx[c].adds \in {0, 1} /\ tx[c].syncs \in 0..2
      BY <2>1, TxFields
    \* A command that changes the lift or its counts holds the row.
    <2>3. CASE Holds(c, l)
      <3> SUFFICES ASSUME NEW d \in Clients, d # c, tx[d] # NoTx, SecondLook(tx[d])
                   PROVE  /\ lift'[LiftOf(d)] = lift[LiftOf(d)]
                          /\ changes'[LiftOf(d)] = changes[LiftOf(d)]
        <4>1. \A d \in Clients : tx'[d] = IF d = c THEN NoTx ELSE tx[d]
          BY <2>1 DEF EndTx, Typed, TypeOK
        <4> QED
          BY <2>1, <4>1, KeepExact
      <3>1. LiftOf(d) \in Lifts /\ Holds(d, LiftOf(d))
        BY SecondLookHolds
      <3>2. LiftOf(d) # l
        BY <2>1, <2>3, <3>1 DEF OneHolder
      <3> QED
        BY <2>1, <3>1, <3>2 DEF Typed, TypeOK
    <2>4. CASE ~Holds(c, l)
      <3>1. tx[c].syncs = 0
        BY <2>1, <2>2, <2>4 DEF Orderly, Holds
      <3>2. ~tx[c].locks /\ tx[c].adds = 0
        BY <2>1, <2>2, <3>1 DEF Orderly
      <3>3. lift' = lift /\ changes' = changes
        BY <2>1, <3>2 DEF Typed, TypeOK
      <3>4. \A d \in Clients : tx'[d] = NoTx \/ tx'[d] = tx[d]
        BY <2>1 DEF EndTx, Typed, TypeOK
      <3> QED
        BY <2>1, <3>3, <3>4, KeepExact
    <2> QED
      BY <2>3, <2>4
  <1>10. ASSUME NEW e \in tasks, Process(e) PROVE SecondLookExact'
    BY <1>10, KeepExact DEF Process
  <1>11. ASSUME NEW l \in Lifts, NEW s \in Status, Tick(l, s) PROVE SecondLookExact'
    <2> SUFFICES ASSUME NEW d \in Clients, tx[d] # NoTx, SecondLook(tx[d])
                 PROVE  Exact(tx[d])'
      BY <1>11 DEF Tick, SecondLookExact, SecondLook
    <2>1. tx[d] \in Tx /\ LiftOf(d) \in Lifts /\ Exact(tx[d])
      BY <1>0, SecondLookHolds
    <2>2. tx[d].row.ticks \in Nat /\ ticks[LiftOf(d)] \in Nat
      BY <2>1 DEF Exact, Row, Typed, TypeOK
    <2>3. CASE LiftOf(d) = l
      <3>1. ticks'[l] = ticks[l] + 1 /\ UNCHANGED <<changes, tx>>
        BY <1>11 DEF Tick, Typed, TypeOK
      <3>2. tx[d].row.ticks <= ticks[l]
        BY <2>1, <2>3 DEF Exact, LiftOf
      <3>3. tx[d].row.ticks <= ticks'[l] /\ tx[d].row.ticks # ticks'[l]
        BY <2>2, <2>3, <3>1, <3>2
      <3> QED
        BY <2>1, <2>3, <3>1, <3>3 DEF Exact, LiftOf
    <2>4. CASE LiftOf(d) # l
      <3>1. /\ ticks'[LiftOf(d)] = ticks[LiftOf(d)] /\ lift'[LiftOf(d)] = lift[LiftOf(d)]
            /\ UNCHANGED <<changes, tx>>
        BY <1>11, <2>1, <2>4 DEF Tick, Typed, TypeOK
      <3> QED
        BY <2>1, <3>1 DEF Exact, LiftOf
    <2> QED
      BY <2>3, <2>4
  <1>12. CASE UNCHANGED vars
    BY <1>12, KeepExact DEF vars
  <1> QED
    BY <1>1, <1>2, <1>4, <1>5, <1>6, <1>7, <1>8, <1>9, <1>10, <1>11, <1>12
       DEF Next, Finish

\* A commit of such a command leaves the row exact.
LEMMA CommitExact ==
    ASSUME Typed, SecondLookExact, NEW c \in Clients, NEW l \in Lifts,
           Commit(c), LiftOf(c) = l, tx[c].adds > 0
    PROVE  shown'[l] = Truth(l)' \/ shown'[l].ticks < ticks'[l]
  <1>1. /\ tx[c] \in Tx /\ tx[c] # NoTx /\ Orderly(tx[c])
        /\ ~tx[c].failed /\ tx[c].synced = tx[c].syncs
        /\ lift' = IF tx[c].locks THEN [lift EXCEPT ![l] = tx[c].status] ELSE lift
        /\ changes' = [changes EXCEPT ![l] = @ + tx[c].adds]
        /\ shown' = IF tx[c].holds THEN [shown EXCEPT ![l] = tx[c].row] ELSE shown
        /\ ticks' = ticks
    BY CommitWrites
  <1>2. tx[c].adds \in {0, 1}
    BY <1>1, TxFields
  <1>3. tx[c].adds = 1 /\ tx[c].synced = 2 /\ tx[c].holds
    BY <1>1, <1>2 DEF Orderly
  <1>4. Exact(tx[c])
    BY <1>1, <1>3 DEF SecondLook, SecondLookExact
  <1> DEFINE r == tx[c].row
  <1>5. shown'[l] = r
    BY <1>1, <1>3 DEF Typed, TypeOK
  <1>6. /\ r \in Row /\ r.changes = changes[l] + 1 /\ r.ticks <= ticks[l]
        /\ r.ticks = ticks[l] => r.status = IF tx[c].locks THEN tx[c].status ELSE lift[l]
    BY <1>4 DEF Exact, LiftOf
  <1>7. changes'[l] = changes[l] + 1
    BY <1>1, <1>3 DEF Typed, TypeOK
  <1>8. lift'[l] = IF tx[c].locks THEN tx[c].status ELSE lift[l]
    BY <1>1 DEF Typed, TypeOK
  <1> HIDE DEF r
  <1>9. CASE r.ticks = ticks[l]
    <2>1. /\ r.status = lift'[l] /\ r.changes = changes'[l] /\ r.ticks = ticks'[l]
      BY <1>1, <1>6, <1>7, <1>8, <1>9
    <2>2. r = [status |-> lift'[l], changes |-> changes'[l], ticks |-> ticks'[l]]
      BY <1>6, <2>1 DEF Row
    <2> QED
      BY <1>5, <2>2 DEF Truth
  <1>10. CASE r.ticks # ticks[l]
    <2>1. r.ticks \in Nat /\ ticks[l] \in Nat
      BY <1>6 DEF Row, Typed, TypeOK
    <2> QED
      BY <1>1, <1>5, <1>6, <1>10, <2>1
  <1> QED
    BY <1>9, <1>10

\* A command that changes what a lift's counts depend on leaves its row exact
\* when it commits, but for a tick, whatever runs at the same time.
THEOREM CountsAreExact == SafeSpec => CountedChangesAreShown
  <1> DEFINE I == Typed /\ OneHolder /\ SecondLookExact
             A == \A c \in Clients, l \in Lifts :
                    Commit(c) /\ LiftOf(c) = l /\ tx[c].adds > 0 =>
                      shown'[l] = Truth(l)' \/ shown'[l].ticks < ticks'[l]
  <1>1. Init => I
    <2>1. Init => OneHolder
      BY DEF Init, OneHolder, Holds
    <2>2. Init => SecondLookExact
      BY DEF Init, SecondLookExact
    <2> QED
      BY <2>1, <2>2, InitTyped
  <1>2. I /\ [Next]_vars => I'
    BY NextTyped, HolderNext, ExactNext
  <1>3. I /\ [Next]_vars => [A]_vars
    BY CommitExact
  <1> HIDE DEF I
  <1>4. SafeSpec => [][A]_vars
    BY <1>1, <1>2, <1>3, PTL DEF SafeSpec
  <1> QED
    BY <1>4 DEF CountedChangesAreShown

-----------------------------------------------------------------------------
(* The refinement of RefreshedView.                                        *)

\* What a transaction is about to show: nothing if it rebuilds no row, and the
\* columns it wrote if it wrote some.
Telling(t) ==
    /\ t.synced > 0 \/ t.pc = "upsert" => t.row # NoRow
    /\ t.syncs = 0 => t.row = NoRow
    /\ t.locks /\ t.row # NoRow => t.row.status = t.status

RowsTell == \A c \in Clients : tx[c] # NoTx => Telling(tx[c])

LEMMA SetTells ==
    ASSUME Typed, RowsTell, NEW c \in Clients, NEW u \in Tx, Telling(u),
           tx' = [tx EXCEPT ![c] = u]
    PROVE  RowsTell'
  <1> SUFFICES ASSUME NEW d \in Clients, tx'[d] # NoTx PROVE Telling(tx'[d])
    BY DEF RowsTell, Telling
  <1>1. CASE d = c
    BY <1>1 DEF Typed, TypeOK
  <1>2. CASE d # c
    BY <1>2 DEF Typed, TypeOK, RowsTell
  <1> QED
    BY <1>1, <1>2

LEMMA RowIsSome == ASSUME NEW r \in Row PROVE r # NoRow
  BY ReadModelAssumption DEF Row

LEMMA TellsNext ==
    ASSUME Typed, RowsTell, [Next]_vars
    PROVE  RowsTell'
  <1>0. \A d \in Clients : tx[d] # NoTx => Telling(tx[d]) /\ Orderly(tx[d])
    BY DEF RowsTell, Typed
  <1>1. ASSUME NEW c \in Clients, Command(c) PROVE RowsTell'
    <2>1. PICK t \in Tx : Beginning(t) /\ tx' = [tx EXCEPT ![c] = t]
      BY <1>1, CommandSets
    <2>2. Telling(t)
      BY <2>1 DEF Beginning, Telling
    <2> QED
      BY <2>1, <2>2, SetTells
  <1>2. ASSUME NEW c \in Clients, Snapshot(c) PROVE RowsTell'
    <2>1. PICK u \in Tx : /\ tx' = [tx EXCEPT ![c] = u] /\ tx[c] \in Tx
                          /\ u.pc = "upsert" /\ Moved(tx[c], u) /\ Orderly(u)
                          /\ u.row = SeenBy(c) /\ u.locks = tx[c].locks
      BY <1>2, SnapshotSets
    <2>2. /\ u.row # NoRow
          /\ u.locks => u.row.status = u.status
      BY <2>1, TxIsSome, SeenByType, RowIsSome DEF Moved
    <2>3. u.syncs # 0
      BY <2>1, TxFields DEF Orderly
    <2>4. Telling(u)
      BY <2>2, <2>3 DEF Telling
    <2> QED
      BY <2>1, <2>4, SetTells
  <1>3. ASSUME NEW c \in Clients, Upsert(c) PROVE RowsTell'
    <2>1. PICK u \in Tx : /\ tx' = [tx EXCEPT ![c] = u] /\ tx[c] \in Tx
                          /\ tx[c].pc = "upsert" /\ Moved(tx[c], u)
                          /\ u.row = tx[c].row /\ u.locks = tx[c].locks
      BY <1>3, UpsertSets
    <2>2. Telling(tx[c])
      BY <1>0, <2>1, TxIsSome
    <2>3. Telling(u)
      BY <2>1, <2>2 DEF Telling, Moved
    <2> QED
      BY <2>1, <2>3, SetTells
  <1>4. ASSUME NEW c \in Clients, NEW u \in Tx, tx' = [tx EXCEPT ![c] = u],
               tx[c] \in Tx, u.pc # "upsert", Moved(tx[c], u), u.row = tx[c].row,
               u.synced = tx[c].synced, u.locks => tx[c].locks
        PROVE  RowsTell'
    <2>1. Telling(tx[c])
      BY <1>0, <1>4, TxIsSome
    <2>2. Telling(u)
      BY <1>4, <2>1 DEF Telling, Moved
    <2> QED
      BY <1>4, <2>2, SetTells
  <1>5. ASSUME NEW c \in Clients, Remove(c) PROVE RowsTell'
    BY <1>4, <1>5, RemoveSets
  <1>6. ASSUME NEW c \in Clients, Respond(c) PROVE RowsTell'
    BY <1>4, <1>6, RespondSets
  <1>7. ASSUME NEW c \in Clients, SyncFails(c) PROVE RowsTell'
    BY <1>4, <1>7, SyncFailsSets
  <1>8. ASSUME \A d \in Clients : tx'[d] \in {NoTx, tx[d]} PROVE RowsTell'
    BY <1>8 DEF RowsTell, Telling
  <1>9. ASSUME NEW c \in Clients, Commit(c) \/ CommitFailed(c) \/ Abort(c)
        PROVE  RowsTell'
    <2>1. tx' = [tx EXCEPT ![c] = NoTx]
      BY <1>9 DEF Commit, CommitFailed, Abort, EndTx
    <2>2. \A d \in Clients : tx'[d] \in {NoTx, tx[d]}
      BY <2>1 DEF Typed, TypeOK
    <2> QED
      BY <1>8, <2>2
  <1>10. CASE tx' = tx
    BY <1>8, <1>10
  <1> QED
    BY <1>1, <1>2, <1>3, <1>5, <1>6, <1>7, <1>9, <1>10 DEF Next, Finish, Process, Tick, vars

\* A commit is a change with its refresh, the removal of a row, or nothing.
LEMMA CommitIsOneStep ==
    ASSUME Typed, NoRumours, SecondLookExact, RowsTell, NEW c \in Clients, Commit(c)
    PROVE  \/ View!Change(LiftOf(c)) \/ View!Remove(LiftOf(c))
           \/ UNCHANGED View!viewVars
  <1> DEFINE t == tx[c]
             l == LiftOf(c)
             status == IF t.locks THEN t.status ELSE lift[l]
  <1>1. /\ t \in Tx /\ t # NoTx /\ l \in Lifts /\ Orderly(t)
        /\ ~t.failed /\ t.synced = t.syncs
        /\ lift' = IF t.locks THEN [lift EXCEPT ![l] = t.status] ELSE lift
        /\ changes' = [changes EXCEPT ![l] = @ + t.adds]
        /\ shown' = IF t.holds THEN [shown EXCEPT ![l] = t.row] ELSE shown
        /\ ticks' = ticks
    BY CommitWrites
  <1>2. Telling(t) /\ Sober(t) /\ (SecondLook(t) => Exact(t))
    BY <1>1 DEF RowsTell, NoRumours, SecondLookExact
  <1>3. /\ t.status \in Status /\ t.adds \in {0, 1} /\ t.syncs \in 0..2
        /\ t.row \in Row \union {NoRow}
    BY <1>1, TxFields
  <1>4. t.event.lift = l
    BY DEF LiftOf
  <1>5. lift[l] \in Status /\ changes[l] \in Nat /\ ticks[l] \in Nat
    BY <1>1 DEF Typed, TypeOK
  <1> HIDE DEF l, t
  <1>6. CASE t.syncs = 0
    <2>1. t.row = NoRow /\ ~t.locks /\ t.adds = 0
      BY <1>1, <1>2, <1>3, <1>6 DEF Telling, Orderly
    <2>2. lift' = lift /\ changes' = changes
      BY <1>1, <1>5, <2>1 DEF Typed, TypeOK
    <2>3. CASE t.holds
      BY <1>1, <2>1, <2>2, <2>3 DEF View!Remove, l
    <2>4. CASE ~t.holds
      BY <1>1, <2>2, <2>4 DEF View!viewVars
    <2> QED
      BY <2>3, <2>4
  <1>7. CASE t.syncs > 0
    <2>1. t.holds /\ t.row # NoRow /\ t.row \in Row
      BY <1>1, <1>2, <1>3, <1>7 DEF Telling, Orderly
    <2>2. status \in Status
      BY <1>3, <1>5
    <2>3. t.row \in [status : Status, changes : 0..(changes[l] + t.adds), ticks : 0..ticks[l]]
      <3>1. t.row.changes <= changes[l] + t.adds /\ t.row.ticks <= ticks[l]
        BY <1>2, <1>4, <2>1 DEF Sober
      <3>2. /\ t.row = [status |-> t.row.status, changes |-> t.row.changes,
                        ticks |-> t.row.ticks]
            /\ t.row.status \in Status /\ t.row.changes \in Nat /\ t.row.ticks \in Nat
        BY <2>1 DEF Row
      <3>3. t.row.changes \in 0..(changes[l] + t.adds) /\ t.row.ticks \in 0..ticks[l]
        BY <1>3, <1>5, <3>1, <3>2
      <3> QED
        BY <3>2, <3>3
    <2>4. View!Shows(l, t.row, status, t.adds)
      <3>1. status # lift[l] => t.row.status = status
        BY <1>2, <2>1 DEF Telling
      <3>2. t.adds = 1 => Exact(t)
        BY <1>1, <1>2 DEF SecondLook, Orderly
      <3>3. t.adds = 1 => /\ t.row.changes = changes[l] + 1
                          /\ t.row.ticks = ticks[l] => t.row.status = status
        BY <1>4, <3>2 DEF Exact
      <3> QED
        BY <3>1, <3>3 DEF View!Shows
    <2>5. lift' = [lift EXCEPT ![l] = status]
      BY <1>1, <1>5 DEF Typed, TypeOK
    <2>6. shown' = [shown EXCEPT ![l] = t.row]
      BY <1>1, <2>1
    <2> HIDE DEF status
    <2>7. View!Change(l)
      BY <1>1, <1>3, <2>2, <2>3, <2>4, <2>5, <2>6 DEF View!Change
    <2> QED
      BY <2>7 DEF l
  <1> QED
    BY <1>3, <1>6, <1>7

LEMMA ViewNext ==
    ASSUME Typed, NothingLeftPending, NoRumours, SecondLookExact, RowsTell, [Next]_vars
    PROVE  [View!Next]_View!viewVars
  <1>1. ASSUME NEW c \in Clients, Command(c) PROVE UNCHANGED View!viewVars
    BY <1>1, CommandSets DEF View!viewVars
  <1>2. ASSUME NEW c \in Clients,
               \/ Snapshot(c) \/ Upsert(c) \/ Remove(c) \/ Respond(c) \/ SyncFails(c)
               \/ Abort(c) \/ CommitFailed(c)
        PROVE  UNCHANGED View!viewVars
    BY <1>2 DEF Snapshot, Upsert, Remove, Respond, SyncFails, Abort, CommitFailed, Step,
                View!viewVars
  <1>3. ASSUME NEW c \in Clients, Commit(c) PROVE [View!Next]_View!viewVars
    <2>1. LiftOf(c) \in Lifts
      BY <1>3, CommitWrites
    <2> QED
      BY <1>3, <2>1, CommitIsOneStep DEF View!Next
  <1>4. ASSUME NEW e \in tasks, Process(e) PROVE UNCHANGED View!viewVars
    BY <1>4 DEF NothingLeftPending, Process, View!viewVars
  <1>5. ASSUME NEW l \in Lifts, NEW s \in Status, Tick(l, s) PROVE View!Next
    <2>1. View!Tick(l)
      BY <1>5 DEF Tick, View!Tick
    <2> QED
      BY <2>1 DEF View!Next
  <1>6. CASE UNCHANGED vars
    BY <1>6 DEF vars, View!viewVars
  <1> QED
    BY <1>1, <1>2, <1>3, <1>4, <1>5, <1>6 DEF Next, Finish

\* To who sees only what is committed, a command and the refresh of its lift's
\* row are one step, for any number of commands in flight.
THEOREM ImplementsRefreshedView == SafeSpec => ImplementsView
  <1> DEFINE I == /\ Typed /\ NothingLeftPending /\ NoRumours /\ OneHolder
                  /\ SecondLookExact /\ RowsTell
  <1>1. Init => I
    BY InitTyped DEF Init, NothingLeftPending, NoRumours, OneHolder, Holds,
                     SecondLookExact, RowsTell
  <1>2. I /\ [Next]_vars => I'
    BY NextTyped, PendingNext, RumoursNext, HolderNext, ExactNext, TellsNext
  <1>3. Init => View!Init
    BY DEF Init, View!Init
  <1>4. I /\ [Next]_vars => [View!Next]_View!viewVars
    BY ViewNext
  <1> HIDE DEF I
  <1> QED
    BY <1>1, <1>2, <1>3, <1>4, PTL DEF SafeSpec, ImplementsView, View!Spec
=============================================================================
