------------------------------ MODULE ReadModel ------------------------------
(***************************************************************************)
(* Commands, the event log and the read model: application/services.py,    *)
(* events/publisher.py, events/handlers.py and read_sync.py, seen from the *)
(* row of a lift in lifts_read.                                            *)
(*                                                                         *)
(* A command writes the write model, inserts its domain events into the    *)
(* log and applies them to the read model, all in one READ COMMITTED       *)
(* transaction; the answer goes out, then get_session commits, and a hook  *)
(* queues a task per event for a worker.  Applying an event rebuilds the   *)
(* lift's row by an INSERT ... SELECT ... ON CONFLICT DO UPDATE: the       *)
(* SELECT counts in the statement's snapshot, then the UPDATE waits for    *)
(* whoever holds the row.                                                  *)
(*                                                                         *)
(* What a row shows of a lift is its columns and how many changes of the   *)
(* rows it counts (sensors, events, requests) it knows of, those of the    *)
(* commands and those of the sensor simulation apart.                      *)
(***************************************************************************)
EXTENDS Integers

CONSTANTS Lifts,
          Clients,      \* commands that can be in flight at a time
          Status,       \* values of the columns of a lift
          NoRow,        \* there is no row
          MaxCommands,  \* bound: commands
          MaxTicks      \* bound: ticks that change a lift

ASSUME ReadModelAssumption ==
    /\ MaxCommands \in Nat /\ MaxTicks \in Nat
    /\ NoRow \notin [status : Status, changes : Nat, ticks : Nat]

VARIABLES
    lift,       \* lift[l]: the columns of the lift
    changes,    \* changes[l]: changes commands made to the rows counted
    ticks,      \* ticks[l]: changes the simulation made
    shown,      \* shown[l]: the lift's row in lifts_read
    issued,     \* the last id given in domain_events_log
    pending,    \* events in the log that are not set to processed
    tasks,      \* tasks of the worker
    tx          \* tx[c]: the client's transaction

vars == <<lift, changes, ticks, shown, issued, pending, tasks, tx>>

Row == [status : Status, changes : Nat, ticks : Nat]
DomainEvent == [id : Nat, lift : Lifts]

NoTx == [pc |-> "none"]
Tx == [pc : {"sync", "upsert", "remove", "done", "told"},
       event : DomainEvent,      \* the command's events: they share its fate
       status : Status,          \* the columns it wrote,
       locks : BOOLEAN,          \* if it changed them and holds the lift
       adds : {0, 1},            \* changes it made to the rows counted
       syncs : 0..2,             \* how often it rebuilds the row
       synced : 0..2,            \* and did so far
       row : Row \union {NoRow}, \* what its last snapshot or rebuild says
       holds : BOOLEAN,          \* it wrote the row and holds it
       failed : BOOLEAN]         \* a statement failed: all of it is undone

Init ==
    /\ lift \in [Lifts -> Status]
    /\ changes = [l \in Lifts |-> 0]
    /\ ticks = [l \in Lifts |-> 0]
    /\ shown = [l \in Lifts |-> [status |-> lift[l], changes |-> 0, ticks |-> 0]]
    /\ issued = 0
    /\ pending = {} /\ tasks = {}
    /\ tx = [c \in Clients |-> NoTx]

\* The row a rebuild of lifts_read would give.
Truth(l) == [status |-> lift[l], changes |-> changes[l], ticks |-> ticks[l]]

-----------------------------------------------------------------------------
(* Row locks.                                                              *)

LiftOf(c) == tx[c].event.lift
Holds(c, l) == tx[c] # NoTx /\ tx[c].holds /\ LiftOf(c) = l
HoldsLift(c, l) == tx[c] # NoTx /\ tx[c].locks /\ LiftOf(c) = l

RowFreeFor(c, l) == \A d \in Clients \ {c} : ~Holds(d, l)
LiftFree(l) == \A d \in Clients : ~HoldsLift(d, l)

-----------------------------------------------------------------------------
(* The commands, up to publish: the write model is written and flushed.    *)

Start(c, l, pc, status, adds, syncs) ==
    /\ tx[c] = NoTx
    /\ issued < MaxCommands
    /\ status # lift[l] => LiftFree(l)
    /\ issued' = issued + 1
    /\ tx' = [tx EXCEPT ![c] =
                [pc |-> pc, event |-> [id |-> issued + 1, lift |-> l], status |-> status,
                 locks |-> status # lift[l], adds |-> adds, syncs |-> syncs, synced |-> 0,
                 row |-> NoRow, holds |-> FALSE, failed |-> FALSE]]
    /\ UNCHANGED <<lift, changes, ticks, shown, pending, tasks>>

\* LiftCommandService.update, and a restore that touches no sensor: the one
\* event LiftUpdated.
PatchLift(c, l, status) == Start(c, l, "sync", status, 0, 1)

\* A plausible bug: the second rebuild is dropped as a repetition.
ChangeChildOnce(c, l) == Start(c, l, "sync", lift[l], 1, 1)

\* A sensor, an event or a request is created or updated: its own event
\* rebuilds the lift's row, and so does the LiftUpdated that follows.
ChangeChild(c, l) == Start(c, l, "sync", lift[l], 1, 2)

\* ReportCommandService.create, and a restore of a lift and its sensors.
FileReport(c, l, status) == Start(c, l, "sync", status, 1, 2)

\* A sensor or a request is deleted.  The repository calls session.delete
\* without awaiting it: nothing happens in the write model, and LiftUpdated
\* rebuilds the row once.
DeleteChild(c, l) == Start(c, l, "sync", lift[l], 0, 1)

\* LiftCommandService.delete, the same way: only the row of lifts_read goes.
DeleteLift(c, l) == Start(c, l, "remove", lift[l], 0, 0)

-----------------------------------------------------------------------------
(* _publish_and_invalidate: the events are applied.                        *)

Step(c, t) ==
    /\ tx' = [tx EXCEPT ![c] = t]
    /\ UNCHANGED <<lift, changes, ticks, shown, issued, pending, tasks>>

\* A plausible bug: the rebuild runs before the command's columns are flushed.
SeenUnflushed(c) ==
    LET l == LiftOf(c) IN
    [status |-> lift[l], changes |-> changes[l] + tx[c].adds, ticks |-> ticks[l]]

\* What a SELECT in the transaction sees of its lift.
SeenBy(c) ==
    LET l == LiftOf(c) IN
    [status |-> IF tx[c].locks THEN tx[c].status ELSE lift[l],
     changes |-> changes[l] + tx[c].adds,
     ticks |-> ticks[l]]

\* sync_lift: the statement's snapshot.
Snapshot(c) ==
    /\ tx[c].pc = "sync"
    /\ Step(c, [tx[c] EXCEPT !.pc = "upsert", !.row = SeenBy(c)])

\* A plausible bug: the read model is written in a session of its own.
UpsertApart(c) ==
    /\ tx[c].pc = "upsert"
    /\ shown' = [shown EXCEPT ![LiftOf(c)] = tx[c].row]
    /\ tx' = [tx EXCEPT ![c].pc = "done"]
    /\ UNCHANGED <<lift, changes, ticks, issued, pending, tasks>>

\* A plausible bug: the list of events is run past its end.
UpsertPastEnd(c) ==
    LET n == tx[c].synced + 1 IN
    /\ tx[c].pc = "upsert"
    /\ RowFreeFor(c, LiftOf(c))
    /\ Step(c, [tx[c] EXCEPT !.pc = IF n > tx[c].syncs THEN "done" ELSE "sync",
                             !.synced = n, !.holds = TRUE])

\* sync_lift: the row, once it is free.
Upsert(c) ==
    LET n == tx[c].synced + 1 IN
    /\ tx[c].pc = "upsert"
    /\ RowFreeFor(c, LiftOf(c))
    /\ Step(c, [tx[c] EXCEPT !.pc = IF n = tx[c].syncs THEN "done" ELSE "sync",
                             !.synced = n, !.holds = TRUE])

\* sync_lift_delete: a row that is not committed yet is not seen.
Remove(c) ==
    /\ tx[c].pc = "remove"
    /\ shown[LiftOf(c)] # NoRow => RowFreeFor(c, LiftOf(c))
    /\ Step(c, [tx[c] EXCEPT !.pc = "done", !.holds = shown[LiftOf(c)] # NoRow])

\* A plausible bug: only the statement is undone, and its event stays pending.
SyncFailsAlone(c) ==
    /\ tx[c].pc \in {"sync", "upsert"}
    /\ Step(c, [tx[c] EXCEPT !.pc = "done"])

\* A statement fails, for instance as the victim of a deadlock between a
\* restore and a patch of one of its sensors.  PostgreSQL undoes the whole
\* transaction; the exception is caught and logged, and the command goes on.
SyncFails(c) ==
    /\ tx[c].pc \in {"sync", "upsert", "remove"}
    /\ Step(c, [tx[c] EXCEPT !.pc = "done", !.failed = TRUE, !.holds = FALSE,
                             !.locks = FALSE])

\* A plausible bug: after a failed statement nothing ends the transaction.
RespondUnlessFailed(c) ==
    /\ tx[c].pc = "done" /\ ~tx[c].failed
    /\ Step(c, [tx[c] EXCEPT !.pc = "told"])

\* get_session yields until the answer is sent: FastAPI leaves it only then.
Respond(c) ==
    /\ tx[c].pc = "done"
    /\ Step(c, [tx[c] EXCEPT !.pc = "told"])

-----------------------------------------------------------------------------
(* get_session, the queue and the worker.                                  *)

\* _after_commit_schedule_handlers, unless the process ends before it.
Schedule(c) == tasks' \in {tasks, tasks \union {tx[c].event}}

EndTx(c) == tx' = [tx EXCEPT ![c] = NoTx]

Commit(c) ==
    LET t == tx[c]
        l == LiftOf(c)
    IN  /\ t.pc = "told" /\ ~t.failed
        /\ lift' = IF t.locks THEN [lift EXCEPT ![l] = t.status] ELSE lift
        /\ changes' = [changes EXCEPT ![l] = @ + t.adds]
        /\ shown' = IF t.holds THEN [shown EXCEPT ![l] = t.row] ELSE shown
        /\ pending' = IF t.synced = t.syncs THEN pending ELSE pending \union {t.event}
        /\ Schedule(c)
        /\ EndTx(c)
        /\ UNCHANGED <<ticks, issued>>

\* The COMMIT of a failed transaction is a rollback, and no error.
CommitFailed(c) ==
    /\ tx[c].pc = "told" /\ tx[c].failed
    /\ Schedule(c)
    /\ EndTx(c)
    /\ UNCHANGED <<lift, changes, ticks, shown, issued, pending>>

\* Any other exception, a lost connection or a shutdown.
Abort(c) ==
    /\ tx[c] # NoTx
    /\ EndTx(c)
    /\ UNCHANGED <<lift, changes, ticks, shown, issued, pending, tasks>>

\* process_domain_event; a delivery may be repeated.
Process(e) ==
    /\ e \in tasks
    /\ tasks' \in {tasks, tasks \ {e}}
    /\ IF e \in pending
       THEN /\ \A c \in Clients : ~Holds(c, e.lift)
            /\ shown' = [shown EXCEPT ![e.lift] = Truth(e.lift)]
            /\ pending' = pending \ {e}
       ELSE UNCHANGED <<shown, pending>>
    /\ UNCHANGED <<lift, changes, ticks, issued, tx>>

\* A tick of the sensor simulation: it publishes nothing.
Tick(l, status) ==
    /\ ticks[l] < MaxTicks
    /\ status # lift[l] => LiftFree(l)
    /\ ticks' = [ticks EXCEPT ![l] = @ + 1]
    /\ lift' = [lift EXCEPT ![l] = status]
    /\ UNCHANGED <<changes, shown, issued, pending, tasks, tx>>

-----------------------------------------------------------------------------

Command(c) ==
    \E l \in Lifts :
        \/ \E s \in Status : PatchLift(c, l, s) \/ FileReport(c, l, s)
        \/ ChangeChild(c, l) \/ DeleteChild(c, l) \/ DeleteLift(c, l)

Finish(c) ==
    \/ Snapshot(c) \/ Upsert(c) \/ Remove(c) \/ Respond(c) \/ Commit(c) \/ CommitFailed(c)

Next ==
    \/ \E c \in Clients : Command(c) \/ Finish(c) \/ SyncFails(c) \/ Abort(c)
    \/ \E e \in tasks : Process(e)
    \/ \E l \in Lifts, s \in Status : Tick(l, s)

SafeSpec == Init /\ [][Next]_vars

\* A command that has begun runs on, and PostgreSQL queues the waiters of a
\* row.  There may be no worker.
Spec == SafeSpec /\ \A c \in Clients : SF_vars(Finish(c))

-----------------------------------------------------------------------------
(* Properties.                                                             *)

\* The type invariant.
TypeOK ==
    /\ lift \in [Lifts -> Status]
    /\ changes \in [Lifts -> Nat]
    /\ ticks \in [Lifts -> Nat]
    /\ shown \in [Lifts -> Row \union {NoRow}]
    /\ issued \in Nat
    /\ pending \subseteq DomainEvent
    /\ tasks \subseteq DomainEvent
    /\ tx \in [Clients -> {NoTx} \union Tx]

\* The read model never shows a change that is not committed, although it is
\* rebuilt from uncommitted rows and the command may still fail.
NoPhantoms ==
    \A l \in Lifts :
        shown[l] # NoRow => shown[l].changes <= changes[l] /\ shown[l].ticks <= ticks[l]

\* Whatever commands run at the same time, one that changes a row the lift's
\* counts depend on leaves lifts_read exact when it commits, but for a tick
\* since its last snapshot: its second rebuild has its snapshot when the row
\* is locked already, and repairs what the first one overwrote.
CountedChangesAreShown ==
    [][\A c \in Clients, l \in Lifts :
         Commit(c) /\ LiftOf(c) = l /\ tx[c].adds > 0 =>
            shown'[l] = Truth(l)' \/ shown'[l].ticks < ticks'[l]]_vars

\* The worker never has anything to do: an event is committed only with its
\* application to the read model, whatever fails.
NothingLeftPending == pending = {}

\* No command waits for ever for the rows of others, also when one of them
\* goes on after a failed statement.
CommandsEnd == \A c \in Clients : tx[c] # NoTx ~> tx[c] = NoTx

\* To who sees only what is committed, a command and the refresh of the row it
\* asks for are one step, whatever fails or runs at the same time: the row of
\* lifts_read comes from that step alone and shows the command's own changes,
\* and neither a worker nor a failed command ever touches it.
View == INSTANCE RefreshedView
ImplementsView == View!Spec

\* Contradicted by the code: the read model catches up with the write model
\* (read_sync.py:3), ticks and deletions apart, when no command is in flight.
ReadModelCatchesUp ==
    (\A c \in Clients : tx[c] = NoTx) =>
        \A l \in Lifts :
            shown[l] # NoRow /\ shown[l].ticks = ticks[l] => shown[l] = Truth(l)

\* Contradicted by the code: when the application of an event fails it is
\* left in the queue (services.py:75).
FailedEventsAreQueued ==
    [][\A c \in Clients : CommitFailed(c) => tx[c].event \in pending']_vars
=============================================================================
