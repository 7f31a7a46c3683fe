# Verification of the elevator control system

TLA+ specifications of ElevatorsControlSystem, the TLC configurations that check
them on small instances, and TLAPS proofs of the properties that matter most for
every instance. Paths are relative to the repository's root; `app/` stands for
`elevator_control/`.

## 1. The system

One uvicorn process (FastAPI, asyncio, SQLAlchemy over psycopg) serves the HTTP API
and runs two background loops; PostgreSQL keeps all state that outlives a request,
in READ COMMITTED; a Celery worker, when there is one, replays domain events.

| Component | State | Operations | Talks to |
|---|---|---|---|
| Lift panel, `app/application/lift_panel.py`, `api/v1/control.py` | `lift_runtime`: floor, target, doors, lights, direction | panel, panels, move, doors, lights, emergency stop; a tick every second | PostgreSQL only |
| Sensor simulation, `app/application/simulation.py` | `sensors.current_value`, `lifts.status/is_emergency`, `events`, `service_requests` | a tick every few seconds: drift, warn, alarm, stop | the rows the commands write |
| Command services, `app/application/services.py` | the write model | create, update, delete of six aggregates; restore of a lift | repositories, event queue, cache |
| Emergency transaction, `app/application/emergency_transaction.py` | none: its endpoint raises before it (section 9) | one demonstration command | write model |
| Event queue, `app/application/events/*`, `infrastructure/database.py` | `domain_events_log`, Celery's queue, `session.info` | publish, schedule after the commit, process | read model |
| Read model, `app/application/read_sync.py` | `*_read` tables | one upsert or delete per aggregate | write model |
| Query services and cache, `app/application/queries/*`, `cache.py` | in-process dictionary with a TTL and an index of tags | get, put, invalidate by aggregate | read model |
| Authentication, `app/application/auth.py` | users, roles, revoked tokens | register, log in, refresh, log out | PostgreSQL |
| Rate limit and headers, `app/main.py` | one bucket per client, in-process, read through two windows | one check per request | none |
| Observability, `app/application/observability.py` | a bounded window of timings | record, snapshot | none |
| Diagnostic tasks, `app/application/tasks.py`, `api/v1/tasks.py` | Celery's results | submit, poll | Celery |
| Clients, seed, migrations, scripts | none at run time | | the API |

What is hard in it, and what would make each part correct:

* **Lift panel.** Every operation is SELECT, check in Python, UPDATE, COMMIT, with no
  row lock in between, against the tick and other requests. Correct: the cabin stays
  in the building, moves one floor at a time towards its target with its doors closed,
  and arrives; the row does not contradict itself; the first use of a lift by several
  requests is harmless.
* **Sensor simulation.** A tick is one long transaction that lists the sensors once
  and writes values computed from that list. Correct: no duplicate alarms, no stop
  without a cause, no alarm without a warning, a critical lift does stop, no tick hangs.
* **Command services.** Each command writes what it read plus what it was given.
  Correct: it does not undo what it knows nothing of.
* **Event queue and read model.** Upserts with aggregates of other tables, whose
  snapshot is older than the lock they wait for; the same event applied inline and by a
  worker; a statement that fails inside a transaction that goes on; an answer before the
  commit. Correct: nothing uncommitted shows, and the read model catches up.
* **Query cache.** Invalidated before the commit, filled by queries that take their
  time. Correct: a hit is out of date only by a race, and never for long; what is stored
  can be invalidated.
* **Service requests and technicians.** A status derived from several requests by
  increments, four tables locked by one command, fields written as they were read.
  Correct: a technician with work is not made free by a command on something else's
  behalf, no request comes back to life by accident, commands do not wait in circles, and
  the counts shown are those of the rows.
* **Authentication.** Check, then insert, with other transactions in between, and an
  answer before the commit. Correct: there is an administrator, and no second one without
  the code; a refresh token is good for one refresh, and is not spent in vain.
* **Rate limit.** Two windows over one bucket. Correct: no more requests in a window than
  the limit, and nobody is shut out for good.

The hazards of the code, line by line and with the properties that cover them, are
in `PROJECT.json` under `hazards`. Where the code lets a race happen, a property that
holds cannot exclude it: it excepts that race by name and says that nothing else has its
effect, and the hazard's note says so.

## 2. Modules

| Module | Models | Status |
|---|---|---|
| `Cabins` | what the cabins promise, without database and requests | abstract specification of `LiftPanel` |
| `LiftPanel` | the lift panel and its tick | complete |
| `LiftPanelProofs` | theorems about it | |
| `Emergencies` | what the simulation promises, with a tick as one step | abstract specification of `SensorSimulation` |
| `SensorSimulation` | the simulation's tick and the commands on the same rows | complete but for patched thresholds |
| `SensorSimulationProofs` | theorems about it | |
| `RefreshedView` | what `lifts_read` promises, with a command and its refresh as one step | abstract specification of `ReadModel` |
| `ReadModel` | commands from publish to commit, event log, worker, rows of `lifts_read` | complete for `lifts_read` |
| `ReadModelProofs` | theorems about it | |
| `TechnicianView` | what commands on requests and technicians promise, each as one step | abstract specification of `ServiceRequests` |
| `ServiceRequests` | commands on requests, technicians and reports; rows of `technicians_read` | complete but for the update and deletion of reports |
| `ServiceRequestsProofs` | theorems about it | |
| `Authentication` | registration, seed, login, refresh, logout | complete |
| `AuthenticationProofs` | theorems about it | |
| `QueryCache` | the cache of the list of lifts, its queries, the commands around it | complete |
| `QueryCacheProofs` | theorems about it | |
| `RateLimit` | the two windows | complete |
| `RateLimitProofs` | theorems about it | |
| `ApiProcess` | `RateLimit` in front of `QueryCache`, on one clock | composition |
| `ApiProcessProofs` | the theorems of `QueryCache` and `RateLimit`, of the whole process | |
| `MC...` | small instances for TLC | |

The modules meet where the code's components share rows: `lifts` and `sensors` are
`SensorSimulation`'s; `lifts_read` is `ReadModel`'s, and `ServiceRequests` keeps of it only
who holds a row, because that row is what separates the commands on one lift;
`QueryCache` takes the rows of `lifts_read` as up to date or not. `ReadModel`,
`ServiceRequests` and `QueryCache` have the same end of a command: publish, apply,
invalidate, answer, commit.

### Plan

What is left, in order:

1. Liveness of `ServiceRequests`: with PostgreSQL's deadlock detection every command
   ends, as `SensorSimulation` has it for the tick.
2. Sensors and lifts that come and go while a tick runs; patched thresholds.
3. Two processes with a cache each: `QueryCache` per process, and a command that
   invalidates one of them only.

## 3. LiftPanel

**State.** `runtime[l]` is the row of `lift_runtime`; `rows` says which rows are
committed, `creator` who has an uncommitted INSERT of one; `request[c]` is a request
in flight with what its SELECT returned. `total_floors` is a constant: no code
updates it.

**Actions.** A request is two steps, because other transactions commit between its
SELECT and its UPDATE: `Begin...` ensures the row (`_ensure_runtime_row`) and reads
it; `SetTargetFloor`, `SetDoors`, `SetLights`, `EmergencyStop` and `ShowPanel` check
what was read, write and commit; `Refuse` is the ConflictError; `Abort` any other
exception. The UPDATE locks the row only until the COMMIT that follows at once, so
the two are one step. An INSERT that conflicts with an uncommitted one waits:
`EnsureRuntimeRows` is then not enabled. `Tick(S)` is the single UPDATE of
`tick_runtime` over the rows `S`; `S` may leave out a row that was written while the
statement ran, because PostgreSQL evaluates the WHERE in the statement's snapshot and
again on the locked row.

**Left out.** The access check (no state), the deletion of a lift, the get_panel that
renders the answer after the commit (its row exists by then), `updated_at`.

**Properties and runs.**

| Run | Instance | Shows |
|---|---|---|
| `panel` | 1 lift, 3 floors, floors up to 4 asked for, 2 requests | `TypeOK`, `FloorsInBuilding`, `OnlyStaleReadsBreakCoherence`: the row contradicts itself only after a request that decided on a stale read; `ImplementsCabins` (with its fairness), `ArrivesUnlessSteered`, `InsertWaitsEnd` |
| `panel_fleet` | 2 lifts, 2 floors, 2 requests | `UncommittedRowsInvisible`, and `ImplementsCabinsSafely`: steps of the panel are steps of `Cabins` |
| `panel_doors` | as `panel` | **violated** `DoorsClosedInMotion`: a stale doors request opens the doors of a lift that has just been sent off |

The other stale request is a move: it gives a cabin that has arrived meanwhile a
direction, and `set_doors` then refuses to open its doors until it is sent elsewhere or
stopped (`StaleRead` of `OnlyStaleReadsBreakCoherence`).

Three floors are the fewest with a floor in between, which separates "one step away"
from "further"; floor 4 is the one the API lets through and the service refuses. Two
requests are enough for every race of the code: a request's decision involves one
other writer at a time, the tick being the third actor. Lifts share nothing but the
statements that touch several, which `panel_fleet` covers. Permuting clients and
lifts is sound: nothing orders them.

**Fairness.** `_runtime_tick_loop` catches every exception and ticks again, and a row
that still matches is in the next snapshot: weak fairness of the ticks that include
a lift. A coroutine that has begun goes on: weak fairness of `Finish`. No fairness of
new requests, and none of `Abort`.

**Proofs** (`LiftPanelProofs`). `TypeCorrect`; `CabinsStayInBuilding`, whose
invariant adds to `TypeOK` only the row's bounds, because `MoveAllowed` is decided on
the constant `total_floors`; `FirstUseIsPrivate`, strengthened by the fact that a
request holds an INSERT only of lifts it touches and that are not committed;
`ContradictionsAreLostRaces`, an action property from `TypeOK`: one step per action,
where the tick and the undisturbed requests keep `Coherent` by arithmetic on floors;
`PanelImplementsCabins`, the refinement without fairness: each action maps to
`NewGoal`, `WorkDoors`, `Halt`, `Travel` or a stutter. They assume `PanelAssumption`:
at least one floor, and a value for nobody. The liveness properties are
model-checked only.

## 4. SensorSimulation

**State.** `lift[l]` (the columns `status`, `is_emergency`), `level[s]` (a sensor's
value on a grid relative to its threshold), `alarms[l]`, `manual[l]`, `requests[l]`
(open CRITICAL events by who filed them, and automatic service requests),
`announced` (sensors that had a WARNING, or a level set by hand: history), `tick`
(the tick's transaction: where it is, the list it read, what it wrote and holds), and
`command[c]` (a command's transaction).

**Actions.** `StartTick` is `list_all`; `LookAtLift` the `get_by_id` and the skip of
a lift in maintenance; `Drift` the update of the sensor and the decision on the zones;
`RaiseAlarm` the check for an open event and the two inserts; `ReadLift` and
`StopLift` the two halves of `lifts.update`; `CommitTick`; `AbortTick` the exception
that `_simulation_loop` logs. The commands are `BeginPatchLift`, `ReadLiftAgain`,
`PatchLift` (`LiftCommandService.update`; also the report that closes a repair and a
restore without sensors), `BeginPatchSensor`, `PatchSensor`, `BeginRestore`,
`RestoreLift`, `RestoreSensor`, `CommitRestore`, `FileCritical`, `ResolveCritical`,
`AbortCommand`. `BreakDeadlock` is PostgreSQL choosing a victim.

An update (`SqlLiftRepository.update`) reads the row and SQLAlchemy then writes the
columns that differ from what was read: `Changed` and `Write`. The write waits for
the row's lock, and a writer that commits meanwhile leaves a mixture of both. Reads
are never stale inside a repository call: no session keeps an ORM object between
calls, only the domain objects' values.

**Left out.** Patches of `threshold_norm`; lifts and sensors created or deleted while
a tick runs; ownership checks; the columns model, location and owner.

| Run | Instance | Shows |
|---|---|---|
| `sensors` | 1 lift, 2 sensors, 1 command, 3 levels | `TypeOK`, `OneAlarmPerLift`, `StopsAreJustified`, `AlarmsAreAnnounced`, and `ImplementsEmergencies`: a tick is one round of `Emergencies` |
| `ticks_live` | 1 lift, 1 sensor, 1 command, an event filed by hand | `TicksEnd`, `CriticalLiftStops`, `StopsAreNotForgotten`: what may take a lift out of its emergency, among it the patch that knows nothing of the stop |
| `emergency_lost` | 1 sensor, 1 command | **violated** `EmergencyStopsLift`: a patch commits between the tick's read of the lift and its write; the alarm is filed, and the tick, which wrote last, leaves the lift active |

`Emergencies` says what is left of a tick for who sees only committed rows: one round
that raises an alarm only where there is none, an event and its request together, and
stops or half stops a lift (the mixture of `Write`), both for a sensor of the lift that is
critical when the round is over. It does not say that a lift with a critical sensor ends up
stopped: `emergency_lost` shows why not.

The tick also writes back the value it listed before a restore, so that a restored sensor
can be critical again at once; `StopsAreJustified` and `StopsAreNotForgotten` hold with it.

Bounds: three levels, one per zone (`Threshold` 0, `Critical` 1, `MaxLevel` 2), and a
drift of at most one level a tick, so the warning zone cannot be jumped: in the code
a drift is at most 1.5% of the threshold and the zone 20% wide. `MaxAlarms` bounds how
often an alarm is resolved and filed again (two: one alarm after another), `MaxManual`
the open events filed by hand. Two sensors of one lift are the case that can file
twice in a tick. Lifts meet only in the tick's sequence of sensors.

**Fairness.** Strong fairness of the tick's steps and of a command's: the loop
survives its exceptions and starts again, a coroutine that has begun goes on, and
PostgreSQL queues the waiters of a row, so nobody waits for ever for a row that is
free again and again. Weak fairness of `BreakDeadlock`: `deadlock_timeout` is finite.
`CriticalLiftStops` assumes in its own premise that ticks go on committing, because
nothing in the code bounds how often they abort.

**Proofs** (`SensorSimulationProofs`). `TypeCorrect`: `TypeOK` is not inductive, since
`TickStep("drift")` indexes by a sensor the type allows to be one past the last; the
invariant `Typed` adds `AtSensor`. `AlarmsDoNotPileUp`: `OneAlarmPerLift` counts the
tick's own uncommitted event, and so is inductive together with `Typed`.
`StopsHaveACause`: the action property needs that whatever the tick wrote of a lift
it wrote for a sensor that is critical in its own list; `Justified` says so, step by
step (`WroteUpToHere`, `InAlarm`, `StopsForCritical`). `StopsLast`: a tick writes over a
stopped lift what it is already (`StopIsKept`), and a patch given nothing can only carry
the row it has read (`EmptyPatchesWriteBack`). `AlarmsHaveNotice`: a level above the
threshold has a history wherever it is kept, in the row, in what a tick has listed and in
a patch that writes it back (`Known`), because one drift cannot cross the warning zone
(`Zones`) and a restore sets a normal level (`SafeLevelIsNormal`). `ImplementsRounds`,
the refinement of `Emergencies`, needs all of these and two facts more: the tick has filed
alarms only for sensors it has written as critical (`AlarmsForCritical`), and a restore
writes sensors of its own lift only (`RestoresStayOnLift`). `CommitTick` maps to `Round`,
the commits of commands to `SetLevel`, `SetLift` and `Resolve`, all else to a stutter.
All assume
`SimulationAssumption`: the constants have their types and the zones are in order.
The liveness properties are model-checked only.

## 5. ReadModel

**State.** `lift[l]`, `changes[l]` and `ticks[l]` are what a rebuild of a lift's row in
`lifts_read` reads: its columns, and how many changes commands and the simulation made
to the rows it counts (sensors, events, requests; `Truth`). `shown[l]` is the row,
`NoRow` when there is none. `issued` and `pending` (the events not set to processed) are
`domain_events_log`, `tasks` the worker's queue, `tx[c]` the transaction of a command.
The events of one command are one event of the model: they are inserted, applied,
committed or rolled back together.

**Actions.** A command is one of `PatchLift`, `ChangeChild`, `FileReport`,
`DeleteChild`, `DeleteLift`, which differ in what they write and in how often their
events rebuild the lift's row: a `LiftUpdated` once, a sensor, event or request that
exists once more by `_apply_event` (a restore of several sensors more often: two is
the least, and what follows needs no more). Then each rebuild is `Snapshot`, the
SELECT of the upsert, and `Upsert`, its DO UPDATE, which waits for the row; `Remove`
is the DELETE. `SyncFails` is a statement that fails: PostgreSQL undoes the
transaction and refuses the rest, the exception is caught, the command goes on.
`Respond` is the answer; `Commit` and `CommitFailed` are `session.commit()` after it,
with the hook that queues the tasks, which a crash may skip; `Abort` is a rollback.
`Process` is the worker with repeated deliveries. `Tick` is the simulation, which
publishes nothing.

Deletes do nothing to the write model: the repositories call `session.delete` without
awaiting the coroutine. So `DeleteLift` only removes the row of `lifts_read`, and
`DeleteChild` only rebuilds it.

**Left out.** Creation of lifts (a row nobody else can see before its commit); the
tables with a row per row; `technicians_read` (section 6); commands whose events rebuild no row of
a lift. The columns of a lift are one value, written when it differs from the one
read; how two writers mix columns is `SensorSimulation`'s subject.

| Run | Instance | Shows |
|---|---|---|
| `refresh` | 1 lift, 2 commands, 2 ticks | `TypeOK`, `NoPhantoms`, `NothingLeftPending`, `CountedChangesAreShown`, `CommandsEnd`, and `ImplementsView`: a command and its refresh are one step of `RefreshedView` |
| `stale_refresh` | 1 lift, 2 commands, no tick | **violated** `ReadModelCatchesUp`: a patch overwrites newer counts |
| `event_lost` | as above | **violated** `FailedEventsAreQueued`: the event is rolled back with its command |

What the runs show together: the second rebuild, which looks like a repetition, is what
keeps the counts right. It has its snapshot when the command holds the row already, so
no other command can commit a rebuild in between (`CountedChangesAreShown`, and the
mutant `ChangeChildOnce`). Commands that rebuild once have no such repair. The worker
has nothing to do in any behaviour, because an event is committed only with its
application (`NothingLeftPending`); nobody sees it pending, as docs/CHECK_GUIDE.md
expects: the branch of `Process` that applies an event is never taken, and a lost task
loses nothing. The commit comes after the answer (FastAPI leaves a dependency with yield
after the response), so a client may read the old row right after its command, which
services.py:60 excludes; `QueryCache` has the client's side of it.

Bounds: lifts share nothing here, so one is enough. Two commands are an overwriter and
an overwritten one, two ticks one before and one after a snapshot; more commands are the
theorems' matter. Two values of the columns tell a stale row from a fresh one.
`MaxCommands` and `MaxTicks` bound the counters.

**Fairness.** Strong fairness of a command's own steps: a coroutine that has begun runs
on, and PostgreSQL queues the waiters of a row. None of the worker, the ticks, or
failures. Commands of the model lock one row each, so they do not deadlock; a deadlock
in the code (a restore whose sensor a patch holds, while the patch waits for the
lift's row) makes one of them a `SyncFails`.

**Proofs** (`ReadModelProofs`). `TypeCorrect` needs `Orderly`: a transaction between
rebuilds has one left, which also gives `WorkerIsIdle`, since one that commits has
none. `ShowsOnlyCommitted`: `NoPhantoms` is not inductive, because what a commit shows
is what its snapshot saw; `NoRumours` says that no transaction knows of more than the
committed changes and its own, and counts only grow. `CountsAreExact` rests on
`OneHolder` (the row lock) and `SecondLookExact`: from its second snapshot to its commit
a command's row agrees with what its commit will make true, unless a tick comes
between. The only commands that change the counts or columns of a lift hold its row,
so they cannot commit meanwhile. `ImplementsRefreshedView` puts these together: a commit
is `Change` of `RefreshedView`, with the row its last snapshot gave, or `Remove`, and all
other steps but the ticks are stutters, the worker's because of `NothingLeftPending`. What
it needs besides is `RowsTell`: a command that changes the columns shows them. The abstract
row may be out of date, as `stale_refresh` shows it is, but never ahead. They assume
`ReadModelAssumption`: the bounds are numbers, and `NoRow` is no row. `CommandsEnd` is
model-checked only.

## 6. ServiceRequests

**State.** `request[r]` has the columns `status` and `technician_id`, `tech[t]` the
`status`, `shown[t]` the row of `technicians_read`: a status and the set of requests that
`active_requests_count` counts. `tx[c]` is a command's transaction: what it read, what it
is to write, what it wrote and so holds, and the rows of `technicians_read` it is still to
rebuild.

**Actions.** A command begins with all it reads in Python (`CreateRequest`,
`UpdateRequest`, `FileReport`, `DeleteRequest`, `CreateTech`, `UpdateTech`, `DeleteTech`)
and goes on statement by statement. `Load` and `Save` are the two halves of
`SqlServiceRequestRepository.update`, `Find` and `MarkTech` of
`SqlTechnicianRepository.update`: as in section 4, only the columns that differ from the
row read again are written, and a row that does not differ is not locked.
`SyncTechnicians` is `_sync_technician_status`. Then the events are applied:
`ShowRequest` is `sync_service_request`, whose row names the technician that is rebuilt
first; `RefreshLift` is `sync_lift`, after which the command holds the lift's row of
`lifts_read`; `Count` and `Show` are the snapshot and the write of `sync_technician`;
`Hide` is `sync_technician_delete`. `Commit` and `Abort` end the transaction; an abort is
also the victim of a deadlock. `BlockedBy` are PostgreSQL's row locks.

The deletes change nothing in the write model, as in section 5: a deleted request stays
with its technician, and `DeleteTech` removes only the row of `technicians_read`.

**Left out.** Reasons and names; ownership, which refuses and changes nothing; the update
and the deletion of a report, which touch its own row; the lock of a report on `lifts` and
that of a request's row in `service_requests_read`, each held only by commands that
take the lift's row of `lifts_read` next; the lift's status after a report
(`SensorSimulation`).

| Run | Instance | Shows |
|---|---|---|
| `requests` | 2 requests of 1 lift, 2 technicians, 2 commands, any state to begin with | `TypeOK`, `LocksAreOrdered`, `OwnLiftCounted`, `ReopenedOnPurposeOrByRace`, `IdledOnlyByAnotherRequest`, and `ImplementsTechnicianView`: a command is one step of `TechnicianView` |

What they say. `LocksAreOrdered`: a command never waits for one that is behind it in the
order of the tables, so a circle of waiting commands lies within the technicians or within
`technicians_read`: two commands that move requests between the same two technicians in
opposite directions, one of which PostgreSQL ends. `OwnLiftCounted`: the row of the
technician agrees with the rows of the requests of the command's own lift; across lifts it
need not, because nothing orders two commands on different lifts before the wait for the
row. `ReopenedOnPurposeOrByRace`: the fields a patch leaves out are written as they were
read, so a patch of the reason can reopen a request, but only if something was committed
after it began. `IdledOnlyByAnotherRequest`: `_sync_technician_status` frees a technician
by the request at hand alone; that is the only way a command that nobody crosses frees
someone with work.

`TechnicianView` is what is left for who sees only committed rows: a command changes one
request, or one technician, and in the same step the rows of `technicians_read` that
follow. Whoever's status it changes is shown with that status, the technician a request is
taken from included, although the statuses to set (`SyncTechnicians`) and the rows to
rebuild (`Touched`) are two lists made by two pieces of code; the mutant `TouchedNow`
forgets one. It promises nothing for a status the command leaves as it is, nor for the
requests of other lifts: others may commit between the count and the write.

Bounds: a technician becomes free in spite of work by two requests at least, and moves
between two technicians; two commands are the two sides of a race (`MaxCommands`), and
what went before them is any initial state in which the read model is exact, whether
commands can reach it or not. `in_progress` and `cancelled` are treated like `assigned`
and `completed` by the code and left out of `Statuses`. The patches (`Bodies`) are one
of neither field, one that ends the request and the assignments. One lift is where
`OwnLiftCounted` says most; the theorem is for any. Clients, technicians and requests are
interchangeable. No fairness: all properties are safety.

**Proofs** (`ServiceRequestsProofs`). All six properties. `Typed` strengthens `TypeOK`
by foreign keys and by what the fields of a transaction have to do with its place in the
command (`Fits`); `LocksFollowOneOrder` is a case split on `BlockedBy` under it.
`ReopensAreMeantOrRaced` and `IdlenessComesFromElsewhere` rest on `EachAlone`: while
nothing crosses a transaction, what it read is what is committed, and what it will commit
is a function of it. `OwnLiftIsExact` rests on `CountInv`: at most one transaction holds a
lift's row (`OneHolder`), and the holder's counts agree with what it will commit
(`EachCounted`), since no other command on a request of that lift can commit in between.
`ImplementsTechnicians`, the refinement of `TechnicianView`, maps a commit on a request to
`WorkOn`, one on a technician to `Edit`, `Remove` or, when there was no row to hide, a
stutter, and all else to a stutter. Its invariant is `EachCovers`: a technician the command
has still to set is on its list of rows to rebuild (`MarksAreTouched`), and one that it has set
is on the list or was written as set; nothing is left of the list when it commits.
They assume `ServiceRequestsAssumption`: the types of the constants, and values apart from
each other for "no row" and the like.

## 7. Authentication

**State.** `users[e]` is the role of an email or none; `issued` and `parent` are the pairs
of tokens clients have got and the pair each was traded in for (history); `lost` the
tokens traded in for an answer that did not arrive; `revoked` is `revoked_tokens`,
`loggedOut` those a logout put there; `tx[c]` a request's transaction. Tokens are signed
and stored nowhere, so a pair exists once it is sent, whatever becomes of the transaction.

**Actions.** `Register` looks the email up; `CreateUser` is the INSERT, which waits on the
unique index for a registration of the same email; `CountUsers` the count and the choice
of the role; `CommitUser` the role and the commit. `Refresh` looks at the blacklist;
`Logout` does not; `Revoke` is the INSERT ... ON CONFLICT DO NOTHING; `Tell` the answer,
which arrives (`Send`) or not (`Lose`); `CommitToken` the commit after it; `Abort` any
failure before it. `Login` only reads. `Seed` is `seed_demo_users` of a starting process.
`crossed` remembers that a transaction this one depends on committed since it began.

**Left out.** Expired tokens and wrong passwords, refused before any state counts; the
checks of access tokens and permissions, which change nothing.

| Run | Instance | Shows |
|---|---|---|
| `auth` | the demo administrator's email and another one, 2 requests, 3 pairs | `TypeOK`, `SomeAdmin`, `SpentTokensAreReplaced`, `FirstAdminsOverlap`, `TwinsOverlap` |

What they say. `FirstAdminsOverlap`: a second user can become administrator without the
code, but only by registering while the first one is not committed. `SomeAdmin`: no order
of registrations and seeds leaves users without an administrator. `TwinsOverlap`: one
refresh token buys two pairs only when both requests look at the blacklist before either
commits. `SpentTokensAreReplaced`: because the answer goes before the commit, a failure
leaves the old token valid rather than the client without any, unless the answer itself
is lost.

Bounds: two registrations, or two refreshes, are what overlaps; three pairs are a token,
its replacement and a twin. `Kinds` has refresh tokens only: access tokens are revoked by
the same statements and nothing here reads that. Emails are two: the seeded one and one
that is not. No fairness: all properties are safety.

**Proofs** (`AuthenticationProofs`). All five, for any emails, demo accounts, clients and
pairs. `UsersHaveAnAdmin` and `AdminsWithoutCodeOverlap` share `AdminInv`: of one email
there is one INSERT in flight, and a registration that is not crossed and counted itself
first is alone with an empty table. `RefreshIsAtomic` and `OneRefreshUnlessRaced` share
`TokenInv`: an answered refresh has its replacement among the pairs sent, and a
transaction whose token is revoked has been crossed. They assume
`AuthenticationAssumption`: among other things that a demo account is an administrator.

## 8. QueryCache, RateLimit, ApiProcess

**State.** `storage[k]` is an entry of the cache: the time left to it, for how long its
rows have been out of date, and whether it was put next to a commit. `index` is the set of
keys under the one tag in use, `"lift"`. `reader[q]` is a list request, `writer[w]` a
command from its events to its commit. `bucket[h]` has the ages of a host's requests;
`admitted[h][w]` counts all that were let in within the last `w`, apart from the bucket
(history).

**Actions.** `Request`, then `Hit` or `Miss` (`cache.get`), `Select` (the statement's
snapshot, in `list_page`), `Put` (`cache.put`) or `Fail`. The functions of `cache.py` run
under a lock on one event loop, so each is a step; the awaits are between them. `Apply`
is the application of a command's events, `Invalidate` the loop over
`invalidate_for_aggregate` (`Cascade` its table) and the answer, `Commit` the commit,
which puts out of date what queries have read or stored; `Abort` a rollback. `Tick` lets
time pass, for entries, queries and buckets alike. The rows of a query are put, or given
up, within `Timeout` of their snapshot: the pool's `command_timeout` for the rest of the
statement, and again for asyncpg's reset of the connection on its release, which comes
before the put. `Admit` and `Refuse` are `RateLimitMiddleware.dispatch`, which does not
await before it has decided. In `ApiProcess` a list request or a command begins only with
an `Admit`; requests to other endpoints take room in the bucket as well.

**Left out.** The page's total, which a statement of its own counts; the values of the
rows; `invalidate_all`, which nothing calls; the worker's invalidation, which is of the
worker's own, empty cache; requests that are not limited (preflight, `/health`, the static
clients).

| Run | Instance | Shows |
|---|---|---|
| `api_process` | 1 host, 2 keys, 2 list requests, 1 command (on a sensor or on a technician), TTL and timeout 1, windows 3 and 1 with 3 and 2 requests | `TypeOK`, `RowsAreRecent`, `StaleByRaceOnly`, `StoredIsIndexed`, `WithinLimits`, `NobodyIsShutOut` |

What they say. `StaleByRaceOnly`: a stale hit was put by a query that a commit overtook
or between the invalidation and the commit of a command; without such a race the
invalidation reaches everything (`StoredIsIndexed`). `RowsAreRecent`: nothing but time
repairs it, after at most the TTL and `Timeout`: 50 seconds in the code, 30 of the TTL and
10 each for the statement and the reset of its connection.
`WithinLimits` counts by `admitted`, so a bucket that forgets too much is found out.
`NobodyIsShutOut`: a refused request does not renew the window.

Bounds: a command whose events clear the tag and one whose do not are all that `Cascade`
distinguishes; two readers are one that is overtaken and one that hits; a window of 3
contains one of 1 that does not end with it; a TTL of 1 can be alive, in its last tick and
expired. The ratio of the TTL to the windows matters to no property.

**Fairness.** Time goes on (weak fairness of `Tick`), and a statement ends, at the latest
when the pool ends it (weak fairness of `Read`), without which `Tick` would be stuck.
None of requests, commands or aborts.

**Proofs** (`QueryCacheProofs`, `RateLimitProofs`, `ApiProcessProofs`). For any numbers and times: the type
of `QueryCache`, `StoredIsIndexed`, `StaleByRaceOnly` (with the invariant that a query
which a commit has overtaken, or an entry a commit is about to put out of date, is marked
or still within reach: `RaceInv`) and `RowsAreRecent` (a query's rows are no older than its
snapshot, an entry has lived as long as the TTL has shrunk: `ReadersAreRecent`,
`EntriesAreRecent`). Of `RateLimit`: `WithinLimits` is not inductive, since it says nothing
of the buckets the decision is made from; `BucketsCount` does: for every window the bucket
has as many entries within it as were let in. Its lemmas are about buckets: the stale
entries are a prefix and every one of them is older than a minute (`StaleEntries`), so
dropping them moves the others without losing one (`FreshKeepsRecent`, a bijection), an
admission adds one (`AppendRecent`), and a tick moves each window into the next
(`AgedRecent`). They count with `Cardinality`, for which the library has the facts, where
a filter over a sequence would need an induction. The proof does not use that a bucket is
in order: if it were not, fewer would be dropped. `ApiProcessProofs` takes the
theorems of both over: by the lemmas `StepOfCache` and `StepOfLimit` a step of the process
is a step of the part or leaves it alone, which says nothing by itself, as `ApiProcess` is
put together from them. They assume `Sound`, which
`ApiProcessAssumption` states of the composition's constants. `NobodyIsShutOut` is
liveness, and model-checked only.

## 9. What is not modelled

* The rest of the plan in section 2.
* **Emergency transaction.** `api/v1/lifts.py:180` begins a transaction on a session on
  which `get_current_user` has begun one already. SQLAlchemy refuses, so the function
  behind the endpoint never runs and changes nothing.
* **Diagnostic tasks.** They compute their result from their arguments; their states are
  Celery's.
* Creation of lifts, sensors and events as such, and read tables with one row per row: one
  writer, no other row read.
* The queries that are not cached: single SELECTs.
* Routing, schemas and rendering (pure functions of a request), the user interfaces,
  configuration and migrations (before the system starts), logging and metrics (nothing
  depends on them).
* Out of the prover's reach, and so model-checked only: every liveness property.

## 10. Running

    tlc -workers 2 -config MCLiftPanel_panel.cfg MCLiftPanel
    tlapm LiftPanelProofs.tla

`PROJECT.json` lists every run with its module and configuration, maps each
definition to its source lines, and names for every property a plausible bug of the
code (the definitions commented so in the modules) under which it fails.
