--------------------------- MODULE ServiceRequests ---------------------------
(***************************************************************************)
(* Service requests and technicians: ServiceRequestCommandService,         *)
(* TechnicianCommandService and ReportCommandService of services.py, and   *)
(* the rows of technicians_read they rebuild.                              *)
(*                                                                         *)
(* A command is one READ COMMITTED transaction.  It reads a request,       *)
(* writes the columns it finds different when it reads the row again,      *)
(* sets the status of the technicians concerned in the same way, rebuilds  *)
(* the request's row of the read model, that of the lift in lifts_read and *)
(* then those of the technicians in technicians_read, that of the          *)
(* request's technician twice.  A row it wrote is locked until it ends.    *)
(*                                                                         *)
(* Of a request there are its status and its technician, of a technician   *)
(* the status; of lifts_read only who holds a row.                         *)
(***************************************************************************)
EXTENDS Sequences, Integers

CONSTANTS Requests, Lifts, Techs,
          LiftOf,       \* the lift of a request
          Clients,      \* commands that can be in flight at a time
          Statuses,     \* of requests
          Bodies,       \* the patches of a request that are sent
          NoTech, NoReq, NoRow,
          Unset,        \* a field a body leaves out, a row a command did not write
          MaxCommands   \* bound: commands

Active == {"assigned", "in_progress"}
Terminal == {"completed", "cancelled"}

Row == [status : Statuses, tech : Techs \union {NoTech}]
Body == [status : Statuses \union {Unset}, tech : Techs \union {NoTech, Unset}]
TechStatus == {"free", "busy"}
Card == [status : TechStatus, active : SUBSET Requests]

ASSUME ServiceRequestsAssumption ==
    /\ MaxCommands \in Nat
    /\ LiftOf \in [Requests -> Lifts]
    /\ Statuses \subseteq {"pending"} \union Active \union Terminal
    /\ {"pending", "completed"} \subseteq Statuses
    /\ Bodies \subseteq Body
    /\ NoReq \notin Requests /\ NoTech \notin Techs
    /\ Unset \notin Statuses \union Techs \union {NoTech, NoRow} \union TechStatus \union Card
    /\ NoRow \notin Row \union TechStatus \union Card

VARIABLES
    request,    \* request[r]: the row, or NoRow
    tech,       \* tech[t]: the technician's status, or NoRow
    shown,      \* shown[t]: the row of technicians_read, or NoRow
    issued,     \* commands begun
    tx          \* tx[c]: the client's transaction

vars == <<request, tech, shown, issued, tx>>

NoTx == [pc |-> "none"]
Mark == [tech : Techs, status : TechStatus]
Tx == [pc : {"load", "save", "find", "mark", "request", "lift", "count", "show", "hide", "done"},
       req : Requests \union {NoReq},
       seen : Row \union {NoRow},    \* the request when the command began,
       want : Row \union {NoRow},    \* as the command wants it,
       row : Row \union {NoRow},     \* and when it was read again
       put : SUBSET {"status", "tech"},      \* the columns it wrote
       marks : Seq(Mark),            \* technicians to set
       found : TechStatus \union {NoRow},    \* the first of them as read
       set : [Techs -> TechStatus \union {Unset}],       \* those it wrote
       shows : Seq(Techs),           \* rows of technicians_read to rebuild
       card : Card \union {NoRow},   \* the first of them as selected
       wrote : [Techs -> Card \union {NoRow, Unset}],    \* those it wrote
       asked : BOOLEAN,              \* the body names a status
       crossed : BOOLEAN]            \* another command has committed since

NoSet == [t \in Techs |-> Unset]

\* The assigned requests of a technician.
ActiveOf(rows, t) ==
    {r \in Requests : rows[r] # NoRow /\ rows[r].tech = t /\ rows[r].status \in Active}

\* Any rows and an exact read model, as commands one after another leave them.
Init ==
    /\ request \in [Requests -> Row \union {NoRow}]
    /\ tech \in [Techs -> TechStatus \union {NoRow}]
    /\ \A r \in Requests, t \in Techs :
          request[r] # NoRow /\ request[r].tech = t => tech[t] # NoRow
    /\ shown = [t \in Techs |->
                  IF tech[t] = NoRow THEN NoRow
                  ELSE [status |-> tech[t], active |-> ActiveOf(request, t)]]
    /\ issued = 0
    /\ tx = [c \in Clients |-> NoTx]

-----------------------------------------------------------------------------
(* Row locks and what a transaction sees.                                  *)

HoldsRequest(d, r) == tx[d] # NoTx /\ tx[d].req = r /\ tx[d].put # {}
HoldsTech(d, t) == tx[d] # NoTx /\ tx[d].set[t] # Unset
HoldsShown(d, t) == tx[d] # NoTx /\ tx[d].wrote[t] # Unset

\* Commands on requests rebuild the lift's row and then those of technicians.
HoldsLiftRow(d, l) ==
    /\ tx[d] # NoTx /\ tx[d].req # NoReq /\ LiftOf[tx[d].req] = l
    /\ tx[d].pc \in {"count", "show", "done"}

\* The statement that changes the columns of t.want over those of row.
Merge(t, row) ==
    [status |-> IF "status" \in t.put THEN t.want.status ELSE row.status,
     tech |-> IF "tech" \in t.put THEN t.want.tech ELSE row.tech]

RequestsSeenBy(c) ==
    [r \in Requests |->
        IF tx[c].req = r /\ tx[c].put # {} THEN Merge(tx[c], request[r]) ELSE request[r]]

TechSeenBy(c, t) == IF tx[c].set[t] # Unset THEN tx[c].set[t] ELSE tech[t]

\* The columns an update changes, and whether it changes a technician.
Differs(t) == {k \in {"status", "tech"} : t.row[k] # t.want[k]}
Changes(t) == t.found \notin {NoRow, Head(t.marks).status}

\* The next statement of c waits for d.
BlockedBy(c, d) ==
    /\ c # d /\ tx[c] # NoTx
    /\ \/ tx[c].pc = "save" /\ Differs(tx[c]) # {} /\ HoldsRequest(d, tx[c].req)
       \/ tx[c].pc = "mark" /\ Changes(tx[c]) /\ HoldsTech(d, Head(tx[c].marks).tech)
       \/ tx[c].pc = "lift" /\ HoldsLiftRow(d, LiftOf[tx[c].req])
       \/ tx[c].pc = "show" /\ HoldsShown(d, Head(tx[c].shows))
       \/ /\ tx[c].pc = "hide" /\ HoldsShown(d, Head(tx[c].shows))
          /\ shown[Head(tx[c].shows)] # NoRow

MayGoOn(c) == \A d \in Clients : ~BlockedBy(c, d)

-----------------------------------------------------------------------------
(* What a command is going to do.                                          *)

\* A plausible bug: the technician left is freed last, and also when it is kept.
SyncTechniciansFreesLast(old, new) ==
    (IF new.tech # NoTech /\ new.status \in Active
     THEN <<[tech |-> new.tech, status |-> "busy"]>> ELSE << >>)
    \o (IF old.tech # NoTech /\ old.status \in Active
        THEN <<[tech |-> old.tech, status |-> "free"]>> ELSE << >>)

\* _sync_technician_status: a technician taken off an assigned request is
\* free; the request's technician is busy if it is assigned and free if it is over.
SyncTechnicians(old, new) ==
    LET left == old.tech # NoTech /\ old.tech # new.tech /\ old.status \in Active
    IN  (IF left THEN <<[tech |-> old.tech, status |-> "free"]>> ELSE << >>)
        \o (IF new.tech = NoTech \/ new.status = "pending" THEN << >>
            ELSE <<[tech |-> new.tech,
                    status |-> IF new.status \in Active THEN "busy" ELSE "free"]>>)

\* A plausible bug: a request without a technician publishes one.
TouchedAny(old, new) ==
    <<old.tech>> \o (IF new.tech \in {NoTech, old.tech} THEN << >> ELSE <<new.tech>>)

\* A plausible bug: only the technician the request has now is published.
TouchedNow(old, new) == IF new.tech = NoTech THEN << >> ELSE <<new.tech>>

\* The technicians whose technician_changed events are published.
Touched(old, new) ==
    (IF old.tech = NoTech THEN << >> ELSE <<old.tech>>)
    \o (IF new.tech \in {NoTech, old.tech} THEN << >> ELSE <<new.tech>>)

NewTx(pc, r, seen, want, asked, put, marks, set, shows) ==
    [pc |-> pc, req |-> r, seen |-> seen, want |-> want, row |-> NoRow, put |-> put,
     marks |-> marks, found |-> NoRow, set |-> set, shows |-> shows, card |-> NoRow,
     wrote |-> NoSet, asked |-> asked, crossed |-> FALSE]

Begin(c, t) ==
    /\ tx[c] = NoTx
    /\ issued < MaxCommands
    /\ issued' = issued + 1
    /\ tx' = [tx EXCEPT ![c] = t]
    /\ UNCHANGED <<request, tech, shown>>

AfterSave(marks) == IF marks = << >> THEN "request" ELSE "find"

\* ServiceRequestCommandService.create: the row has an id of its own.
CreateRequest(c, r, new) ==
    LET old == [status |-> "pending", tech |-> NoTech]
        marks == SyncTechnicians(old, new)
    IN  /\ request[r] = NoRow
        /\ \A d \in Clients : ~HoldsRequest(d, r)
        /\ new.tech # NoTech => tech[new.tech] # NoRow
        /\ Begin(c, NewTx(AfterSave(marks), r, NoRow, new, TRUE, {"status", "tech"},
                          marks, NoSet, Touched(old, new)))

\* A plausible bug: a patch without a status has the default of a new request.
WantedPending(row, body) ==
    [status |-> IF body.status = Unset THEN "pending" ELSE body.status,
     tech |-> IF body.tech = Unset THEN row.tech ELSE body.tech]

\* The fields a patch is not given are those it read.
Wanted(row, body) ==
    [status |-> IF body.status = Unset THEN row.status ELSE body.status,
     tech |-> IF body.tech = Unset THEN row.tech ELSE body.tech]

\* ServiceRequestCommandService.update.
UpdateRequest(c, r, body) ==
    LET old == request[r]
        new == Wanted(old, body)
    IN  /\ old # NoRow
        /\ new.tech # NoTech => tech[new.tech] # NoRow
        /\ Begin(c, NewTx("load", r, old, new, body.status # Unset, {},
                          SyncTechnicians(old, new), NoSet, Touched(old, new)))

\* ReportCommandService.create: the request is completed.
FileReport(c, r) ==
    LET old == request[r]
        new == [status |-> "completed", tech |-> old.tech]
    IN  /\ old # NoRow
        /\ Begin(c, NewTx("load", r, old, new, TRUE, {},
                          SyncTechnicians(old, new), NoSet, Touched(old, new)))

\* ServiceRequestCommandService.delete: session.delete is not awaited, so the
\* row stays and only the read model is touched.
DeleteRequest(c, r) ==
    LET old == request[r] IN
    /\ old # NoRow
    /\ Begin(c, NewTx("lift", r, old, old, FALSE, {}, << >>, NoSet, Touched(old, old)))

\* TechnicianCommandService.create.
CreateTech(c, t, status) ==
    /\ tech[t] = NoRow
    /\ \A d \in Clients : ~HoldsTech(d, t)
    /\ Begin(c, NewTx("count", NoReq, NoRow, NoRow, FALSE, {}, << >>,
                      [NoSet EXCEPT ![t] = status], <<t>>))

\* TechnicianCommandService.update; without a status, the one it read.
UpdateTech(c, t, status) ==
    LET want == IF status = Unset THEN tech[t] ELSE status IN
    /\ tech[t] # NoRow
    /\ Begin(c, NewTx("find", NoReq, NoRow, NoRow, FALSE, {},
                      <<[tech |-> t, status |-> want]>>, NoSet, <<t>>))

\* TechnicianCommandService.delete: only the row of technicians_read goes.
DeleteTech(c, t) ==
    /\ tech[t] # NoRow
    /\ Begin(c, NewTx("hide", NoReq, NoRow, NoRow, FALSE, {}, << >>, NoSet, <<t>>))

-----------------------------------------------------------------------------
(* Its statements.                                                         *)

Step(c, t) ==
    /\ tx' = [tx EXCEPT ![c] = t]
    /\ UNCHANGED <<request, tech, shown, issued>>

\* SqlServiceRequestRepository.update reads the row again,
Load(c) ==
    /\ tx[c].pc = "load"
    /\ Step(c, [tx[c] EXCEPT !.pc = "save", !.row = request[tx[c].req]])

\* and writes the columns that differ, over those of the row when it is free.
Save(c) ==
    /\ tx[c].pc = "save"
    /\ MayGoOn(c)
    /\ Step(c, [tx[c] EXCEPT !.pc = AfterSave(tx[c].marks), !.put = Differs(tx[c])])

\* SqlTechnicianRepository.update, the same way.
Find(c) ==
    /\ tx[c].pc = "find"
    /\ Step(c, [tx[c] EXCEPT !.pc = "mark", !.found = TechSeenBy(c, Head(tx[c].marks).tech)])

\* A plausible bug: the request is saved once more with its technicians.
AfterMarksSave(t) ==
    CASE Len(t.marks) > 1 -> "find"
      [] Len(t.marks) <= 1 /\ t.req = NoReq -> "count"
      [] Len(t.marks) <= 1 /\ t.req # NoReq -> IF t.row = NoRow THEN "request" ELSE "load"

AfterMarks(t) ==
    IF Len(t.marks) > 1 THEN "find" ELSE IF t.req = NoReq THEN "count" ELSE "request"

MarkTech(c) ==
    LET t == tx[c]
        m == Head(t.marks)
    IN  /\ t.pc = "mark"
        /\ MayGoOn(c)
        /\ Step(c, [t EXCEPT !.pc = AfterMarks(t), !.marks = Tail(t.marks),
                             !.set = IF Changes(t) THEN [@ EXCEPT ![m.tech] = m.status]
                                     ELSE @])

\* The technician that the request's row of the read model will name.
TechOfRow(c) ==
    LET row == RequestsSeenBy(c)[tx[c].req] IN
    IF row.tech = NoTech THEN << >> ELSE <<row.tech>>

\* _apply_event of the request's own event: sync_service_request takes its
\* snapshot, and the technician in it is rebuilt before those of the events.
ShowRequest(c) ==
    /\ tx[c].pc = "request"
    /\ Step(c, [tx[c] EXCEPT !.pc = "lift", !.shows = TechOfRow(c) \o @])

\* A plausible bug: the lift's row is left to a session of its own.
RefreshLiftApart(c) ==
    /\ tx[c].pc = "lift"
    /\ Step(c, [tx[c] EXCEPT !.pc = IF tx[c].shows = << >> THEN "done" ELSE "count"])

\* sync_lift: the row is locked from here on.
RefreshLift(c) ==
    /\ tx[c].pc = "lift"
    /\ MayGoOn(c)
    /\ Step(c, [tx[c] EXCEPT !.pc = IF tx[c].shows = << >> THEN "done" ELSE "count"])

\* sync_technician: the snapshot of the statement,
Count(c) ==
    LET t == Head(tx[c].shows) IN
    /\ tx[c].pc = "count"
    /\ Step(c, [tx[c] EXCEPT !.pc = "show",
                             !.card = [status |-> TechSeenBy(c, t),
                                       active |-> ActiveOf(RequestsSeenBy(c), t)]])

\* and its row, once it is free.
Show(c) ==
    LET t == tx[c] IN
    /\ t.pc = "show"
    /\ MayGoOn(c)
    /\ Step(c, [t EXCEPT !.pc = IF Len(t.shows) > 1 THEN "count" ELSE "done",
                         !.shows = Tail(t.shows),
                         !.wrote = [@ EXCEPT ![Head(t.shows)] = t.card]])

\* sync_technician_delete.
Hide(c) ==
    LET t == Head(tx[c].shows) IN
    /\ tx[c].pc = "hide"
    /\ MayGoOn(c)
    /\ Step(c, [tx[c] EXCEPT !.pc = "done", !.shows = << >>,
                             !.wrote = IF shown[t] = NoRow THEN @ ELSE [@ EXCEPT ![t] = NoRow]])

\* get_session commits.  Those in flight have been crossed.
Commit(c) ==
    LET t == tx[c] IN
    /\ t.pc = "done"
    /\ request' = RequestsSeenBy(c)
    /\ tech' = [x \in Techs |-> TechSeenBy(c, x)]
    /\ shown' = [x \in Techs |-> IF t.wrote[x] = Unset THEN shown[x] ELSE t.wrote[x]]
    /\ tx' = [d \in Clients |-> IF d = c \/ tx[d] = NoTx THEN NoTx
                                ELSE [tx[d] EXCEPT !.crossed = TRUE]]
    /\ UNCHANGED issued

\* An exception, a failed statement (the victim of a deadlock), a lost
\* connection or a shutdown: nothing of the command stays.
Abort(c) ==
    /\ tx[c] # NoTx
    /\ tx' = [tx EXCEPT ![c] = NoTx]
    /\ UNCHANGED <<request, tech, shown, issued>>

-----------------------------------------------------------------------------

Command(c) ==
    \/ \E r \in Requests :
          \/ \E new \in Row : CreateRequest(c, r, new)
          \/ \E body \in Bodies : UpdateRequest(c, r, body)
          \/ FileReport(c, r) \/ DeleteRequest(c, r)
    \/ \E t \in Techs :
          \/ \E s \in TechStatus : CreateTech(c, t, s)
          \/ \E s \in TechStatus \union {Unset} : UpdateTech(c, t, s)
          \/ DeleteTech(c, t)

Finish(c) ==
    \/ Load(c) \/ Save(c) \/ Find(c) \/ MarkTech(c) \/ ShowRequest(c)
    \/ RefreshLift(c) \/ Count(c) \/ Show(c) \/ Hide(c) \/ Commit(c)

Next == \E c \in Clients : Command(c) \/ Finish(c) \/ Abort(c)

Spec == Init /\ [][Next]_vars

-----------------------------------------------------------------------------
(* Properties.                                                             *)

\* The type invariant.
TypeOK ==
    /\ request \in [Requests -> Row \union {NoRow}]
    /\ tech \in [Techs -> TechStatus \union {NoRow}]
    /\ shown \in [Techs -> Card \union {NoRow}]
    /\ issued \in Nat
    /\ tx \in [Clients -> {NoTx} \union Tx]

\* Commands take their locks in the order requests, technicians, lifts_read,
\* technicians_read, so one never waits for another that is less far.  What
\* can close a circle of waiting commands is a pair of technicians only, in
\* one of the two tables.
Rank(c) ==
    CASE tx[c].pc \in {"load", "save"} -> 1
      [] tx[c].pc \in {"find", "mark"} -> 2
      [] tx[c].pc \in {"request", "lift"} -> 3
      [] OTHER -> 4

LocksAreOrdered ==
    \A c, d \in Clients :
        BlockedBy(c, d) =>
            /\ Rank(c) <= Rank(d)
            /\ tx[c].pc \in {"save", "lift"} => Rank(c) < Rank(d)

\* What technicians_read says of the requests of the command's own lift is
\* exact when the command commits, whatever runs at the same time: the lift's
\* row, locked before the count, keeps out the other commands on its requests.
OwnLiftCounted ==
    [][\A c \in Clients, t \in Techs :
         LET r == tx[c].req IN
         Commit(c) /\ r # NoReq /\ tx[c].wrote[t] # Unset =>
            \A q \in Requests :
                LiftOf[q] = LiftOf[r] =>
                    (q \in shown'[t].active <=> q \in ActiveOf(request', t))]_vars

\* To who sees only what is committed a command is one step: whoever's status
\* it changes, the technician it takes a request from included, is shown with
\* that status when it commits, although others rebuild the same rows.
View == INSTANCE TechnicianView
ImplementsTechnicianView == View!Spec

\* A request that is over comes to life again only by a command that names a
\* status, or by one that read the request before it was over.
ReopenedOnPurposeOrByRace ==
    [][\A c \in Clients, r \in Requests :
         /\ Commit(c) /\ request[r] # NoRow
         /\ request[r].status \in Terminal /\ request'[r].status \notin Terminal
         => tx[c].asked \/ tx[c].crossed]_vars

\* A command on a request that no other one crosses leaves no technician
\* unoccupied that it found well-kept, unless with an assignment of another request:
\* one technician's requests do not know of each other.
WellKept(t) == ActiveOf(request, t) # {} => tech[t] = "busy"

IdledOnlyByAnotherRequest ==
    [][\A c \in Clients, t \in Techs :
         /\ Commit(c) /\ tx[c].req # NoReq /\ ~tx[c].crossed
         /\ WellKept(t) /\ ~WellKept(t)'
         => ActiveOf(request', t) \ {tx[c].req} # {} /\ tx[c].req \notin ActiveOf(request', t)]_vars
=============================================================================
