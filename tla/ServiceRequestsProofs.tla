------------------------- MODULE ServiceRequestsProofs -------------------------
(***************************************************************************)
(* Theorems about ServiceRequests, for any requests, lifts, technicians,   *)
(* clients and number of commands.                                         *)
(***************************************************************************)
EXTENDS ServiceRequests, SequenceTheorems, TLAPS

Pcs == {"load", "save", "find", "mark", "request", "lift", "count", "show", "hide", "done"}

\* What the fields of a transaction have to do with each other and with the
\* committed rows and technicians.
Fits(t, rows, ts) ==
    /\ t.pc \in {"find", "mark"} => t.marks # << >>
    /\ t.pc \in {"count", "show", "hide"} => t.shows # << >>
    /\ t.pc \in {"load", "save", "request", "lift"} => t.req # NoReq
    /\ t.req # NoReq => rows[t.req] # NoRow \/ t.put # {}
    /\ t.req = NoReq => t.put = {} /\ (t.pc \in {"find", "mark"} => t.shows # << >>)
    /\ t.req # NoReq => t.pc # "hide" /\ \A x \in Techs : t.wrote[x] # NoRow
    /\ t.pc \in {"load", "save"} =>
          t.want # NoRow /\ rows[t.req] # NoRow /\ t.put = {} /\ t.set = NoSet
    /\ t.pc = "save" => t.row # NoRow
    /\ t.put # {} => t.want # NoRow /\ (rows[t.req] = NoRow => t.put = {"status", "tech"})
    /\ t.want # NoRow /\ t.want.tech # NoTech => ts[t.want.tech] # NoRow
    /\ \A i \in DOMAIN t.shows : ts[t.shows[i]] # NoRow \/ t.set[t.shows[i]] # Unset
    /\ t.wrote # NoSet => t.pc \in {"count", "show", "hide", "done"}
    /\ t.pc = "show" => t.card # NoRow

\* The technician of a request exists.
ForeignKeys ==
    \A r \in Requests :
        request[r] # NoRow /\ request[r].tech # NoTech => tech[request[r].tech] # NoRow

Typed ==
    /\ TypeOK
    /\ ForeignKeys
    /\ \A c \in Clients : tx[c] # NoTx => Fits(tx[c], request, tech)

LEMMA NoTxField == NoTx \notin Tx /\ NoTx.pc = "none"
  BY DEF NoTx, Tx

\* The values that stand for nothing are no rows.
LEMMA Apart ==
    /\ NoRow \notin Row /\ NoRow \notin TechStatus /\ NoRow \notin Card
    /\ Unset # NoRow /\ Unset \notin TechStatus /\ Unset \notin Card /\ Unset \notin Statuses
    /\ Unset \notin Techs /\ Unset # NoTech /\ NoTech \notin Techs /\ NoReq \notin Requests
  BY ServiceRequestsAssumption

LEMMA NoSetTyped ==
    /\ NoSet \in [Techs -> TechStatus \union {Unset}]
    /\ NoSet \in [Techs -> Card \union {NoRow, Unset}]
    /\ \A x \in Techs : NoSet[x] = Unset
  BY DEF NoSet

\* A new transaction, field by field.
LEMMA NewTxTyped ==
    ASSUME NEW pc \in Pcs, NEW r \in Requests \union {NoReq},
           NEW seen \in Row \union {NoRow}, NEW want \in Row \union {NoRow},
           NEW asked \in BOOLEAN, NEW put \in SUBSET {"status", "tech"}, NEW marks \in Seq(Mark),
           NEW set \in [Techs -> TechStatus \union {Unset}], NEW shows \in Seq(Techs)
    PROVE  LET t == NewTx(pc, r, seen, want, asked, put, marks, set, shows)
           IN  /\ t \in Tx
               /\ t.pc = pc /\ t.req = r /\ t.seen = seen /\ t.want = want /\ t.asked = asked
               /\ t.put = put /\ t.marks = marks /\ t.set = set /\ t.shows = shows
               /\ t.wrote = NoSet /\ ~t.crossed
  BY NoSetTyped DEF NewTx, Tx, Pcs

LEMMA HeadAndTail ==
    ASSUME NEW S, NEW s \in Seq(S), s # << >>
    PROVE  /\ Head(s) \in S /\ 1 \in DOMAIN s /\ Head(s) = s[1]
           /\ Tail(s) \in Seq(S) /\ Len(Tail(s)) = Len(s) - 1
           /\ Len(s) > 1 => Tail(s) # << >>
           /\ Tail(s) # << >> => Len(s) > 1
           /\ Len(s) > 1 => Tail(s)[Len(Tail(s))] = s[Len(s)]
           /\ \A i \in DOMAIN Tail(s) : i + 1 \in DOMAIN s /\ Tail(s)[i] = s[i + 1]
  <1>1. /\ Head(s) \in S /\ Tail(s) \in Seq(S) /\ Len(Tail(s)) = Len(s) - 1
        /\ \A i \in 1..Len(Tail(s)) : Tail(s)[i] = s[i + 1]
    BY HeadTailProperties
  <1>2. Len(s) \in Nat \ {0} /\ DOMAIN s = 1..Len(s)
    BY EmptySeq, LenProperties
  <1>3. DOMAIN Tail(s) = 1..Len(Tail(s)) /\ Len(Tail(s)) \in Nat
    BY <1>1, LenProperties
  <1>4. (Tail(s) # << >> => Len(Tail(s)) > 0) /\ (Len(Tail(s)) > 0 => Tail(s) # << >>)
    <2>1. Tail(s) # << >> => Len(Tail(s)) > 0
      BY <1>1, <1>3, EmptySeq
    <2>2. ASSUME Tail(s) = << >> PROVE ~(Len(Tail(s)) > 0)
      <3> DEFINE n == Len(Tail(s))
      <3>1. n = Len(<< >>)
        BY <2>2, Zenon
      <3>2. Len(<< >>) = 0
        BY EmptySeq
      <3> HIDE DEF n
      <3>3. ~(n > 0)
        BY <3>1, <3>2
      <3> QED
        BY <3>3 DEF n
    <2> QED
      BY <2>1, <2>2
  <1>5. Head(s) = s[1]
    BY <1>2
  <1> QED
    BY <1>1, <1>2, <1>3, <1>4, <1>5

LEMMA OneMark == ASSUME NEW m \in Mark PROVE <<m>> \in Seq(Mark)
  OBVIOUS

LEMMA SyncTechniciansMarks ==
    ASSUME NEW old \in Row, NEW new \in Row
    PROVE  LET s == SyncTechnicians(old, new)
           IN  /\ s \in Seq(Mark)
               /\ new.tech # NoTech /\ new.status \in Active =>
                     s # << >> /\ s[Len(s)] = [tech |-> new.tech, status |-> "busy"]
  <1> DEFINE left == old.tech # NoTech /\ old.tech # new.tech /\ old.status \in Active
             a == IF left THEN <<[tech |-> old.tech, status |-> "free"]>> ELSE << >>
             b == IF new.tech = NoTech \/ new.status = "pending" THEN << >>
                  ELSE <<[tech |-> new.tech,
                          status |-> IF new.status \in Active THEN "busy" ELSE "free"]>>
  <1>0. \A x \in Techs, st \in TechStatus : <<[tech |-> x, status |-> st]>> \in Seq(Mark)
    BY OneMark DEF Mark
  <1>1. a \in Seq(Mark)
    <2>1. CASE left
      <3>1. old.tech \in Techs /\ "free" \in TechStatus
        BY <2>1 DEF Row, TechStatus
      <3> QED
        BY <1>0, <2>1, <3>1
    <2>2. CASE ~left
      BY <2>2
    <2> QED
      BY <2>1, <2>2
  <1>2. b \in Seq(Mark)
    <2> DEFINE st == IF new.status \in Active THEN "busy" ELSE "free"
    <2>1. CASE new.tech = NoTech \/ new.status = "pending"
      BY <2>1
    <2>2. CASE ~(new.tech = NoTech \/ new.status = "pending")
      <3>1. new.tech \in Techs /\ st \in TechStatus
        BY <2>2 DEF Row, TechStatus
      <3>2. b = <<[tech |-> new.tech, status |-> st]>>
        BY <2>2
      <3> HIDE DEF st
      <3> QED
        BY <1>0, <3>1, <3>2
    <2> QED
      BY <2>1, <2>2
  <1>3. SyncTechnicians(old, new) = a \o b
    BY DEF SyncTechnicians
  <1>4. new.tech # NoTech /\ new.status \in Active =>
           b = <<[tech |-> new.tech, status |-> "busy"]>>
    BY DEF Active
  <1> HIDE DEF a, b
  <1>5. a \o b \in Seq(Mark)
    BY <1>1, <1>2
  <1>6. ASSUME NEW m, b = <<m>> PROVE a \o b # << >> /\ (a \o b)[Len(a \o b)] = m
    BY <1>1, <1>2, <1>6
  <1> QED
    BY <1>3, <1>4, <1>5, <1>6

LEMMA TouchedTechs ==
    ASSUME NEW old \in Row, NEW new \in Row
    PROVE  LET s == Touched(old, new)
           IN  /\ s \in Seq(Techs)
               /\ \A i \in DOMAIN s : s[i] \in {old.tech, new.tech} /\ s[i] # NoTech
  <1> DEFINE a == IF old.tech = NoTech THEN << >> ELSE <<old.tech>>
             b == IF new.tech \in {NoTech, old.tech} THEN << >> ELSE <<new.tech>>
  <1>1. a \in Seq(Techs) /\ \A i \in DOMAIN a : a[i] = old.tech /\ a[i] # NoTech
    BY DEF Row
  <1>2. b \in Seq(Techs) /\ \A i \in DOMAIN b : b[i] = new.tech /\ b[i] # NoTech
    BY DEF Row
  <1>3. Touched(old, new) = a \o b
    BY DEF Touched
  <1> HIDE DEF a, b
  <1> QED
    BY <1>1, <1>2, <1>3

LEMMA WantedTyped ==
    ASSUME NEW row \in Row, NEW body \in Bodies
    PROVE  Wanted(row, body) \in Row
  BY ServiceRequestsAssumption DEF Wanted, Row, Body

LEMMA FieldsOfTx ==
    ASSUME NEW t \in Tx
    PROVE  /\ t.pc \in Pcs /\ t.req \in Requests \union {NoReq}
           /\ t.seen \in Row \union {NoRow} /\ t.want \in Row \union {NoRow}
           /\ t.row \in Row \union {NoRow} /\ t.put \in SUBSET {"status", "tech"}
           /\ t.marks \in Seq(Mark) /\ t.found \in TechStatus \union {NoRow}
           /\ t.set \in [Techs -> TechStatus \union {Unset}] /\ t.shows \in Seq(Techs)
           /\ t.card \in Card \union {NoRow} /\ t.wrote \in [Techs -> Card \union {NoRow, Unset}]
           /\ t.asked \in BOOLEAN /\ t.crossed \in BOOLEAN
  BY DEF Tx, Pcs

\* A client's next statement, typed and fitting, keeps the invariant.
LEMMA StepKeepsTyped ==
    ASSUME Typed, NEW c \in Clients, NEW t \in Tx, Fits(t, request, tech),
           tx' = [tx EXCEPT ![c] = t], UNCHANGED <<request, tech, shown>>, issued' \in Nat
    PROVE  Typed'
  <1>1. TypeOK'
    BY DEF Typed, TypeOK
  <1>2. \A d \in Clients : tx'[d] = IF d = c THEN t ELSE tx[d]
    BY DEF Typed, TypeOK
  <1> QED
    BY <1>1, <1>2 DEF Typed, ForeignKeys

-----------------------------------------------------------------------------
(* Types: a command begins.                                                *)

LEMMA BeginKeepsTyped ==
    ASSUME Typed, NEW c \in Clients, NEW t \in Tx, Fits(t, request, tech), Begin(c, t)
    PROVE  Typed'
  <1>1. issued' \in Nat
    BY DEF Begin, Typed, TypeOK
  <1> QED
    BY <1>1, StepKeepsTyped DEF Begin

\* The row of a request that is there, with its technician.
LEMMA RowThere ==
    ASSUME Typed, NEW r \in Requests, request[r] # NoRow
    PROVE  /\ request[r] \in Row
           /\ request[r].tech # NoTech => tech[request[r].tech] # NoRow
  BY DEF Typed, TypeOK, ForeignKeys

\* A command on a request, from what it read and what it wants.
LEMMA RequestTxFits ==
    ASSUME Typed, NEW pc \in {"load", "find", "request", "lift"}, NEW r \in Requests,
           NEW seen \in Row \union {NoRow}, NEW old \in Row, NEW new \in Row,
           NEW asked \in BOOLEAN, NEW put \in SUBSET {"status", "tech"}, NEW marks \in Seq(Mark),
           pc = "find" => marks # << >>,
           pc = "load" => request[r] # NoRow /\ put = {},
           put # {} => put = {"status", "tech"}, put # {} \/ request[r] # NoRow,
           old.tech # NoTech => tech[old.tech] # NoRow,
           new.tech # NoTech => tech[new.tech] # NoRow
    PROVE  LET t == NewTx(pc, r, seen, new, asked, put, marks, NoSet, Touched(old, new))
           IN  t \in Tx /\ Fits(t, request, tech)
  <1> DEFINE shows == Touched(old, new)
             t == NewTx(pc, r, seen, new, asked, put, marks, NoSet, shows)
  <1>1. /\ shows \in Seq(Techs)
        /\ \A i \in DOMAIN shows : tech[shows[i]] # NoRow
    BY TouchedTechs
  <1> HIDE DEF shows
  <1>2. /\ t \in Tx
        /\ t.pc = pc /\ t.req = r /\ t.want = new /\ t.put = put /\ t.marks = marks
        /\ t.set = NoSet /\ t.shows = shows /\ t.wrote = NoSet
    BY <1>1, NoSetTyped DEF NewTx, Tx
  <1> HIDE DEF t
  <1>3. Fits(t, request, tech)
    BY <1>1, <1>2, Apart, NoSetTyped DEF Fits
  <1> QED
    BY <1>2, <1>3 DEF t, shows

LEMMA CreateRequestTyped ==
    ASSUME Typed, NEW c \in Clients, NEW r \in Requests, NEW new \in Row,
           CreateRequest(c, r, new)
    PROVE  Typed'
  <1> DEFINE old == [status |-> "pending", tech |-> NoTech]
             marks == SyncTechnicians(old, new)
             pc == AfterSave(marks)
             put == {"status", "tech"}
             t == NewTx(pc, r, NoRow, new, TRUE, put, marks, NoSet, Touched(old, new))
  <1>1. old \in Row
    BY ServiceRequestsAssumption DEF Row
  <1>2. marks \in Seq(Mark)
    BY <1>1, SyncTechniciansMarks
  <1>3. /\ Begin(c, t)
        /\ new.tech # NoTech => tech[new.tech] # NoRow
    BY DEF CreateRequest
  <1>4. old.tech = NoTech
    OBVIOUS
  <1>5. pc \in {"load", "find", "request", "lift"} /\ pc # "load" /\ (pc = "find" => marks # << >>)
    BY DEF AfterSave
  <1> HIDE DEF old, marks, pc, put
  <1>6. put \in SUBSET {"status", "tech"} /\ put = {"status", "tech"} /\ put # {}
    BY DEF put
  <1>7. t \in Tx /\ Fits(t, request, tech)
    BY <1>1, <1>2, <1>3, <1>4, <1>5, <1>6, RequestTxFits
  <1> QED
    BY <1>3, <1>7, BeginKeepsTyped

LEMMA OnRequestTyped ==
    ASSUME Typed, NEW c \in Clients, NEW r \in Requests, request[r] # NoRow,
           NEW new \in Row, NEW asked \in BOOLEAN,
           new.tech # NoTech => tech[new.tech] # NoRow,
           Begin(c, NewTx("load", r, request[r], new, asked, {},
                          SyncTechnicians(request[r], new), NoSet, Touched(request[r], new)))
    PROVE  Typed'
  <1> DEFINE old == request[r]
             marks == SyncTechnicians(old, new)
             t == NewTx("load", r, old, new, asked, {}, marks, NoSet, Touched(old, new))
  <1>1. old \in Row /\ (old.tech # NoTech => tech[old.tech] # NoRow)
    BY RowThere
  <1>2. marks \in Seq(Mark)
    BY <1>1, SyncTechniciansMarks
  <1> HIDE DEF marks
  <1>3. t \in Tx /\ Fits(t, request, tech)
    BY <1>1, <1>2, RequestTxFits
  <1> QED
    BY <1>3, BeginKeepsTyped DEF marks

LEMMA BeginsTyped ==
    ASSUME Typed, NEW c \in Clients, Command(c)
    PROVE  Typed'
  <1>1. ASSUME NEW r \in Requests, NEW new \in Row, CreateRequest(c, r, new) PROVE Typed'
    BY <1>1, CreateRequestTyped
  <1>2. ASSUME NEW r \in Requests, NEW body \in Bodies, UpdateRequest(c, r, body) PROVE Typed'
    <2>1. request[r] \in Row
      BY <1>2, RowThere DEF UpdateRequest
    <2>2. Wanted(request[r], body) \in Row /\ (body.status # Unset) \in BOOLEAN
      BY <2>1, WantedTyped
    <2> QED
      BY <1>2, <2>2, OnRequestTyped DEF UpdateRequest
  <1>3. ASSUME NEW r \in Requests, FileReport(c, r) PROVE Typed'
    <2> DEFINE new == [status |-> "completed", tech |-> request[r].tech]
    <2>1. request[r] # NoRow /\ request[r] \in Row
      BY <1>3, RowThere DEF FileReport
    <2>2. new \in Row /\ (new.tech # NoTech => tech[new.tech] # NoRow)
      BY <2>1, RowThere, ServiceRequestsAssumption DEF Row
    <2>3. Begin(c, NewTx("load", r, request[r], new, TRUE, {},
                         SyncTechnicians(request[r], new), NoSet, Touched(request[r], new)))
      BY <1>3 DEF FileReport
    <2> HIDE DEF new
    <2> QED
      BY <2>1, <2>2, <2>3, OnRequestTyped
  <1>4. ASSUME NEW r \in Requests, DeleteRequest(c, r) PROVE Typed'
    <2> DEFINE old == request[r]
               t == NewTx("lift", r, old, old, FALSE, {}, << >>, NoSet, Touched(old, old))
    <2>1. old # NoRow /\ old \in Row /\ (old.tech # NoTech => tech[old.tech] # NoRow)
      BY <1>4, RowThere DEF DeleteRequest
    <2>2. << >> \in Seq(Mark)
      OBVIOUS
    <2>3. t \in Tx /\ Fits(t, request, tech)
      BY <2>1, <2>2, RequestTxFits
    <2> QED
      BY <1>4, <2>3, BeginKeepsTyped DEF DeleteRequest
  <1>5. ASSUME NEW x \in Techs, NEW s \in TechStatus, CreateTech(c, x, s) PROVE Typed'
    <2> DEFINE set == [NoSet EXCEPT ![x] = s]
               t == NewTx("count", NoReq, NoRow, NoRow, FALSE, {}, << >>, set, <<x>>)
    <2>1. set \in [Techs -> TechStatus \union {Unset}] /\ set[x] # Unset
      BY Apart, NoSetTyped
    <2>2. << >> \in Seq(Mark) /\ <<x>> \in Seq(Techs) /\ <<x>> # << >>
          /\ DOMAIN <<x>> = {1} /\ <<x>>[1] = x
      OBVIOUS
    <2> HIDE DEF set
    <2>3. /\ t \in Tx /\ t.pc = "count" /\ t.req = NoReq /\ t.want = NoRow /\ t.put = {}
          /\ t.set = set /\ t.shows = <<x>> /\ t.wrote = NoSet
      BY <2>1, <2>2, NoSetTyped DEF NewTx, Tx
    <2> HIDE DEF t
    <2>4. Fits(t, request, tech)
      BY <2>1, <2>2, <2>3 DEF Fits
    <2> QED
      BY <1>5, <2>3, <2>4, BeginKeepsTyped DEF CreateTech, t, set
  <1>6. ASSUME NEW x \in Techs, NEW s \in TechStatus \union {Unset}, UpdateTech(c, x, s)
        PROVE  Typed'
    <2> DEFINE m == [tech |-> x, status |-> IF s = Unset THEN tech[x] ELSE s]
               t == NewTx("find", NoReq, NoRow, NoRow, FALSE, {}, <<m>>, NoSet, <<x>>)
    <2>1. tech[x] # NoRow /\ tech[x] \in TechStatus
      BY <1>6 DEF UpdateTech, Typed, TypeOK
    <2>2. m \in Mark
      BY <2>1 DEF Mark
    <2>3. Begin(c, t)
      BY <1>6 DEF UpdateTech
    <2> HIDE DEF m
    <2>4. <<m>> \in Seq(Mark) /\ <<m>> # << >>
      BY <2>2
    <2>5. <<x>> \in Seq(Techs) /\ <<x>> # << >> /\ DOMAIN <<x>> = {1} /\ <<x>>[1] = x
      OBVIOUS
    <2>6. /\ t \in Tx /\ t.pc = "find" /\ t.req = NoReq /\ t.want = NoRow /\ t.put = {}
          /\ t.marks = <<m>> /\ t.set = NoSet /\ t.shows = <<x>> /\ t.wrote = NoSet
      BY <2>4, <2>5, NoSetTyped DEF NewTx, Tx
    <2> HIDE DEF t
    <2>7. Fits(t, request, tech)
      BY <2>1, <2>4, <2>5, <2>6 DEF Fits
    <2> QED
      BY <2>3, <2>6, <2>7, BeginKeepsTyped
  <1>7. ASSUME NEW x \in Techs, DeleteTech(c, x) PROVE Typed'
    <2> DEFINE t == NewTx("hide", NoReq, NoRow, NoRow, FALSE, {}, << >>, NoSet, <<x>>)
    <2>1. << >> \in Seq(Mark) /\ <<x>> \in Seq(Techs) /\ <<x>> # << >>
          /\ DOMAIN <<x>> = {1} /\ <<x>>[1] = x
      OBVIOUS
    <2>2. tech[x] # NoRow /\ Begin(c, t)
      BY <1>7 DEF DeleteTech
    <2>3. /\ t \in Tx /\ t.pc = "hide" /\ t.req = NoReq /\ t.want = NoRow /\ t.put = {}
          /\ t.set = NoSet /\ t.shows = <<x>> /\ t.wrote = NoSet
      BY <2>1, NoSetTyped DEF NewTx, Tx
    <2> HIDE DEF t
    <2>4. Fits(t, request, tech)
      BY <2>1, <2>2, <2>3 DEF Fits
    <2> QED
      BY <2>2, <2>3, <2>4, BeginKeepsTyped
  <1> QED
    BY <1>1, <1>2, <1>3, <1>4, <1>5, <1>6, <1>7 DEF Command

-----------------------------------------------------------------------------
(* Types: its statements.                                                  *)

LEMMA StepTyped ==
    ASSUME Typed, NEW c \in Clients, NEW t \in Tx, Fits(t, request, tech), Step(c, t)
    PROVE  Typed'
  <1>1. issued' \in Nat
    BY DEF Step, Typed, TypeOK
  <1> QED
    BY <1>1, StepKeepsTyped DEF Step

\* A transaction that is somewhere.
LEMMA InFlight ==
    ASSUME Typed, NEW c \in Clients, tx[c].pc \in Pcs
    PROVE  tx[c] \in Tx /\ tx[c] # NoTx /\ Fits(tx[c], request, tech)
  BY NoTxField DEF Typed, TypeOK, Pcs

LEMMA TechSeenTyped ==
    ASSUME Typed, NEW c \in Clients, tx[c] \in Tx, NEW x \in Techs
    PROVE  /\ TechSeenBy(c, x) \in TechStatus \union {NoRow}
           /\ tech[x] # NoRow \/ tx[c].set[x] # Unset => TechSeenBy(c, x) \in TechStatus
  BY FieldsOfTx, Apart DEF TechSeenBy, Typed, TypeOK

LEMMA LoadTyped == ASSUME Typed, NEW c \in Clients, Load(c) PROVE Typed'
  <1> DEFINE t == tx[c]
             row == request[t.req]
             u == [t EXCEPT !.pc = "save", !.row = row]
  <1>1. t \in Tx /\ t.pc = "load" /\ Fits(t, request, tech) /\ Step(c, u)
    BY InFlight DEF Load, Pcs
  <1>2. t.req \in Requests /\ row \in Row /\ row # NoRow
    BY <1>1, FieldsOfTx, RowThere DEF Fits
  <1> HIDE DEF t, row
  <1>3. u \in Tx
    BY <1>1, <1>2 DEF Tx
  <1>4. Fits(u, request, tech)
    BY <1>1, <1>2, Apart DEF Fits, Tx
  <1> QED
    BY <1>1, <1>3, <1>4, StepTyped

LEMMA SaveTyped == ASSUME Typed, NEW c \in Clients, Save(c) PROVE Typed'
  <1> DEFINE t == tx[c]
             pc == AfterSave(t.marks)
             put == Differs(t)
             u == [t EXCEPT !.pc = pc, !.put = put]
  <1>1. t \in Tx /\ t.pc = "save" /\ Fits(t, request, tech) /\ Step(c, u)
    BY InFlight DEF Save, Pcs
  <1>2. put \in SUBSET {"status", "tech"}
    BY DEF Differs
  <1>3. pc \in {"find", "request"} /\ (pc = "find" => t.marks # << >>)
    BY DEF AfterSave
  <1> HIDE DEF t, pc, put
  <1>4. u \in Tx
    BY <1>1, <1>2, <1>3 DEF Tx
  <1>5. Fits(u, request, tech)
    BY <1>1, <1>2, <1>3, FieldsOfTx, Apart DEF Fits, Tx
  <1> QED
    BY <1>1, <1>4, <1>5, StepTyped

LEMMA FindTyped == ASSUME Typed, NEW c \in Clients, Find(c) PROVE Typed'
  <1> DEFINE t == tx[c]
             found == TechSeenBy(c, Head(t.marks).tech)
             u == [t EXCEPT !.pc = "mark", !.found = found]
  <1>1. t \in Tx /\ t.pc = "find" /\ Fits(t, request, tech) /\ Step(c, u)
    BY InFlight DEF Find, Pcs
  <1>2. t.marks \in Seq(Mark) /\ t.marks # << >>
    BY <1>1, FieldsOfTx DEF Fits
  <1>3. Head(t.marks).tech \in Techs
    <2>1. Head(t.marks) \in Mark
      BY <1>2, HeadAndTail
    <2> QED
      BY <2>1 DEF Mark
  <1>4. found \in TechStatus \union {NoRow}
    BY <1>1, <1>3, TechSeenTyped
  <1> HIDE DEF t, found
  <1>5. u \in Tx
    BY <1>1, <1>4 DEF Tx
  <1>6. Fits(u, request, tech)
    BY <1>1, <1>4 DEF Fits, Tx
  <1> QED
    BY <1>1, <1>5, <1>6, StepTyped

LEMMA MarkTechTyped == ASSUME Typed, NEW c \in Clients, MarkTech(c) PROVE Typed'
  <1> DEFINE t == tx[c]
             m == Head(t.marks)
             rest == Tail(t.marks)
             pc == AfterMarks(t)
             set == IF Changes(t) THEN [t.set EXCEPT ![m.tech] = m.status] ELSE t.set
             u == [t EXCEPT !.pc = pc, !.marks = rest, !.set = set]
  <1>1. t \in Tx /\ t.pc = "mark" /\ Fits(t, request, tech)
    BY InFlight DEF MarkTech, Pcs
  <1>2. Step(c, u)
    BY DEF MarkTech
  <1>3. t.marks \in Seq(Mark) /\ t.marks # << >> /\ rest \in Seq(Mark) /\ m \in Mark
        /\ (Len(t.marks) > 1 => rest # << >>)
    <2>1. t.marks \in Seq(Mark) /\ t.marks # << >>
      BY <1>1, FieldsOfTx DEF Fits
    <2> QED
      BY <2>1, HeadAndTail
  <1>4. set \in [Techs -> TechStatus \union {Unset}]
    BY <1>1, <1>3, FieldsOfTx DEF Mark
  <1>5. \A x \in Techs : t.set[x] # Unset => set[x] # Unset
    BY <1>1, <1>3, FieldsOfTx, Apart DEF Mark
  <1>6. /\ pc \in {"find", "count", "request"}
        /\ pc = "find" => rest # << >>
        /\ pc = "count" => t.req = NoReq
        /\ pc = "request" => t.req # NoReq
    BY <1>3 DEF AfterMarks
  <1> HIDE DEF t, m, rest, pc, set
  <1>7. u \in Tx
    BY <1>1, <1>3, <1>4, <1>6 DEF Tx
  <1>8. /\ u.pc = pc /\ u.marks = rest /\ u.set = set /\ u.req = t.req /\ u.want = t.want
        /\ u.row = t.row /\ u.put = t.put /\ u.shows = t.shows /\ u.wrote = t.wrote
    BY <1>1 DEF Tx
  <1>9. t.shows \in Seq(Techs)
    BY <1>1, FieldsOfTx
  <1> HIDE DEF u
  <1>10. Fits(u, request, tech)
    BY <1>1, <1>5, <1>6, <1>8, <1>9 DEF Fits
  <1> QED
    BY <1>2, <1>7, <1>10, StepTyped

\* The row that a transaction leaves of its request.
LEMMA MergedRow ==
    ASSUME Typed, NEW c \in Clients, tx[c] \in Tx, Fits(tx[c], request, tech), tx[c].put # {}
    PROVE  LET r == tx[c].req
               row == Merge(tx[c], request[r])
           IN  /\ r \in Requests /\ row \in Row
               /\ row.tech # NoTech => tech[row.tech] # NoRow
  <1> DEFINE t == tx[c]
             r == t.req
             row == Merge(t, request[r])
  <1>1. t \in Tx /\ Fits(t, request, tech) /\ t.put # {}
    OBVIOUS
  <1>2. r \in Requests /\ t.want \in Row /\ t.put \in SUBSET {"status", "tech"}
    BY <1>1, FieldsOfTx DEF Fits
  <1>3. t.want.tech # NoTech => tech[t.want.tech] # NoRow
    BY <1>1, <1>2, Apart DEF Fits
  <1>4. CASE request[r] = NoRow
    <2>1. row = [status |-> t.want.status, tech |-> t.want.tech]
      BY <1>1, <1>4 DEF Fits, Merge
    <2> QED
      BY <1>2, <1>3, <2>1 DEF Row
  <1>5. CASE request[r] # NoRow
    <2>1. request[r] \in Row /\ (request[r].tech # NoTech => tech[request[r].tech] # NoRow)
      BY <1>2, <1>5, RowThere
    <2>2. /\ row.status \in {t.want.status, request[r].status}
          /\ row.tech \in {t.want.tech, request[r].tech}
          /\ row = [status |-> row.status, tech |-> row.tech]
      BY DEF Merge
    <2>3. row \in Row
      BY <1>2, <2>1, <2>2 DEF Row
    <2> QED
      BY <1>2, <1>3, <2>1, <2>2, <2>3
  <1> QED
    BY <1>2, <1>4, <1>5

\* The technician of the request's row, as the transaction sees it.
LEMMA TechOfRowTyped ==
    ASSUME Typed, NEW c \in Clients, tx[c] \in Tx, Fits(tx[c], request, tech), tx[c].req # NoReq
    PROVE  LET s == TechOfRow(c)
           IN  s \in Seq(Techs) /\ \A i \in DOMAIN s : tech[s[i]] # NoRow
  <1> DEFINE t == tx[c]
             row == RequestsSeenBy(c)[t.req]
  <1>1. t.req \in Requests
    BY FieldsOfTx
  <1>2. row \in Row /\ (row.tech # NoTech => tech[row.tech] # NoRow)
    <2>1. CASE t.put # {}
      BY <1>1, <2>1, MergedRow DEF RequestsSeenBy
    <2>2. CASE t.put = {}
      BY <1>1, <2>2, RowThere DEF RequestsSeenBy, Fits
    <2> QED
      BY <2>1, <2>2
  <1>3. TechOfRow(c) = IF row.tech = NoTech THEN << >> ELSE <<row.tech>>
    BY DEF TechOfRow
  <1> HIDE DEF row
  <1> QED
    BY <1>2, <1>3 DEF Row

LEMMA ShowRequestTyped == ASSUME Typed, NEW c \in Clients, ShowRequest(c) PROVE Typed'
  <1> DEFINE t == tx[c]
             more == TechOfRow(c)
             u == [t EXCEPT !.pc = "lift", !.shows = more \o t.shows]
  <1>1. t \in Tx /\ t.pc = "request" /\ Fits(t, request, tech)
    BY InFlight DEF ShowRequest, Pcs
  <1>2. Step(c, u)
    BY DEF ShowRequest
  <1>3. more \in Seq(Techs) /\ (\A i \in DOMAIN more : tech[more[i]] # NoRow)
    BY <1>1, TechOfRowTyped DEF Fits
  <1>4. t.shows \in Seq(Techs)
    BY <1>1, FieldsOfTx
  <1> DEFINE shows == more \o t.shows
  <1>5. /\ shows \in Seq(Techs)
        /\ \A i \in DOMAIN shows :
              \/ i \in DOMAIN more /\ shows[i] = more[i]
              \/ \E j \in DOMAIN t.shows : shows[i] = t.shows[j]
    <2> HIDE DEF more
    <2>1. shows \in Seq(Techs)
      BY <1>3, <1>4
    <2>2. ASSUME NEW i \in DOMAIN shows
          PROVE  \/ i \in DOMAIN more /\ shows[i] = more[i]
                 \/ \E j \in DOMAIN t.shows : shows[i] = t.shows[j]
      <3>1. CASE i <= Len(more)
        BY <1>3, <1>4, <2>2, <3>1
      <3>2. CASE i > Len(more)
        <4>1. i - Len(more) \in DOMAIN t.shows /\ shows[i] = t.shows[i - Len(more)]
          BY <1>3, <1>4, <2>2, <3>2
        <4> QED
          BY <4>1
      <3> QED
        BY <1>3, <1>4, <2>2, <3>1, <3>2
    <2> QED
      BY <2>1, <2>2
  <1> HIDE DEF t, more, shows
  <1>6. u = [t EXCEPT !.pc = "lift", !.shows = shows]
    BY DEF shows
  <1> HIDE DEF u
  <1>7. u \in Tx
    BY <1>1, <1>5, <1>6 DEF Tx
  <1>8. /\ u.pc = "lift" /\ u.shows = shows /\ u.req = t.req /\ u.want = t.want
        /\ u.row = t.row /\ u.put = t.put /\ u.set = t.set /\ u.marks = t.marks
        /\ u.wrote = t.wrote
    BY <1>1, <1>6 DEF Tx
  <1>9. Fits(u, request, tech)
    BY <1>1, <1>3, <1>5, <1>8 DEF Fits
  <1> QED
    BY <1>2, <1>7, <1>9, StepTyped

LEMMA RefreshLiftTyped == ASSUME Typed, NEW c \in Clients, RefreshLift(c) PROVE Typed'
  <1> DEFINE t == tx[c]
             pc == IF t.shows = << >> THEN "done" ELSE "count"
             u == [t EXCEPT !.pc = pc]
  <1>1. t \in Tx /\ t.pc = "lift" /\ Fits(t, request, tech) /\ Step(c, u)
    BY InFlight DEF RefreshLift, Pcs
  <1>2. pc \in {"done", "count"} /\ (pc = "count" => t.shows # << >>)
    OBVIOUS
  <1> HIDE DEF t, pc
  <1>3. u \in Tx
    BY <1>1, <1>2 DEF Tx
  <1>4. Fits(u, request, tech)
    BY <1>1, <1>2 DEF Fits, Tx
  <1> QED
    BY <1>1, <1>3, <1>4, StepTyped

LEMMA CountTyped == ASSUME Typed, NEW c \in Clients, Count(c) PROVE Typed'
  <1> DEFINE t == tx[c]
             x == Head(t.shows)
             card == [status |-> TechSeenBy(c, x), active |-> ActiveOf(RequestsSeenBy(c), x)]
             u == [t EXCEPT !.pc = "show", !.card = card]
  <1>1. t \in Tx /\ t.pc = "count" /\ Fits(t, request, tech) /\ Step(c, u)
    BY InFlight DEF Count, Pcs
  <1>2. t.shows \in Seq(Techs) /\ t.shows # << >>
    BY <1>1, FieldsOfTx DEF Fits
  <1>3. x \in Techs /\ 1 \in DOMAIN t.shows /\ x = t.shows[1]
    BY <1>2, HeadAndTail
  <1>4. tech[x] # NoRow \/ t.set[x] # Unset
    BY <1>1, <1>3 DEF Fits
  <1>5. TechSeenBy(c, x) \in TechStatus
    BY <1>1, <1>3, <1>4, TechSeenTyped
  <1>6. card \in Card /\ card # NoRow
    BY <1>5, Apart DEF Card, ActiveOf
  <1> HIDE DEF t, card
  <1>7. u \in Tx
    BY <1>1, <1>6 DEF Tx
  <1>8. Fits(u, request, tech)
    BY <1>1, <1>2, <1>6 DEF Fits, Tx
  <1> QED
    BY <1>1, <1>7, <1>8, StepTyped

LEMMA ShowTyped == ASSUME Typed, NEW c \in Clients, Show(c) PROVE Typed'
  <1> DEFINE t == tx[c]
             x == Head(t.shows)
             rest == Tail(t.shows)
             pc == IF Len(t.shows) > 1 THEN "count" ELSE "done"
             wrote == [t.wrote EXCEPT ![x] = t.card]
             u == [t EXCEPT !.pc = pc, !.shows = rest, !.wrote = wrote]
  <1>1. t \in Tx /\ t.pc = "show" /\ Fits(t, request, tech)
    BY InFlight DEF Show, Pcs
  <1>2. Step(c, u)
    BY DEF Show
  <1>3. /\ t.shows \in Seq(Techs) /\ t.shows # << >>
        /\ t.card \in Card /\ t.wrote \in [Techs -> Card \union {NoRow, Unset}]
    BY <1>1, FieldsOfTx DEF Fits
  <1>4. x \in Techs /\ rest \in Seq(Techs) /\ (Len(t.shows) > 1 => rest # << >>)
    BY <1>3, HeadAndTail
  <1>5. \A i \in DOMAIN rest : i + 1 \in DOMAIN t.shows /\ rest[i] = t.shows[i + 1]
    BY <1>3, HeadAndTail
  <1>6. /\ wrote \in [Techs -> Card \union {NoRow, Unset}]
        /\ \A y \in Techs : wrote[y] = NoRow => t.wrote[y] = NoRow
    BY <1>3, <1>4, Apart
  <1>7. pc \in {"count", "done"} /\ (pc = "count" => rest # << >>)
    BY <1>4
  <1> HIDE DEF t, x, rest, pc, wrote
  <1>8. u \in Tx
    BY <1>1, <1>4, <1>6, <1>7 DEF Tx
  <1>9. /\ u.pc = pc /\ u.shows = rest /\ u.wrote = wrote /\ u.req = t.req /\ u.want = t.want
        /\ u.row = t.row /\ u.put = t.put /\ u.set = t.set /\ u.marks = t.marks
    BY <1>1 DEF Tx
  <1> HIDE DEF u
  <1>10. Fits(u, request, tech)
    BY <1>1, <1>5, <1>6, <1>7, <1>9 DEF Fits
  <1> QED
    BY <1>2, <1>8, <1>10, StepTyped

LEMMA HideTyped == ASSUME Typed, NEW c \in Clients, Hide(c) PROVE Typed'
  <1> DEFINE t == tx[c]
             x == Head(t.shows)
             wrote == IF shown[x] = NoRow THEN t.wrote ELSE [t.wrote EXCEPT ![x] = NoRow]
             u == [t EXCEPT !.pc = "done", !.shows = << >>, !.wrote = wrote]
  <1>1. t \in Tx /\ t.pc = "hide" /\ Fits(t, request, tech)
    BY InFlight DEF Hide, Pcs
  <1>2. Step(c, u)
    BY DEF Hide
  <1>3. wrote \in [Techs -> Card \union {NoRow, Unset}]
    BY <1>1, FieldsOfTx
  <1>4. << >> \in Seq(Techs) /\ DOMAIN << >> = {}
    OBVIOUS
  <1> HIDE DEF t, x, wrote
  <1>5. u \in Tx
    BY <1>1, <1>3, <1>4 DEF Tx
  <1>6. /\ u.pc = "done" /\ u.shows = << >> /\ u.wrote = wrote /\ u.req = t.req
        /\ u.want = t.want /\ u.put = t.put /\ u.set = t.set
    BY <1>1 DEF Tx
  <1> HIDE DEF u
  <1>7. Fits(u, request, tech)
    BY <1>1, <1>4, <1>6 DEF Fits
  <1> QED
    BY <1>2, <1>5, <1>7, StepTyped

-----------------------------------------------------------------------------
(* Types: its end.                                                         *)

\* Rows and technicians do not go.
LEMMA FitsLater ==
    ASSUME NEW t \in Tx, NEW rows, NEW ts, NEW rows2, NEW ts2, Fits(t, rows, ts),
           \A r \in Requests : rows[r] # NoRow => rows2[r] # NoRow,
           \A x \in Techs : ts[x] # NoRow => ts2[x] # NoRow,
           NEW u \in {t, [t EXCEPT !.crossed = TRUE]}
    PROVE  u \in Tx /\ Fits(u, rows2, ts2)
  <1>1. u \in Tx
    <2>1. [t EXCEPT !.crossed = TRUE] \in Tx
      BY DEF Tx
    <2> QED
      BY <2>1
  <1>2. /\ u.pc = t.pc /\ u.req = t.req /\ u.want = t.want /\ u.row = t.row /\ u.put = t.put
        /\ u.marks = t.marks /\ u.set = t.set /\ u.shows = t.shows /\ u.wrote = t.wrote
        /\ u.card = t.card
    BY DEF Tx
  <1>3. /\ t.req \in Requests \union {NoReq} /\ t.want \in Row \union {NoRow}
        /\ t.shows \in Seq(Techs)
    BY FieldsOfTx
  <1>4. t.want # NoRow /\ t.want.tech # NoTech => t.want.tech \in Techs
    BY <1>3 DEF Row
  <1>5. \A i \in DOMAIN t.shows : t.shows[i] \in Techs
    BY <1>3
  <1>6. t.put # {} \/ t.pc \in {"load", "save"} \/ t.req # NoReq => t.req \in Requests
    BY <1>3 DEF Fits
  <1> HIDE DEF Fits
  <1> QED
    BY <1>1, <1>2, <1>4, <1>5, <1>6 DEF Fits

LEMMA CommitTyped == ASSUME Typed, NEW c \in Clients, Commit(c) PROVE Typed'
  <1> DEFINE t == tx[c]
  <1>1. t \in Tx /\ t.pc = "done" /\ Fits(t, request, tech)
    BY InFlight DEF Commit, Pcs
  <1>2. \A r \in Requests :
           /\ request'[r] \in Row \union {NoRow}
           /\ request[r] # NoRow => request'[r] # NoRow
           /\ request'[r] # NoRow /\ request'[r].tech # NoTech => tech[request'[r].tech] # NoRow
    <2> SUFFICES ASSUME NEW r \in Requests
                 PROVE  /\ request'[r] \in Row \union {NoRow}
                        /\ request[r] # NoRow => request'[r] # NoRow
                        /\ request'[r] # NoRow /\ request'[r].tech # NoTech
                              => tech[request'[r].tech] # NoRow
      OBVIOUS
    <2>1. CASE t.req = r /\ t.put # {}
      <3>1. request'[r] = Merge(t, request[r])
        BY <2>1 DEF Commit, RequestsSeenBy
      <3> QED
        BY <1>1, <2>1, <3>1, MergedRow, Apart
    <2>2. CASE ~(t.req = r /\ t.put # {})
      <3>1. request'[r] = request[r]
        BY <2>2 DEF Commit, RequestsSeenBy
      <3> QED
        BY <3>1, RowThere DEF Typed, TypeOK
    <2> QED
      BY <2>1, <2>2
  <1>3. \A x \in Techs :
           /\ tech'[x] \in TechStatus \union {NoRow}
           /\ tech[x] # NoRow => tech'[x] # NoRow
    BY <1>1, TechSeenTyped, Apart DEF Commit
  <1>4. request' \in [Requests -> Row \union {NoRow}] /\ tech' \in [Techs -> TechStatus \union {NoRow}]
    BY <1>2, <1>3 DEF Commit, RequestsSeenBy
  <1>5. shown' \in [Techs -> Card \union {NoRow}]
    BY <1>1, FieldsOfTx DEF Commit, Typed, TypeOK
  <1>6. \A d \in Clients :
           tx'[d] = NoTx \/ (tx'[d] \in Tx /\ Fits(tx'[d], request', tech'))
    <2> SUFFICES ASSUME NEW d \in Clients, tx'[d] # NoTx
                 PROVE  tx'[d] \in Tx /\ Fits(tx'[d], request', tech')
      OBVIOUS
    <2>1. tx[d] \in Tx /\ Fits(tx[d], request, tech) /\ tx'[d] = [tx[d] EXCEPT !.crossed = TRUE]
      BY DEF Commit, Typed, TypeOK
    <2> QED
      BY <1>2, <1>3, <2>1, FitsLater
  <1>7. tx' \in [Clients -> {NoTx} \union Tx] /\ issued' \in Nat
    BY <1>6 DEF Commit, Typed, TypeOK
  <1>8. ForeignKeys'
    <2>1. \A r \in Requests : request'[r] # NoRow /\ request'[r].tech # NoTech => request'[r].tech \in Techs
      BY <1>2 DEF Row
    <2> QED
      BY <1>2, <1>3, <2>1 DEF ForeignKeys
  <1> QED
    BY <1>4, <1>5, <1>6, <1>7, <1>8 DEF Typed, TypeOK

LEMMA NextTyped == ASSUME Typed, [Next]_vars PROVE Typed'
  <1>1. ASSUME NEW c \in Clients, Abort(c) PROVE Typed'
    BY <1>1 DEF Abort, Typed, TypeOK, ForeignKeys
  <1>2. CASE UNCHANGED vars
    BY <1>2 DEF vars, Typed, TypeOK, ForeignKeys
  <1> QED
    BY <1>1, <1>2, BeginsTyped, LoadTyped, SaveTyped, FindTyped, MarkTechTyped, ShowRequestTyped,
       RefreshLiftTyped, CountTyped, ShowTyped, HideTyped, CommitTyped DEF Next, Finish

LEMMA InitTyped == Init => Typed
  <1> SUFFICES ASSUME Init PROVE Typed
    OBVIOUS
  <1>1. shown \in [Techs -> Card \union {NoRow}]
    BY DEF Init, Card, ActiveOf
  <1>2. TypeOK
    BY <1>1 DEF Init, TypeOK
  <1>3. \A c \in Clients : tx[c] = NoTx
    BY DEF Init
  <1>4. ForeignKeys
    BY DEF Init, ForeignKeys, Row
  <1> QED
    BY <1>2, <1>3, <1>4 DEF Typed

LEMMA AlwaysTyped == Spec => []Typed
  BY InitTyped, NextTyped, PTL DEF Spec

\* The rows and the transactions of the commands have their types.
THEOREM TypeCorrect == Spec => []TypeOK
  <1>1. Typed => TypeOK
    BY DEF Typed
  <1> QED
    BY <1>1, AlwaysTyped, PTL

\* No command waits for one that is less far than itself.
THEOREM LocksFollowOneOrder == Spec => []LocksAreOrdered
  <1>1. Typed => LocksAreOrdered
    <2> SUFFICES ASSUME Typed, NEW c \in Clients, NEW d \in Clients, BlockedBy(c, d)
                 PROVE  /\ Rank(c) <= Rank(d)
                        /\ tx[c].pc \in {"save", "lift"} => Rank(c) < Rank(d)
      BY DEF LocksAreOrdered
    <2>1. tx[c] \in Tx /\ Fits(tx[c], request, tech)
      BY DEF BlockedBy, Typed, TypeOK
    <2>2. tx[d] # NoTx => tx[d] \in Tx /\ Fits(tx[d], request, tech) /\ tx[d].pc \in Pcs
      BY FieldsOfTx DEF Typed, TypeOK
    <2>3. CASE tx[c].pc = "save"
      <3>1. tx[d] # NoTx /\ tx[d].put # {}
        BY <2>3 DEF BlockedBy, HoldsRequest
      <3> QED
        BY <2>2, <2>3, <3>1 DEF Fits, Rank
    <2>4. CASE tx[c].pc = "mark"
      <3>1. tx[d] # NoTx /\ tx[d].set # NoSet
        <4>1. Head(tx[c].marks).tech \in Techs
          <5>1. tx[c].marks \in Seq(Mark) /\ tx[c].marks # << >>
            BY <2>1, <2>4, FieldsOfTx DEF Fits
          <5>2. Head(tx[c].marks) \in Mark
            BY <5>1, HeadAndTail
          <5> QED
            BY <5>2 DEF Mark
        <4> QED
          BY <2>4, <4>1, NoSetTyped DEF BlockedBy, HoldsTech
      <3> QED
        BY <2>2, <2>4, <3>1 DEF Fits, Rank
    <2>5. CASE tx[c].pc = "lift"
      <3>1. tx[d].pc \in {"count", "show", "done"}
        BY <2>5 DEF BlockedBy, HoldsLiftRow
      <3> QED
        BY <2>5, <3>1 DEF Rank
    <2>6. CASE tx[c].pc \in {"show", "hide"}
      <3>1. Head(tx[c].shows) \in Techs
        BY <2>1, <2>6, FieldsOfTx, HeadAndTail DEF Fits
      <3>2. tx[d] # NoTx /\ tx[d].wrote # NoSet
        BY <2>6, <3>1, NoSetTyped DEF BlockedBy, HoldsShown
      <3> QED
        BY <2>2, <2>6, <3>2 DEF Fits, Rank
    <2> QED
      BY <2>3, <2>4, <2>5, <2>6 DEF BlockedBy
  <1> QED
    BY <1>1, AlwaysTyped, PTL

-----------------------------------------------------------------------------
(* A command that no other one crosses leaves what it wants.               *)

SeenRow(t, rows) == IF t.put # {} THEN Merge(t, rows[t.req]) ELSE rows[t.req]
SeenTech(t, ts, x) == IF t.set[x] # Unset THEN t.set[x] ELSE ts[x]

Busy(x) == [tech |-> x, status |-> "busy"]

\* Its request's technician is going to be busy, is busy, or is left alone.
Occupied(t, ts) ==
    \/ t.marks # << >> /\ t.marks[Len(t.marks)] = Busy(t.want.tech)
    \/ /\ t.pc \notin {"load", "save"} /\ t.marks = << >>
       /\ SeenTech(t, ts, t.want.tech) = "busy" \/ (t.put = {} /\ t.set = NoSet)

\* The rows it read are still those it would read now.
Alone(t, rows, ts) ==
    t.req # NoReq /\ ~t.crossed =>
        /\ t.want # NoRow
        /\ t.pc = "save" => t.row = rows[t.req]
        /\ t.pc \notin {"load", "save"} => SeenRow(t, rows) = t.want
        /\ t.pc = "mark" => t.found = SeenTech(t, ts, Head(t.marks).tech)
        /\ t.pc \notin {"load", "save", "find", "mark"} => t.marks = << >>
        /\ ~t.asked => t.want.status = rows[t.req].status /\ "status" \notin t.put
        /\ t.want.tech # NoTech /\ t.want.status \in Active => Occupied(t, ts)

EachAlone == \A c \in Clients : tx[c] # NoTx => Alone(tx[c], request, tech)

LEMMA StepKeepsAlone ==
    ASSUME Typed, EachAlone, NEW c \in Clients, NEW t, Alone(t, request, tech),
           tx' = [tx EXCEPT ![c] = t], UNCHANGED <<request, tech>>
    PROVE  EachAlone'
  <1>1. \A d \in Clients : tx'[d] = IF d = c THEN t ELSE tx[d]
    BY DEF Typed, TypeOK
  <1> HIDE DEF Alone
  <1> QED
    BY <1>1 DEF EachAlone

\* A command on a request, as it begins.
LEMMA NewTxAlone ==
    ASSUME Typed, NEW pc \in {"load", "find", "request", "lift"}, NEW r \in Requests,
           NEW seen \in Row \union {NoRow}, NEW new \in Row, NEW asked \in BOOLEAN,
           NEW put \in SUBSET {"status", "tech"}, NEW marks \in Seq(Mark), NEW shows \in Seq(Techs),
           pc # "load" => put = {"status", "tech"} \/ (put = {} /\ request[r] = new),
           pc \in {"request", "lift"} => marks = << >>,
           ~asked => new.status = request[r].status /\ put = {},
           (new.tech # NoTech /\ new.status \in Active) =>
              \/ marks # << >> /\ marks[Len(marks)] = Busy(new.tech)
              \/ pc = "lift" /\ put = {}
    PROVE  Alone(NewTx(pc, r, seen, new, asked, put, marks, NoSet, shows), request, tech)
  <1> DEFINE t == NewTx(pc, r, seen, new, asked, put, marks, NoSet, shows)
  <1>1. /\ t.pc = pc /\ t.req = r /\ t.want = new /\ t.put = put /\ t.marks = marks
        /\ t.set = NoSet /\ t.asked = asked
    BY DEF NewTx
  <1> HIDE DEF t
  <1>2. new # NoRow
    BY Apart
  <1>3. ASSUME pc # "load" PROVE SeenRow(t, request) = new
    <2>1. CASE put = {"status", "tech"}
      <3>1. new = [status |-> new.status, tech |-> new.tech]
        BY DEF Row
      <3> QED
        BY <1>1, <2>1, <3>1 DEF SeenRow, Merge
    <2>2. CASE put = {} /\ request[r] = new
      BY <1>1, <2>2 DEF SeenRow
    <2> QED
      BY <1>3, <2>1, <2>2
  <1>4. new.tech # NoTech /\ new.status \in Active => Occupied(t, tech)
    BY <1>1 DEF Occupied
  <1>5. Alone(t, request, tech)
    BY <1>1, <1>2, <1>3, <1>4 DEF Alone
  <1> QED
    BY <1>5 DEF t

\* A command on a technician has no request.
LEMMA TechTxAlone ==
    ASSUME NEW pc, NEW marks, NEW set, NEW shows
    PROVE  Alone(NewTx(pc, NoReq, NoRow, NoRow, FALSE, {}, marks, set, shows), request, tech)
  <1>1. NewTx(pc, NoReq, NoRow, NoRow, FALSE, {}, marks, set, shows).req = NoReq
    BY DEF NewTx
  <1> QED
    BY <1>1 DEF Alone

LEMMA BeginKeepsAlone ==
    ASSUME Typed, EachAlone, NEW c \in Clients, NEW t, Alone(t, request, tech), Begin(c, t)
    PROVE  EachAlone'
  <1> HIDE DEF Alone
  <1> QED
    BY StepKeepsAlone DEF Begin

LEMMA BeginsAlone ==
    ASSUME Typed, EachAlone, NEW c \in Clients, Command(c)
    PROVE  EachAlone'
  <1>1. ASSUME NEW r \in Requests, NEW new \in Row, CreateRequest(c, r, new) PROVE EachAlone'
    <2> DEFINE old == [status |-> "pending", tech |-> NoTech]
               marks == SyncTechnicians(old, new)
               pc == AfterSave(marks)
               put == {"status", "tech"}
               shows == Touched(old, new)
               t == NewTx(pc, r, NoRow, new, TRUE, put, marks, NoSet, shows)
    <2>1. old \in Row
      BY ServiceRequestsAssumption DEF Row
    <2>2. /\ marks \in Seq(Mark) /\ shows \in Seq(Techs)
          /\ new.tech # NoTech /\ new.status \in Active =>
                marks # << >> /\ marks[Len(marks)] = Busy(new.tech)
      BY <2>1, SyncTechniciansMarks, TouchedTechs DEF Busy
    <2>3. Begin(c, t)
      BY <1>1 DEF CreateRequest
    <2>4. pc \in {"find", "request"} /\ (pc = "request" => marks = << >>)
      BY DEF AfterSave
    <2> HIDE DEF old, marks, pc, put, shows
    <2>5. put \in SUBSET {"status", "tech"} /\ put = {"status", "tech"}
      BY DEF put
    <2>6. Alone(t, request, tech)
      BY <2>2, <2>4, <2>5, NewTxAlone
    <2> QED
      BY <2>3, <2>6, BeginKeepsAlone
  <1>2. ASSUME NEW r \in Requests, NEW new \in Row, NEW asked \in BOOLEAN,
               request[r] # NoRow, ~asked => new.status = request[r].status,
               Begin(c, NewTx("load", r, request[r], new, asked, {},
                              SyncTechnicians(request[r], new), NoSet, Touched(request[r], new)))
        PROVE  EachAlone'
    <2> DEFINE old == request[r]
               marks == SyncTechnicians(old, new)
               shows == Touched(old, new)
               t == NewTx("load", r, old, new, asked, {}, marks, NoSet, shows)
    <2>1. old \in Row
      BY <1>2, RowThere
    <2>2. /\ marks \in Seq(Mark) /\ shows \in Seq(Techs)
          /\ new.tech # NoTech /\ new.status \in Active =>
                marks # << >> /\ marks[Len(marks)] = Busy(new.tech)
      BY <2>1, SyncTechniciansMarks, TouchedTechs DEF Busy
    <2>3. Begin(c, t)
      BY <1>2
    <2> HIDE DEF marks, shows
    <2>4. Alone(t, request, tech)
      BY <1>2, <2>1, <2>2, NewTxAlone
    <2> QED
      BY <2>3, <2>4, BeginKeepsAlone
  <1>3. ASSUME NEW r \in Requests, NEW body \in Bodies, UpdateRequest(c, r, body) PROVE EachAlone'
    <2> DEFINE new == Wanted(request[r], body)
               asked == body.status # Unset
    <2>1. request[r] # NoRow /\ new \in Row
      BY <1>3, RowThere, WantedTyped DEF UpdateRequest
    <2>2. asked \in BOOLEAN /\ (~asked => new.status = request[r].status)
      BY DEF Wanted
    <2>3. Begin(c, NewTx("load", r, request[r], new, asked, {},
                         SyncTechnicians(request[r], new), NoSet, Touched(request[r], new)))
      BY <1>3 DEF UpdateRequest
    <2> HIDE DEF new, asked
    <2> QED
      BY <1>2, <2>1, <2>2, <2>3
  <1>4. ASSUME NEW r \in Requests, FileReport(c, r) PROVE EachAlone'
    <2> DEFINE new == [status |-> "completed", tech |-> request[r].tech]
    <2>1. request[r] # NoRow /\ request[r] \in Row
      BY <1>4, RowThere DEF FileReport
    <2>2. new \in Row
      BY <2>1, ServiceRequestsAssumption DEF Row
    <2>3. Begin(c, NewTx("load", r, request[r], new, TRUE, {},
                         SyncTechnicians(request[r], new), NoSet, Touched(request[r], new)))
      BY <1>4 DEF FileReport
    <2> HIDE DEF new
    <2> QED
      BY <1>2, <2>1, <2>2, <2>3
  <1>5. ASSUME NEW r \in Requests, DeleteRequest(c, r) PROVE EachAlone'
    <2> DEFINE old == request[r]
               shows == Touched(old, old)
               t == NewTx("lift", r, old, old, FALSE, {}, << >>, NoSet, shows)
    <2>1. old \in Row /\ shows \in Seq(Techs) /\ Begin(c, t)
      BY <1>5, RowThere, TouchedTechs DEF DeleteRequest
    <2>2. << >> \in Seq(Mark)
      OBVIOUS
    <2> HIDE DEF shows
    <2>3. Alone(t, request, tech)
      BY <2>1, <2>2, NewTxAlone
    <2> QED
      BY <2>1, <2>3, BeginKeepsAlone
  <1>6. ASSUME NEW x \in Techs, NEW s \in TechStatus, CreateTech(c, x, s) PROVE EachAlone'
    BY <1>6, TechTxAlone, BeginKeepsAlone DEF CreateTech
  <1>7. ASSUME NEW x \in Techs, NEW s \in TechStatus \union {Unset}, UpdateTech(c, x, s)
        PROVE  EachAlone'
    BY <1>7, TechTxAlone, BeginKeepsAlone DEF UpdateTech
  <1>8. ASSUME NEW x \in Techs, DeleteTech(c, x) PROVE EachAlone'
    BY <1>8, TechTxAlone, BeginKeepsAlone DEF DeleteTech
  <1> QED
    BY <1>1, <1>3, <1>4, <1>5, <1>6, <1>7, <1>8 DEF Command

LEMMA AloneNow ==
    ASSUME Typed, EachAlone, NEW c \in Clients, tx[c].pc \in Pcs
    PROVE  /\ tx[c] \in Tx /\ Fits(tx[c], request, tech) /\ Alone(tx[c], request, tech)
  BY InFlight DEF EachAlone

LEMMA LoadAlone == ASSUME Typed, EachAlone, NEW c \in Clients, Load(c) PROVE EachAlone'
  <1> DEFINE t == tx[c]
             u == [t EXCEPT !.pc = "save", !.row = request[t.req]]
  <1>1. t \in Tx /\ t.pc = "load" /\ Alone(t, request, tech) /\ Step(c, u)
    BY AloneNow DEF Load, Pcs
  <1> HIDE DEF t
  <1>2. /\ u.pc = "save" /\ u.row = request[t.req] /\ u.req = t.req /\ u.crossed = t.crossed
        /\ u.want = t.want /\ u.put = t.put /\ u.marks = t.marks /\ u.asked = t.asked
    BY <1>1 DEF Tx
  <1> HIDE DEF u
  <1>3. Alone(u, request, tech)
    BY <1>1, <1>2 DEF Alone, Occupied
  <1> QED
    BY <1>1, <1>3, StepKeepsAlone DEF Step

\* Writing what differs leaves what is wanted.
LEMMA MergeOfDifferences ==
    ASSUME NEW t \in Tx, t.row \in Row, t.want \in Row
    PROVE  LET u == [t EXCEPT !.put = Differs(t)]
           IN  /\ Merge(u, t.row) = t.want
               /\ Differs(t) = {} => t.row = t.want
               /\ t.row.status = t.want.status => "status" \notin Differs(t)
  <1> DEFINE put == Differs(t)
             u == [t EXCEPT !.put = put]
  <1>1. /\ "status" \in put <=> t.row.status # t.want.status
        /\ "tech" \in put <=> t.row.tech # t.want.tech
    BY DEF Differs
  <1> HIDE DEF put
  <1>2. u.put = put /\ u.want = t.want
    BY DEF Tx
  <1>3. /\ t.want = [status |-> t.want.status, tech |-> t.want.tech]
        /\ t.row = [status |-> t.row.status, tech |-> t.row.tech]
    BY DEF Row
  <1> HIDE DEF u
  <1>4. Merge(u, t.row) = t.want
    BY <1>1, <1>2, <1>3 DEF Merge
  <1>5. put = {} => t.row = t.want
    BY <1>1, <1>3
  <1> QED
    BY <1>1, <1>4, <1>5 DEF put, u

LEMMA SaveAlone == ASSUME Typed, EachAlone, NEW c \in Clients, Save(c) PROVE EachAlone'
  <1> DEFINE t == tx[c]
             pc == AfterSave(t.marks)
             put == Differs(t)
             u == [t EXCEPT !.pc = pc, !.put = put]
             v == [t EXCEPT !.put = put]
  <1>1. /\ t \in Tx /\ t.pc = "save" /\ Alone(t, request, tech) /\ Fits(t, request, tech)
        /\ Step(c, u)
    BY AloneNow DEF Save, Pcs
  <1>2. t.row \in Row /\ t.want \in Row /\ t.set = NoSet
    BY <1>1, FieldsOfTx DEF Fits
  <1>3. /\ Merge(v, t.row) = t.want
        /\ put = {} => t.row = t.want
        /\ t.row.status = t.want.status => "status" \notin put
    BY <1>1, <1>2, MergeOfDifferences
  <1>4. pc \in {"find", "request"} /\ (pc = "request" => t.marks = << >>)
    BY DEF AfterSave
  <1> HIDE DEF t, pc, put
  <1>5. v.put = u.put /\ v.want = u.want
    BY <1>1 DEF Tx
  <1>6. /\ u.pc = pc /\ u.put = put /\ u.req = t.req /\ u.crossed = t.crossed
        /\ u.want = t.want /\ u.marks = t.marks /\ u.asked = t.asked
    BY <1>1 DEF Tx
  <1> HIDE DEF u, v
  <1>7. Merge(u, t.row) = t.want
    BY <1>3, <1>5 DEF Merge
  <1>8. Alone(u, request, tech)
    <2> SUFFICES ASSUME u.req # NoReq, ~u.crossed
                 PROVE  /\ SeenRow(u, request) = u.want
                        /\ ~u.asked => u.want.status = request[u.req].status /\ "status" \notin u.put
                        /\ u.want.tech # NoTech /\ u.want.status \in Active => Occupied(u, tech)
      BY <1>1, <1>4, <1>6, Apart, <1>2 DEF Alone
    <2>1. t.row = request[t.req]
      BY <1>1, <1>6 DEF Alone
    <2>2. SeenRow(u, request) = u.want
      BY <1>3, <1>6, <1>7, <2>1 DEF SeenRow
    <2>3. ~u.asked => u.want.status = request[u.req].status /\ "status" \notin u.put
      BY <1>1, <1>3, <1>6, <2>1 DEF Alone
    <2>4. u.want.tech # NoTech /\ u.want.status \in Active => Occupied(u, tech)
      BY <1>1, <1>6 DEF Alone, Occupied
    <2> QED
      BY <2>2, <2>3, <2>4
  <1> QED
    BY <1>1, <1>8, StepKeepsAlone DEF Step

LEMMA FindAlone == ASSUME Typed, EachAlone, NEW c \in Clients, Find(c) PROVE EachAlone'
  <1> DEFINE t == tx[c]
             found == TechSeenBy(c, Head(t.marks).tech)
             u == [t EXCEPT !.pc = "mark", !.found = found]
  <1>1. t \in Tx /\ t.pc = "find" /\ Alone(t, request, tech) /\ Step(c, u)
    BY AloneNow DEF Find, Pcs
  <1>2. found = SeenTech(t, tech, Head(t.marks).tech)
    BY DEF TechSeenBy, SeenTech
  <1> HIDE DEF t, found
  <1>3. /\ u.pc = "mark" /\ u.found = found /\ u.req = t.req /\ u.crossed = t.crossed
        /\ u.want = t.want /\ u.put = t.put /\ u.marks = t.marks /\ u.asked = t.asked
        /\ u.set = t.set
    BY <1>1 DEF Tx
  <1> HIDE DEF u
  <1>4. Alone(u, request, tech)
    BY <1>1, <1>2, <1>3 DEF Alone, Occupied, SeenRow, SeenTech, Merge
  <1> QED
    BY <1>1, <1>4, StepKeepsAlone DEF Step

LEMMA MarkTechAlone == ASSUME Typed, EachAlone, NEW c \in Clients, MarkTech(c) PROVE EachAlone'
  <1> DEFINE t == tx[c]
             m == Head(t.marks)
             rest == Tail(t.marks)
             pc == AfterMarks(t)
             set == IF Changes(t) THEN [t.set EXCEPT ![m.tech] = m.status] ELSE t.set
             u == [t EXCEPT !.pc = pc, !.marks = rest, !.set = set]
  <1>1. /\ t \in Tx /\ t.pc = "mark" /\ Alone(t, request, tech) /\ Fits(t, request, tech)
    BY AloneNow DEF MarkTech, Pcs
  <1>2. Step(c, u)
    BY DEF MarkTech
  <1>3. t.marks \in Seq(Mark) /\ t.marks # << >>
    BY <1>1, FieldsOfTx DEF Fits
  <1>4. /\ m \in Mark /\ m = t.marks[1] /\ rest \in Seq(Mark) /\ Len(rest) = Len(t.marks) - 1
        /\ Len(t.marks) > 1 => rest # << >> /\ rest[Len(rest)] = t.marks[Len(t.marks)]
        /\ rest # << >> => Len(t.marks) > 1
    BY <1>3, HeadAndTail
  <1>5. Len(t.marks) > 1 \/ Len(t.marks) = 1
    <2>1. Len(t.marks) \in Nat \ {0}
      BY <1>3, EmptySeq, LenProperties
    <2>2. \A n \in Nat \ {0} : n > 1 \/ n = 1
      OBVIOUS
    <2> QED
      BY <2>1, <2>2, Zenon
  <1>6. /\ t.set \in [Techs -> TechStatus \union {Unset}]
        /\ t.want \in Row \union {NoRow} /\ t.found \in TechStatus \union {NoRow}
    BY <1>1, FieldsOfTx
  <1>7. m.tech \in Techs /\ m.status \in TechStatus
    BY <1>4 DEF Mark
  <1>8. pc \in {"find", "count", "request"} /\ (pc # "find" => ~(Len(t.marks) > 1))
        /\ (t.req # NoReq => pc # "count")
    BY DEF AfterMarks
  <1>9. \/ Changes(t) /\ set = [t.set EXCEPT ![m.tech] = m.status]
        \/ set = t.set /\ t.found \in {NoRow, m.status}
    BY DEF Changes
  <1>10. t.want # NoRow /\ t.want.tech # NoTech =>
            t.want.tech \in Techs /\ tech[t.want.tech] \in TechStatus
    <2>1. t.want # NoRow /\ t.want.tech # NoTech => t.want.tech \in Techs
      BY <1>6 DEF Row
    <2> QED
      BY <1>1, <2>1 DEF Fits, Typed, TypeOK
  <1> HIDE DEF t, m, rest, pc, set
  <1>11. /\ u.pc = pc /\ u.marks = rest /\ u.set = set /\ u.req = t.req /\ u.crossed = t.crossed
         /\ u.want = t.want /\ u.put = t.put /\ u.asked = t.asked
    BY <1>1 DEF Tx
  <1> HIDE DEF u
  <1>12. ASSUME u.req # NoReq, ~u.crossed, u.want.tech # NoTech, u.want.status \in Active
         PROVE  Occupied(u, tech)
    <2>1. t.want # NoRow /\ t.found = SeenTech(t, tech, m.tech) /\ Occupied(t, tech)
      BY <1>1, <1>11, <1>12 DEF Alone, m
    <2>2. t.want.tech \in Techs /\ tech[t.want.tech] \in TechStatus
      BY <1>10, <1>11, <1>12, <2>1
    <2>3. t.marks[Len(t.marks)] = Busy(t.want.tech)
      BY <1>3, <2>1 DEF Occupied
    <2>4. CASE Len(t.marks) > 1
      BY <1>4, <1>11, <2>3, <2>4 DEF Occupied
    <2>5. CASE ~(Len(t.marks) > 1)
      <3>1. Len(t.marks) = 1
        BY <1>5, <2>5, Zenon
      <3>2. m.tech = t.want.tech /\ m.status = "busy" /\ rest = << >>
        BY <1>4, <2>3, <2>5, <3>1 DEF Busy
      <3>3. CASE set = [t.set EXCEPT ![m.tech] = m.status]
        <4>1. set[t.want.tech] = "busy"
          BY <1>6, <2>2, <3>2, <3>3
        <4> QED
          BY <1>8, <1>11, <2>5, <3>2, <4>1, Apart DEF Occupied, SeenTech, TechStatus
      <3>4. CASE set = t.set /\ t.found \in {NoRow, m.status}
        <4>1. SeenTech(t, tech, t.want.tech) \in TechStatus
          BY <1>6, <2>2 DEF SeenTech
        <4>2. SeenTech(t, tech, t.want.tech) = "busy"
          BY <2>1, <3>2, <3>4, <4>1, Apart
        <4> QED
          BY <1>8, <1>11, <2>5, <3>2, <3>4, <4>2 DEF Occupied, SeenTech
      <3> QED
        BY <1>9, <3>3, <3>4
    <2> QED
      BY <2>4, <2>5
  <1>13. Alone(u, request, tech)
    BY <1>1, <1>4, <1>8, <1>11, <1>12 DEF Alone, SeenRow, Merge
  <1> QED
    BY <1>2, <1>13, StepKeepsAlone DEF Step

\* The statements after those that write requests and technicians.
LEMMA LateStepAlone ==
    ASSUME Typed, EachAlone, NEW c \in Clients, tx[c].pc \in {"request", "lift", "count", "show", "hide"},
           NEW u, Step(c, u), u.pc \in {"lift", "count", "show", "done"},
           u.req = tx[c].req, u.want = tx[c].want, u.put = tx[c].put, u.marks = tx[c].marks,
           u.set = tx[c].set, u.asked = tx[c].asked, u.crossed = tx[c].crossed
    PROVE  EachAlone'
  <1>1. Alone(tx[c], request, tech)
    BY AloneNow DEF Pcs
  <1>2. Alone(u, request, tech)
    BY <1>1 DEF Alone, Occupied, SeenRow, SeenTech, Merge
  <1> QED
    BY <1>2, StepKeepsAlone DEF Step

LEMMA LateAlone ==
    ASSUME Typed, EachAlone, NEW c \in Clients,
           ShowRequest(c) \/ RefreshLift(c) \/ Count(c) \/ Show(c) \/ Hide(c)
    PROVE  EachAlone'
  <1>0. CASE ShowRequest(c)
    <2> DEFINE t == tx[c]
               shows == TechOfRow(c) \o t.shows
               u == [t EXCEPT !.pc = "lift", !.shows = shows]
    <2>1. t \in Tx /\ t.pc = "request"
      BY <1>0, AloneNow DEF ShowRequest, Pcs
    <2>2. Step(c, u)
      BY <1>0 DEF ShowRequest
    <2> HIDE DEF shows
    <2>3. /\ u.pc = "lift" /\ u.req = t.req /\ u.want = t.want /\ u.put = t.put
          /\ u.marks = t.marks /\ u.set = t.set /\ u.asked = t.asked /\ u.crossed = t.crossed
      BY <2>1 DEF Tx
    <2> HIDE DEF u
    <2> QED
      BY <2>1, <2>2, <2>3, LateStepAlone
  <1>1. CASE RefreshLift(c)
    <2> DEFINE t == tx[c]
               pc == IF t.shows = << >> THEN "done" ELSE "count"
               u == [t EXCEPT !.pc = pc]
    <2>1. t \in Tx /\ t.pc = "lift" /\ Step(c, u)
      BY <1>1, AloneNow DEF RefreshLift, Pcs
    <2>2. /\ u.pc \in {"count", "done"} /\ u.req = t.req /\ u.want = t.want /\ u.put = t.put
          /\ u.marks = t.marks /\ u.set = t.set /\ u.asked = t.asked /\ u.crossed = t.crossed
      BY <2>1 DEF Tx
    <2> HIDE DEF u
    <2> QED
      BY <2>1, <2>2, LateStepAlone
  <1>2. CASE Count(c)
    <2> DEFINE t == tx[c]
               x == Head(t.shows)
               card == [status |-> TechSeenBy(c, x), active |-> ActiveOf(RequestsSeenBy(c), x)]
               u == [t EXCEPT !.pc = "show", !.card = card]
    <2>1. t \in Tx /\ t.pc = "count" /\ Step(c, u)
      BY <1>2, AloneNow DEF Count, Pcs
    <2> HIDE DEF card
    <2>2. /\ u.pc = "show" /\ u.req = t.req /\ u.want = t.want /\ u.put = t.put
          /\ u.marks = t.marks /\ u.set = t.set /\ u.asked = t.asked /\ u.crossed = t.crossed
      BY <2>1 DEF Tx
    <2> HIDE DEF u
    <2> QED
      BY <2>1, <2>2, LateStepAlone
  <1>3. CASE Show(c)
    <2> DEFINE t == tx[c]
               pc == IF Len(t.shows) > 1 THEN "count" ELSE "done"
               wrote == [t.wrote EXCEPT ![Head(t.shows)] = t.card]
               rest == Tail(t.shows)
               u == [t EXCEPT !.pc = pc, !.shows = rest, !.wrote = wrote]
    <2>1. t \in Tx /\ t.pc = "show" /\ Step(c, u)
      BY <1>3, AloneNow DEF Show, Pcs
    <2>2. pc \in {"count", "done"}
      OBVIOUS
    <2> HIDE DEF pc, wrote, rest
    <2>3. /\ u.pc = pc /\ u.req = t.req /\ u.want = t.want /\ u.put = t.put
          /\ u.marks = t.marks /\ u.set = t.set /\ u.asked = t.asked /\ u.crossed = t.crossed
      BY <2>1 DEF Tx
    <2> HIDE DEF u
    <2> QED
      BY <2>1, <2>2, <2>3, LateStepAlone
  <1>4. CASE Hide(c)
    <2> DEFINE t == tx[c]
               x == Head(t.shows)
               wrote == IF shown[x] = NoRow THEN t.wrote ELSE [t.wrote EXCEPT ![x] = NoRow]
               u == [t EXCEPT !.pc = "done", !.shows = << >>, !.wrote = wrote]
    <2>1. t \in Tx /\ t.pc = "hide"
      BY <1>4, AloneNow DEF Hide, Pcs
    <2>2. Step(c, u)
      BY <1>4 DEF Hide
    <2> HIDE DEF wrote
    <2>3. /\ u.pc = "done" /\ u.req = t.req /\ u.want = t.want /\ u.put = t.put
          /\ u.marks = t.marks /\ u.set = t.set /\ u.asked = t.asked /\ u.crossed = t.crossed
      BY <2>1 DEF Tx
    <2> HIDE DEF u
    <2> QED
      BY <2>1, <2>2, <2>3, LateStepAlone
  <1> QED
    BY <1>0, <1>1, <1>2, <1>3, <1>4

LEMMA NextAlone == ASSUME Typed, EachAlone, [Next]_vars PROVE EachAlone'
  <1>1. ASSUME NEW c \in Clients, Commit(c) PROVE EachAlone'
    <2> SUFFICES ASSUME NEW d \in Clients, tx'[d] # NoTx PROVE Alone(tx'[d], request', tech')
      BY DEF EachAlone
    <2>1. tx[d] \in Tx /\ tx'[d] = [tx[d] EXCEPT !.crossed = TRUE]
      BY <1>1 DEF Commit, Typed, TypeOK
    <2>2. tx'[d].crossed
      BY <2>1 DEF Tx
    <2> QED
      BY <2>2 DEF Alone
  <1>2. ASSUME NEW c \in Clients, Abort(c) PROVE EachAlone'
    BY <1>2 DEF Abort, EachAlone, Typed, TypeOK
  <1>3. CASE UNCHANGED vars
    BY <1>3 DEF vars, EachAlone
  <1> QED
    BY <1>1, <1>2, <1>3, BeginsAlone, LoadAlone, SaveAlone, FindAlone, MarkTechAlone, LateAlone
       DEF Next, Finish

LEMMA AlwaysAlone == Spec => [](Typed /\ EachAlone)
  <1>1. Init => EachAlone
    BY DEF Init, EachAlone
  <1>2. EachAlone /\ Typed /\ [Next]_vars => EachAlone'
    BY NextAlone
  <1> QED
    BY <1>1, <1>2, AlwaysTyped, PTL DEF Spec

\* A request that was over comes to life again only on purpose, or by a
\* command that another one crossed.
THEOREM ReopensAreMeantOrRaced == Spec => ReopenedOnPurposeOrByRace
  <1>1. ASSUME Typed, EachAlone, NEW c \in Clients, NEW r \in Requests, Commit(c),
               request[r] # NoRow, ~tx[c].asked, ~tx[c].crossed
        PROVE  request'[r].status = request[r].status
    <2> DEFINE t == tx[c]
    <2>1. t \in Tx /\ Fits(t, request, tech) /\ Alone(t, request, tech)
      BY <1>1, AloneNow DEF Commit, Pcs
    <2>2. CASE t.req = r /\ t.put # {}
      <3>1. "status" \notin t.put
        BY <1>1, <2>1, <2>2, Apart DEF Alone
      <3>2. request'[r] = Merge(t, request[r])
        BY <1>1, <2>2 DEF Commit, RequestsSeenBy
      <3> QED
        BY <3>1, <3>2 DEF Merge
    <2>3. CASE ~(t.req = r /\ t.put # {})
      BY <1>1, <2>3 DEF Commit, RequestsSeenBy
    <2> QED
      BY <2>2, <2>3
  <1>2. ASSUME Typed, EachAlone, NEW c \in Clients, Commit(c)
        PROVE  tx[c].asked \in BOOLEAN /\ tx[c].crossed \in BOOLEAN
    BY <1>2, AloneNow, FieldsOfTx DEF Commit, Pcs
  <1>3. Typed /\ EachAlone /\ [Next]_vars =>
           [\A c \in Clients, r \in Requests :
              /\ Commit(c) /\ request[r] # NoRow
              /\ request[r].status \in Terminal /\ request'[r].status \notin Terminal
              => tx[c].asked \/ tx[c].crossed]_vars
    BY <1>1, <1>2
  <1> QED
    BY <1>3, AlwaysAlone, PTL DEF Spec, ReopenedOnPurposeOrByRace

\* A technician is left unoccupied by a command that none crossed only with
\* an assignment of another request.
THEOREM IdlenessComesFromElsewhere == Spec => IdledOnlyByAnotherRequest
  <1>1. ASSUME Typed, EachAlone, NEW c \in Clients, NEW x \in Techs, Commit(c),
               tx[c].req # NoReq, ~tx[c].crossed, WellKept(x), ~WellKept(x)'
        PROVE  ActiveOf(request', x) \ {tx[c].req} # {} /\ tx[c].req \notin ActiveOf(request', x)
    <2> DEFINE t == tx[c]
               r == t.req
    <2>1. /\ t \in Tx /\ t.pc = "done" /\ Fits(t, request, tech) /\ Alone(t, request, tech)
      BY <1>1, AloneNow DEF Commit, Pcs
    <2>2. /\ t.want \in Row /\ r \in Requests /\ t.set \in [Techs -> TechStatus \union {Unset}]
      BY <1>1, <2>1, FieldsOfTx DEF Alone
    <2>3. request'[r] = t.want
      BY <1>1, <2>1, <2>2 DEF Commit, RequestsSeenBy, Alone, SeenRow
    <2>4. tech'[x] = SeenTech(t, tech, x)
      BY <1>1 DEF Commit, TechSeenBy, SeenTech
    <2>5. ActiveOf(request', x) # {} /\ tech'[x] # "busy"
      BY <1>1 DEF WellKept
    <2>6. ASSUME r \in ActiveOf(request', x) PROVE FALSE
      <3>1. t.want.tech = x /\ t.want.status \in Active
        BY <2>2, <2>3, <2>6 DEF ActiveOf
      <3>2. x # NoTech
        BY Apart
      <3>3. Occupied(t, tech)
        BY <1>1, <2>1, <3>1, <3>2 DEF Alone
      <3>4. t.marks = << >>
        BY <1>1, <2>1 DEF Alone
      <3>5. t.put = {} /\ t.set = NoSet
        BY <2>4, <2>5, <3>1, <3>3, <3>4 DEF Occupied
      <3>6. request[r] = t.want
        BY <1>1, <2>1, <3>5 DEF Alone, SeenRow
      <3>7. r \in ActiveOf(request, x)
        BY <2>2, <3>1, <3>6, Apart DEF ActiveOf
      <3>8. tech[x] = "busy"
        BY <1>1, <3>7 DEF WellKept
      <3>9. t.set[x] = Unset
        BY <3>5, NoSetTyped
      <3> QED
        BY <2>4, <2>5, <3>8, <3>9 DEF SeenTech
    <2> QED
      BY <2>5, <2>6
  <1>2. ASSUME Typed, EachAlone, NEW c \in Clients, Commit(c) PROVE tx[c].crossed \in BOOLEAN
    BY <1>2, AloneNow, FieldsOfTx DEF Commit, Pcs
  <1>3. Typed /\ EachAlone /\ [Next]_vars =>
           [\A c \in Clients, t \in Techs :
              /\ Commit(c) /\ tx[c].req # NoReq /\ ~tx[c].crossed
              /\ WellKept(t) /\ ~WellKept(t)'
              => ActiveOf(request', t) \ {tx[c].req} # {} /\ tx[c].req \notin ActiveOf(request', t)]_vars
    BY <1>1
  <1> QED
    BY <1>3, AlwaysAlone, PTL DEF Spec, IdledOnlyByAnotherRequest

-----------------------------------------------------------------------------
(* The lift's row keeps the counts of its own requests.                    *)

SeenRows(t, rows) ==
    [q \in Requests |-> IF t.req = q /\ t.put # {} THEN Merge(t, rows[q]) ELSE rows[q]]

\* What a row of technicians_read says of the requests of the command's lift.
Agrees(t, rows, card, x) ==
    /\ card \in Card
    /\ \A q \in Requests :
          LiftOf[q] = LiftOf[t.req] => (q \in card.active <=> q \in ActiveOf(SeenRows(t, rows), x))

Counted(t, rows) ==
    t.req # NoReq /\ t.pc \in {"count", "show", "done"} =>
        /\ \A x \in Techs : t.wrote[x] # Unset => Agrees(t, rows, t.wrote[x], x)
        /\ t.pc = "show" => Agrees(t, rows, t.card, Head(t.shows))

EachCounted == \A c \in Clients : tx[c] # NoTx => Counted(tx[c], request)

OneHolder ==
    \A c, d \in Clients, l \in Lifts : HoldsLiftRow(c, l) /\ HoldsLiftRow(d, l) => c = d

CountInv == OneHolder /\ EachCounted

\* A step by which no lift's row is taken.
LEMMA KeepsHolder ==
    ASSUME Typed, CountInv, NEW c \in Clients, NEW u, Counted(u, request),
           tx' = [tx EXCEPT ![c] = u], request' = request,
           u.req = NoReq \/ u.pc \notin {"count", "show", "done"} \/ u = NoTx
           \/ (tx[c] # NoTx /\ u.req = tx[c].req /\ tx[c].pc \in {"count", "show", "done"})
    PROVE  CountInv'
  <1>1. \A d \in Clients : tx'[d] = IF d = c THEN u ELSE tx[d]
    BY DEF Typed, TypeOK
  <1>2. \A d \in Clients, l \in Lifts : HoldsLiftRow(d, l)' => HoldsLiftRow(d, l)
    BY <1>1 DEF HoldsLiftRow
  <1>3. OneHolder'
    BY <1>2 DEF CountInv, OneHolder
  <1> HIDE DEF Counted
  <1>4. EachCounted'
    BY <1>1 DEF CountInv, EachCounted
  <1> QED
    BY <1>3, <1>4 DEF CountInv

\* A new transaction counted nothing.
LEMMA BeginsCounted ==
    ASSUME Typed, CountInv, NEW c \in Clients, Command(c)
    PROVE  CountInv'
  <1>1. ASSUME NEW pc, NEW r, NEW seen, NEW want, NEW asked, NEW put, NEW marks, NEW set, NEW shows,
               r = NoReq \/ pc \notin {"count", "show", "done"},
               Begin(c, NewTx(pc, r, seen, want, asked, put, marks, set, shows))
        PROVE  CountInv'
    <2> DEFINE u == NewTx(pc, r, seen, want, asked, put, marks, set, shows)
    <2>1. u.pc = pc /\ u.req = r
      BY DEF NewTx
    <2>2. tx' = [tx EXCEPT ![c] = u] /\ request' = request
      BY <1>1 DEF Begin
    <2> HIDE DEF u
    <2>3. Counted(u, request)
      BY <1>1, <2>1 DEF Counted
    <2> QED
      BY <1>1, <2>1, <2>2, <2>3, KeepsHolder
  <1>2. \A marks : AfterSave(marks) \notin {"count", "show", "done"}
    BY DEF AfterSave
  <1>3. ASSUME NEW r \in Requests, NEW new \in Row, CreateRequest(c, r, new) PROVE CountInv'
    BY <1>1, <1>2, <1>3 DEF CreateRequest
  <1>4. ASSUME NEW r \in Requests, NEW body \in Bodies, UpdateRequest(c, r, body) PROVE CountInv'
    BY <1>1, <1>4 DEF UpdateRequest
  <1>5. ASSUME NEW r \in Requests, FileReport(c, r) PROVE CountInv'
    <2>1. "load" \notin {"count", "show", "done"}
      OBVIOUS
    <2> QED
      BY <1>1, <1>5, <2>1, Zenon DEF FileReport
  <1>6. ASSUME NEW r \in Requests, DeleteRequest(c, r) PROVE CountInv'
    <2>1. "lift" \notin {"count", "show", "done"}
      OBVIOUS
    <2> QED
      BY <1>1, <1>6, <2>1, Zenon DEF DeleteRequest
  <1>7. ASSUME NEW x \in Techs, NEW s \in TechStatus, CreateTech(c, x, s) PROVE CountInv'
    BY <1>1, <1>7 DEF CreateTech
  <1>8. ASSUME NEW x \in Techs, NEW s \in TechStatus \union {Unset}, UpdateTech(c, x, s)
        PROVE  CountInv'
    BY <1>1, <1>8 DEF UpdateTech
  <1>9. ASSUME NEW x \in Techs, DeleteTech(c, x) PROVE CountInv'
    BY <1>1, <1>9 DEF DeleteTech
  <1> QED
    BY <1>3, <1>4, <1>5, <1>6, <1>7, <1>8, <1>9 DEF Command

LEMMA EarlyCounted ==
    ASSUME Typed, CountInv, NEW c \in Clients,
           Load(c) \/ Save(c) \/ Find(c) \/ MarkTech(c) \/ ShowRequest(c) \/ Hide(c)
    PROVE  CountInv'
  <1>1. ASSUME NEW u, u.req = NoReq \/ u.pc \notin {"count", "show", "done"}, Step(c, u)
        PROVE  CountInv'
    <2>1. Counted(u, request)
      BY <1>1 DEF Counted
    <2> QED
      BY <1>1, <2>1, KeepsHolder DEF Step
  <1>2. CASE Load(c)
    <2> DEFINE t == tx[c]
               u == [t EXCEPT !.pc = "save", !.row = request[t.req]]
    <2>1. t \in Tx /\ Step(c, u)
      BY <1>2, InFlight DEF Load, Pcs
    <2>2. u.pc \notin {"count", "show", "done"}
      BY <2>1 DEF Tx
    <2> HIDE DEF u
    <2> QED
      BY <1>1, <2>1, <2>2
  <1>3. CASE Save(c)
    <2> DEFINE t == tx[c]
               pc == AfterSave(t.marks)
               u == [t EXCEPT !.pc = pc, !.put = Differs(t)]
    <2>1. t \in Tx /\ Step(c, u)
      BY <1>3, InFlight DEF Save, Pcs
    <2>2. pc \notin {"count", "show", "done"}
      BY DEF AfterSave
    <2> HIDE DEF pc
    <2>3. u.pc = pc
      BY <2>1 DEF Tx
    <2> HIDE DEF u
    <2> QED
      BY <1>1, <2>1, <2>2, <2>3
  <1>4. CASE Find(c)
    <2> DEFINE t == tx[c]
               found == TechSeenBy(c, Head(t.marks).tech)
               u == [t EXCEPT !.pc = "mark", !.found = found]
    <2>1. t \in Tx /\ Step(c, u)
      BY <1>4, InFlight DEF Find, Pcs
    <2> HIDE DEF found
    <2>2. u.pc \notin {"count", "show", "done"}
      BY <2>1 DEF Tx
    <2> HIDE DEF u
    <2> QED
      BY <1>1, <2>1, <2>2
  <1>5. CASE MarkTech(c)
    <2> DEFINE t == tx[c]
               m == Head(t.marks)
               rest == Tail(t.marks)
               pc == AfterMarks(t)
               set == IF Changes(t) THEN [t.set EXCEPT ![m.tech] = m.status] ELSE t.set
               u == [t EXCEPT !.pc = pc, !.marks = rest, !.set = set]
    <2>1. t \in Tx
      BY <1>5, InFlight DEF MarkTech, Pcs
    <2>2. Step(c, u)
      BY <1>5 DEF MarkTech
    <2>3. t.req = NoReq \/ pc \notin {"count", "show", "done"}
      BY DEF AfterMarks
    <2> HIDE DEF pc, rest, set
    <2>4. u.pc = pc /\ u.req = t.req
      BY <2>1 DEF Tx
    <2> HIDE DEF u
    <2> QED
      BY <1>1, <2>2, <2>3, <2>4
  <1>6. CASE Hide(c)
    <2> DEFINE t == tx[c]
               x == Head(t.shows)
               wrote == IF shown[x] = NoRow THEN t.wrote ELSE [t.wrote EXCEPT ![x] = NoRow]
               u == [t EXCEPT !.pc = "done", !.shows = << >>, !.wrote = wrote]
    <2>1. t \in Tx /\ t.req = NoReq
      BY <1>6, InFlight DEF Hide, Pcs, Fits
    <2>2. Step(c, u)
      BY <1>6 DEF Hide
    <2> HIDE DEF wrote
    <2>3. u.req = NoReq
      BY <2>1 DEF Tx
    <2> HIDE DEF u
    <2> QED
      BY <1>1, <2>2, <2>3
  <1>7. CASE ShowRequest(c)
    <2> DEFINE t == tx[c]
               shows == TechOfRow(c) \o t.shows
               u == [t EXCEPT !.pc = "lift", !.shows = shows]
    <2>1. t \in Tx
      BY <1>7, InFlight DEF ShowRequest, Pcs
    <2>2. Step(c, u)
      BY <1>7 DEF ShowRequest
    <2> HIDE DEF shows
    <2>3. u.pc = "lift"
      BY <2>1 DEF Tx
    <2> HIDE DEF u
    <2>4. u.pc \notin {"count", "show", "done"}
      BY <2>3
    <2> QED
      BY <1>1, <2>2, <2>4
  <1> QED
    BY <1>2, <1>3, <1>4, <1>5, <1>6, <1>7

\* The lift's row is taken when no one has it, by a command that counted nothing.
LEMMA RefreshLiftCounted ==
    ASSUME Typed, CountInv, NEW c \in Clients, RefreshLift(c)
    PROVE  CountInv'
  <1> DEFINE t == tx[c]
             pc == IF t.shows = << >> THEN "done" ELSE "count"
             u == [t EXCEPT !.pc = pc]
  <1>1. /\ t \in Tx /\ t.pc = "lift" /\ t # NoTx /\ Fits(t, request, tech) /\ Step(c, u)
    BY InFlight DEF RefreshLift, Pcs
  <1>2. t.wrote = NoSet /\ t.req \in Requests
    BY <1>1, FieldsOfTx DEF Fits
  <1>3. pc \in {"count", "done"}
    OBVIOUS
  <1>4. \A d \in Clients : d # c => ~HoldsLiftRow(d, LiftOf[t.req])
    BY <1>1 DEF RefreshLift, MayGoOn, BlockedBy
  <1> HIDE DEF pc
  <1>5. u.pc = pc /\ u.req = t.req /\ u.wrote = t.wrote
    BY <1>1 DEF Tx
  <1>6. \A d \in Clients : tx'[d] = IF d = c THEN u ELSE tx[d]
    BY <1>1 DEF Step, Typed, TypeOK
  <1> HIDE DEF u
  <1>7. \A d \in Clients, l \in Lifts : d # c => (HoldsLiftRow(d, l)' <=> HoldsLiftRow(d, l))
    BY <1>6 DEF HoldsLiftRow
  <1>8. \A l \in Lifts : HoldsLiftRow(c, l)' => l = LiftOf[t.req]
    BY <1>5, <1>6 DEF HoldsLiftRow
  <1> HIDE DEF t
  <1>9. OneHolder'
    BY <1>4, <1>7, <1>8 DEF CountInv, OneHolder
  <1>10. Counted(u, request)
    BY <1>2, <1>3, <1>5, NoSetTyped DEF Counted
  <1>11. request' = request
    BY <1>1 DEF Step
  <1> HIDE DEF Counted
  <1>12. EachCounted'
    BY <1>6, <1>10, <1>11 DEF CountInv, EachCounted
  <1> QED
    BY <1>9, <1>12 DEF CountInv

LEMMA CountCounted ==
    ASSUME Typed, CountInv, NEW c \in Clients, Count(c)
    PROVE  CountInv'
  <1> DEFINE t == tx[c]
             x == Head(t.shows)
             card == [status |-> TechSeenBy(c, x), active |-> ActiveOf(RequestsSeenBy(c), x)]
             u == [t EXCEPT !.pc = "show", !.card = card]
  <1>1. t \in Tx /\ t.pc = "count" /\ t # NoTx /\ Fits(t, request, tech) /\ Step(c, u)
    BY InFlight DEF Count, Pcs
  <1>2. t.shows \in Seq(Techs) /\ t.shows # << >>
    BY <1>1, FieldsOfTx DEF Fits
  <1>3. x \in Techs /\ 1 \in DOMAIN t.shows /\ x = t.shows[1]
    BY <1>2, HeadAndTail
  <1>4. tech[x] # NoRow \/ t.set[x] # Unset
    BY <1>1, <1>3 DEF Fits
  <1>5. TechSeenBy(c, x) \in TechStatus
    BY <1>1, <1>3, <1>4, TechSeenTyped
  <1>6. RequestsSeenBy(c) = SeenRows(t, request)
    BY DEF RequestsSeenBy, SeenRows
  <1>7. card \in Card /\ card.active = ActiveOf(SeenRows(t, request), x)
    BY <1>5, <1>6 DEF Card, ActiveOf
  <1>8. Counted(t, request)
    BY <1>1 DEF CountInv, EachCounted
  <1> HIDE DEF card
  <1>9. /\ u.pc = "show" /\ u.card = card /\ u.req = t.req /\ u.put = t.put /\ u.want = t.want
        /\ u.wrote = t.wrote /\ u.shows = t.shows
    BY <1>1 DEF Tx
  <1> HIDE DEF u
  <1>10. SeenRows(u, request) = SeenRows(t, request)
    BY <1>9 DEF SeenRows, Merge
  <1>11. Counted(u, request)
    BY <1>1, <1>7, <1>8, <1>9, <1>10 DEF Counted, Agrees
  <1> QED
    BY <1>1, <1>9, <1>11, KeepsHolder DEF Step

LEMMA ShowCounted ==
    ASSUME Typed, CountInv, NEW c \in Clients, Show(c)
    PROVE  CountInv'
  <1> DEFINE t == tx[c]
             x == Head(t.shows)
             rest == Tail(t.shows)
             pc == IF Len(t.shows) > 1 THEN "count" ELSE "done"
             wrote == [t.wrote EXCEPT ![x] = t.card]
             u == [t EXCEPT !.pc = pc, !.shows = rest, !.wrote = wrote]
  <1>1. t \in Tx /\ t.pc = "show" /\ t # NoTx /\ Fits(t, request, tech)
    BY InFlight DEF Show, Pcs
  <1>2. Step(c, u)
    BY DEF Show
  <1>3. t.wrote \in [Techs -> Card \union {NoRow, Unset}]
    BY <1>1, FieldsOfTx
  <1>4. \A y \in Techs : wrote[y] = IF y = x THEN t.card ELSE t.wrote[y]
    BY <1>3
  <1>5. Counted(t, request)
    BY <1>1 DEF CountInv, EachCounted
  <1>6. pc \in {"count", "done"}
    OBVIOUS
  <1> HIDE DEF pc, wrote, rest
  <1>7. /\ u.pc = pc /\ u.wrote = wrote /\ u.req = t.req /\ u.put = t.put /\ u.want = t.want
    BY <1>1 DEF Tx
  <1> HIDE DEF u
  <1>8. SeenRows(u, request) = SeenRows(t, request)
    BY <1>7 DEF SeenRows, Merge
  <1>9. Counted(u, request)
    BY <1>1, <1>4, <1>5, <1>6, <1>7, <1>8 DEF Counted, Agrees
  <1> QED
    BY <1>1, <1>2, <1>7, <1>9, KeepsHolder DEF Step

LEMMA CrossedFields ==
    ASSUME NEW t \in Tx, NEW u, u = [t EXCEPT !.crossed = TRUE]
    PROVE  /\ u.pc = t.pc /\ u.req = t.req /\ u.put = t.put /\ u.want = t.want
           /\ u.wrote = t.wrote /\ u.card = t.card /\ u.shows = t.shows
  BY DEF Tx

\* A commit changes no request of a lift whose row another command has.
LEMMA CommitCounted ==
    ASSUME Typed, CountInv, NEW c \in Clients, Commit(c)
    PROVE  CountInv'
  <1> DEFINE t == tx[c]
  <1>1. t \in Tx /\ t.pc = "done" /\ t # NoTx /\ Fits(t, request, tech)
    BY InFlight DEF Commit, Pcs
  <1>2. \A d \in Clients : tx'[d] = IF d = c \/ tx[d] = NoTx THEN NoTx
                                   ELSE [tx[d] EXCEPT !.crossed = TRUE]
    BY DEF Commit
  <1>3. \A d \in Clients : tx'[d] # NoTx =>
           /\ d # c /\ tx[d] \in Tx /\ tx[d] # NoTx
           /\ tx'[d].pc = tx[d].pc /\ tx'[d].req = tx[d].req /\ tx'[d].put = tx[d].put
           /\ tx'[d].want = tx[d].want /\ tx'[d].wrote = tx[d].wrote
           /\ tx'[d].card = tx[d].card /\ tx'[d].shows = tx[d].shows
    <2> SUFFICES ASSUME NEW d \in Clients, NEW u, u = tx'[d], u # NoTx
                 PROVE  /\ d # c /\ tx[d] \in Tx /\ tx[d] # NoTx
                        /\ u.pc = tx[d].pc /\ u.req = tx[d].req /\ u.put = tx[d].put
                        /\ u.want = tx[d].want /\ u.wrote = tx[d].wrote
                        /\ u.card = tx[d].card /\ u.shows = tx[d].shows
      OBVIOUS
    <2>1. d # c /\ tx[d] \in Tx /\ tx[d] # NoTx /\ u = [tx[d] EXCEPT !.crossed = TRUE]
      BY <1>2 DEF Typed, TypeOK
    <2> QED
      BY <2>1, CrossedFields
  <1>4. \A d \in Clients, l \in Lifts : HoldsLiftRow(d, l)' => HoldsLiftRow(d, l)
    BY <1>3 DEF HoldsLiftRow
  <1>5. OneHolder'
    BY <1>4 DEF CountInv, OneHolder
  <1>6. ASSUME NEW d \in Clients, tx'[d] # NoTx PROVE Counted(tx'[d], request')
    <2> DEFINE u == tx[d]
               v == tx'[d]
    <2>1. /\ d # c /\ u \in Tx /\ u # NoTx /\ v.pc = u.pc /\ v.req = u.req /\ v.put = u.put
          /\ v.want = u.want /\ v.wrote = u.wrote /\ v.card = u.card /\ v.shows = u.shows
      BY <1>3, <1>6
    <2>2. Counted(u, request) /\ u.req \in Requests \union {NoReq}
      BY <2>1, FieldsOfTx DEF CountInv, EachCounted
    <2> SUFFICES ASSUME u.req # NoReq, u.pc \in {"count", "show", "done"}
                 PROVE  Counted(v, request')
      BY <2>1 DEF Counted
    <2>3. HoldsLiftRow(d, LiftOf[u.req]) /\ LiftOf[u.req] \in Lifts
      BY <2>1, <2>2, ServiceRequestsAssumption DEF HoldsLiftRow
    <2>4. \A q \in Requests : LiftOf[q] = LiftOf[u.req] => request'[q] = request[q]
      <3> SUFFICES ASSUME NEW q \in Requests, LiftOf[q] = LiftOf[u.req] PROVE request'[q] = request[q]
        OBVIOUS
      <3>1. ASSUME t.req = q, t.put # {} PROVE FALSE
        <4>1. HoldsLiftRow(c, LiftOf[u.req])
          BY <1>1, <3>1, Apart DEF HoldsLiftRow
        <4> QED
          BY <2>1, <2>3, <4>1 DEF CountInv, OneHolder
      <3> QED
        BY <3>1 DEF Commit, RequestsSeenBy
    <2> HIDE DEF u, v
    <2>5. \A q \in Requests : LiftOf[q] = LiftOf[u.req] =>
             SeenRows(v, request')[q] = SeenRows(u, request)[q]
      BY <2>1, <2>4 DEF SeenRows, Merge
    <2>6. \A card, x : Agrees(u, request, card, x) => Agrees(v, request', card, x)
      BY <2>1, <2>5 DEF Agrees, ActiveOf
    <2> HIDE DEF Agrees
    <2> QED
      BY <2>1, <2>2, <2>6 DEF Counted
  <1>7. EachCounted'
    BY <1>6 DEF EachCounted
  <1> QED
    BY <1>5, <1>7 DEF CountInv

LEMMA NextCounted == ASSUME Typed, CountInv, [Next]_vars PROVE CountInv'
  <1>1. ASSUME NEW c \in Clients, Abort(c) PROVE CountInv'
    <2>1. \A d \in Clients : tx'[d] = IF d = c THEN NoTx ELSE tx[d]
      BY <1>1 DEF Abort, Typed, TypeOK
    <2>2. request' = request
      BY <1>1 DEF Abort
    <2>3. OneHolder'
      BY <2>1 DEF CountInv, OneHolder, HoldsLiftRow
    <2> HIDE DEF Counted
    <2>4. EachCounted'
      BY <2>1, <2>2 DEF CountInv, EachCounted
    <2> QED
      BY <2>3, <2>4 DEF CountInv
  <1>2. CASE UNCHANGED vars
    BY <1>2 DEF vars, CountInv, OneHolder, EachCounted, HoldsLiftRow
  <1> QED
    BY <1>1, <1>2, BeginsCounted, EarlyCounted, RefreshLiftCounted, CountCounted, ShowCounted,
       CommitCounted DEF Next, Finish

LEMMA AlwaysCounted == Spec => [](Typed /\ CountInv)
  <1>1. Init => CountInv
    BY DEF Init, CountInv, OneHolder, EachCounted, HoldsLiftRow
  <1>2. Typed /\ CountInv /\ [Next]_vars => CountInv'
    BY NextCounted
  <1> QED
    BY <1>1, <1>2, AlwaysTyped, PTL DEF Spec

\* When a command commits, the rows of technicians_read it wrote are exact for
\* the requests of its own lift.
THEOREM OwnLiftIsExact == Spec => OwnLiftCounted
  <1>1. ASSUME Typed, CountInv, NEW c \in Clients, NEW x \in Techs, Commit(c),
               tx[c].req # NoReq, tx[c].wrote[x] # Unset,
               NEW q \in Requests, LiftOf[q] = LiftOf[tx[c].req]
        PROVE  q \in shown'[x].active <=> q \in ActiveOf(request', x)
    <2> DEFINE t == tx[c]
    <2>1. t \in Tx /\ t.pc = "done" /\ Counted(t, request)
      BY <1>1, InFlight DEF Commit, Pcs, CountInv, EachCounted
    <2>2. Agrees(t, request, t.wrote[x], x)
      BY <1>1, <2>1 DEF Counted
    <2>3. shown'[x] = t.wrote[x]
      BY <1>1 DEF Commit
    <2>4. request' = SeenRows(t, request)
      BY <1>1 DEF Commit, RequestsSeenBy, SeenRows
    <2> QED
      BY <1>1, <2>2, <2>3, <2>4 DEF Agrees
  <1>2. Typed /\ CountInv /\ [Next]_vars =>
           [\A c \in Clients, t \in Techs :
              LET r == tx[c].req IN
              Commit(c) /\ r # NoReq /\ tx[c].wrote[t] # Unset =>
                 \A q \in Requests :
                     LiftOf[q] = LiftOf[r] =>
                         (q \in shown'[t].active <=> q \in ActiveOf(request', t))]_vars
    BY <1>1
  <1> QED
    BY <1>2, AlwaysCounted, PTL DEF Spec, OwnLiftCounted

-----------------------------------------------------------------------------
(* Whoever's status a command changes is shown with that status.           *)

Listed(s, x) == \E i \in DOMAIN s : s[i] = x

\* A command on a technician has to do with no other one, and takes away the
\* row of technicians_read only without setting a status.
Single(t) ==
    /\ \E x \in Techs :
          /\ \A y \in Techs : Listed(t.shows, y) => y = x
          /\ \A y \in Techs \ {x} : t.set[y] = Unset /\ t.wrote[y] = Unset
    /\ (t.pc = "hide" \/ \E x \in Techs : t.wrote[x] = NoRow) => t.set = NoSet

\* A technician that a command sets is to be shown, or was shown as set.
Covers(t) ==
    /\ t.pc \in {"load", "save", "find", "mark"} =>
          \A i \in DOMAIN t.marks : Listed(t.shows, t.marks[i].tech)
    /\ \A x \in Techs : t.set[x] # Unset =>
          Listed(t.shows, x) \/ (t.wrote[x] \in Card /\ t.wrote[x].status = t.set[x])
    /\ t.pc = "show" /\ t.set[Head(t.shows)] # Unset =>
          t.card.status = t.set[Head(t.shows)]
    /\ t.pc = "done" => t.shows = << >>
    /\ t.req = NoReq => Single(t)

EachCovers == \A c \in Clients : tx[c] # NoTx => Covers(tx[c])

LEMMA EndsOfList ==
    ASSUME NEW s \in Seq(Techs), s # << >>
    PROVE  /\ Head(s) \in Techs /\ Listed(s, Head(s)) /\ Tail(s) \in Seq(Techs)
           /\ \A x \in Techs : Listed(s, x) /\ x # Head(s) => Listed(Tail(s), x)
           /\ \A x \in Techs : Listed(Tail(s), x) => Listed(s, x)
           /\ ~(Len(s) > 1) => Tail(s) = << >>
  <1>1. /\ Head(s) \in Techs /\ 1 \in DOMAIN s /\ Head(s) = s[1] /\ Tail(s) \in Seq(Techs)
        /\ Tail(s) # << >> => Len(s) > 1
        /\ \A i \in DOMAIN Tail(s) : i + 1 \in DOMAIN s /\ Tail(s)[i] = s[i + 1]
    BY HeadAndTail
  <1>2. ASSUME NEW x \in Techs, Listed(s, x), x # Head(s) PROVE Listed(Tail(s), x)
    <2>1. PICK i \in DOMAIN s : s[i] = x
      BY <1>2 DEF Listed
    <2>2. /\ i \in 1..Len(s) /\ i # 1 /\ Len(s) \in Nat
          /\ Len(Tail(s)) = Len(s) - 1 /\ DOMAIN Tail(s) = 1..Len(Tail(s))
      BY <1>1, <1>2, <2>1, HeadTailProperties, LenProperties
    <2>3. i - 1 \in DOMAIN Tail(s) /\ (i - 1) + 1 = i
      BY <2>2
    <2> QED
      BY <1>1, <2>1, <2>3 DEF Listed
  <1> QED
    BY <1>1, <1>2 DEF Listed

LEMMA ListedInBoth ==
    ASSUME NEW s1 \in Seq(Techs), NEW s2 \in Seq(Techs), NEW x
    PROVE  Listed(s1, x) \/ Listed(s2, x) => Listed(s1 \o s2, x)
  <1>1. /\ s1 \o s2 \in Seq(Techs) /\ Len(s1 \o s2) = Len(s1) + Len(s2)
        /\ \A i \in 1..Len(s1) + Len(s2) :
              (s1 \o s2)[i] = IF i <= Len(s1) THEN s1[i] ELSE s2[i - Len(s1)]
    BY ConcatProperties
  <1>2. /\ Len(s1) \in Nat /\ Len(s2) \in Nat /\ DOMAIN s1 = 1..Len(s1) /\ DOMAIN s2 = 1..Len(s2)
        /\ DOMAIN (s1 \o s2) = 1..Len(s1 \o s2)
    BY <1>1, LenProperties
  <1>3. ASSUME NEW i \in DOMAIN s1, s1[i] = x PROVE Listed(s1 \o s2, x)
    <2>1. i \in DOMAIN (s1 \o s2) /\ (s1 \o s2)[i] = x
      BY <1>1, <1>2, <1>3
    <2> QED
      BY <2>1 DEF Listed
  <1>4. ASSUME NEW i \in DOMAIN s2, s2[i] = x PROVE Listed(s1 \o s2, x)
    <2> DEFINE k == Len(s1) + i
    <2>1. k \in 1..Len(s1) + Len(s2) /\ ~(k <= Len(s1)) /\ k - Len(s1) = i
      BY <1>2
    <2>2. k \in DOMAIN (s1 \o s2) /\ (s1 \o s2)[k] = x
      BY <1>1, <1>2, <1>4, <2>1
    <2> QED
      BY <2>2 DEF Listed
  <1> QED
    BY <1>3, <1>4 DEF Listed

\* The technicians a command on a request sets are those it publishes.
LEMMA MarksAreTouched ==
    ASSUME NEW old \in Row, NEW new \in Row
    PROVE  LET marks == SyncTechnicians(old, new)
               s == Touched(old, new)
           IN  \A i \in DOMAIN marks : Listed(s, marks[i].tech)
  <1> DEFINE left == old.tech # NoTech /\ old.tech # new.tech /\ old.status \in Active
             free == [tech |-> old.tech, status |-> "free"]
             mark == [tech |-> new.tech,
                      status |-> IF new.status \in Active THEN "busy" ELSE "free"]
             a == IF left THEN <<free>> ELSE << >>
             b == IF new.tech = NoTech \/ new.status = "pending" THEN << >> ELSE <<mark>>
             f == IF old.tech = NoTech THEN << >> ELSE <<old.tech>>
             g == IF new.tech \in {NoTech, old.tech} THEN << >> ELSE <<new.tech>>
             s == Touched(old, new)
  <1>1. SyncTechnicians(old, new) = a \o b /\ s = f \o g
    BY DEF SyncTechnicians, Touched
  <1>2. f \in Seq(Techs) /\ g \in Seq(Techs)
    BY DEF Row
  <1>3. old.tech # NoTech => Listed(f, old.tech)
    BY DEF Listed
  <1>4. new.tech \notin {NoTech, old.tech} => Listed(g, new.tech)
    BY DEF Listed
  <1>5. \A i \in DOMAIN a : a[i].tech = old.tech /\ old.tech # NoTech
    OBVIOUS
  <1>6. \A i \in DOMAIN b : b[i].tech = new.tech /\ new.tech # NoTech
    OBVIOUS
  <1>7. a \in Seq({free, mark}) /\ b \in Seq({free, mark})
    <2>1. << >> \in Seq({free, mark}) /\ <<free>> \in Seq({free, mark})
          /\ <<mark>> \in Seq({free, mark})
      <3> HIDE DEF free, mark
      <3> QED
        OBVIOUS
    <2> HIDE DEF free, mark
    <2> QED
      BY <2>1
  <1> HIDE DEF a, b, f, g, s, free, mark
  <1>8. /\ old.tech # NoTech => Listed(s, old.tech)
        /\ new.tech # NoTech => Listed(s, new.tech)
    BY <1>1, <1>2, <1>3, <1>4, ListedInBoth
  <1>9. ASSUME NEW i \in DOMAIN (a \o b) PROVE Listed(s, (a \o b)[i].tech)
    <2>1. CASE i <= Len(a)
      <3>1. i \in DOMAIN a /\ (a \o b)[i] = a[i]
        BY <1>7, <1>9, <2>1
      <3> QED
        BY <1>5, <1>8, <3>1
    <2>2. CASE ~(i <= Len(a))
      <3>1. i - Len(a) \in DOMAIN b /\ (a \o b)[i] = b[i - Len(a)]
        BY <1>7, <1>9, <2>2
      <3> QED
        BY <1>6, <1>8, <3>1
    <2> QED
      BY <2>1, <2>2
  <1> QED
    BY <1>1, <1>9 DEF s

LEMMA StepKeepsCovers ==
    ASSUME Typed, EachCovers, NEW c \in Clients, NEW u, Covers(u), tx' = [tx EXCEPT ![c] = u]
    PROVE  EachCovers'
  <1>1. \A d \in Clients : tx'[d] = IF d = c THEN u ELSE tx[d]
    BY DEF Typed, TypeOK
  <1> HIDE DEF Covers
  <1> QED
    BY <1>1 DEF EachCovers

LEMMA CoversNow ==
    ASSUME Typed, EachCovers, NEW c \in Clients, tx[c].pc \in Pcs
    PROVE  /\ tx[c] \in Tx /\ tx[c] # NoTx /\ Fits(tx[c], request, tech) /\ Covers(tx[c])
  BY InFlight DEF EachCovers

\* A command on a request, as it begins.
LEMMA RequestTxCovers ==
    ASSUME NEW pc \in Pcs \ {"show", "done", "hide"}, NEW r \in Requests, NEW seen, NEW want,
           NEW asked, NEW put, NEW marks, NEW shows,
           \A i \in DOMAIN marks : Listed(shows, marks[i].tech)
    PROVE  Covers(NewTx(pc, r, seen, want, asked, put, marks, NoSet, shows))
  <1> DEFINE t == NewTx(pc, r, seen, want, asked, put, marks, NoSet, shows)
  <1>1. t.pc = pc /\ t.req = r /\ t.marks = marks /\ t.set = NoSet /\ t.shows = shows
    BY DEF NewTx
  <1> HIDE DEF t
  <1>2. Covers(t)
    BY <1>1, Apart, NoSetTyped DEF Covers
  <1> QED
    BY <1>2 DEF t

\* A command on a technician, as it begins.
LEMMA TechTxCovers ==
    ASSUME NEW pc \in {"count", "find", "hide"}, NEW x \in Techs, NEW marks,
           NEW set \in [Techs -> TechStatus \union {Unset}],
           \A i \in DOMAIN marks : marks[i].tech = x,
           \A y \in Techs \ {x} : set[y] = Unset,
           pc = "hide" => set = NoSet
    PROVE  Covers(NewTx(pc, NoReq, NoRow, NoRow, FALSE, {}, marks, set, <<x>>))
  <1> DEFINE t == NewTx(pc, NoReq, NoRow, NoRow, FALSE, {}, marks, set, <<x>>)
             s == <<x>>
  <1>1. /\ t.pc = pc /\ t.req = NoReq /\ t.marks = marks /\ t.set = set /\ t.shows = s
        /\ t.wrote = NoSet
    BY DEF NewTx
  <1>2. Listed(s, x) /\ \A y : Listed(s, y) => y = x
    BY DEF Listed
  <1> HIDE DEF t, s
  <1>3. Single(t)
    BY <1>1, <1>2, Apart, NoSetTyped DEF Single
  <1>4. Covers(t)
    BY <1>1, <1>2, <1>3 DEF Covers
  <1> QED
    BY <1>4 DEF t

LEMMA BeginsCover ==
    ASSUME Typed, EachCovers, NEW c \in Clients, Command(c)
    PROVE  EachCovers'
  <1>0. ASSUME NEW t, Begin(c, t), Covers(t) PROVE EachCovers'
    <2> HIDE DEF Covers
    <2> QED
      BY <1>0, StepKeepsCovers DEF Begin
  <1>1. ASSUME NEW r \in Requests, NEW new \in Row, CreateRequest(c, r, new) PROVE EachCovers'
    <2> DEFINE old == [status |-> "pending", tech |-> NoTech]
               marks == SyncTechnicians(old, new)
               pc == AfterSave(marks)
               put == {"status", "tech"}
               shows == Touched(old, new)
               t == NewTx(pc, r, NoRow, new, TRUE, put, marks, NoSet, shows)
    <2>1. old \in Row
      BY ServiceRequestsAssumption DEF Row
    <2>2. \A i \in DOMAIN marks : Listed(shows, marks[i].tech)
      BY <2>1, MarksAreTouched
    <2>3. Begin(c, t)
      BY <1>1 DEF CreateRequest
    <2>4. pc \in Pcs \ {"show", "done", "hide"}
      BY DEF AfterSave, Pcs
    <2> HIDE DEF old, marks, pc, put, shows
    <2>5. Covers(t)
      BY <2>2, <2>4, RequestTxCovers
    <2> QED
      BY <1>0, <2>3, <2>5
  <1>2. ASSUME NEW r \in Requests, NEW new \in Row, NEW asked, request[r] \in Row,
               Begin(c, NewTx("load", r, request[r], new, asked, {},
                              SyncTechnicians(request[r], new), NoSet, Touched(request[r], new)))
        PROVE  EachCovers'
    <2> DEFINE marks == SyncTechnicians(request[r], new)
               shows == Touched(request[r], new)
               t == NewTx("load", r, request[r], new, asked, {}, marks, NoSet, shows)
    <2>1. \A i \in DOMAIN marks : Listed(shows, marks[i].tech)
      BY <1>2, MarksAreTouched
    <2>2. Begin(c, t) /\ "load" \in Pcs \ {"show", "done", "hide"}
      BY <1>2 DEF Pcs
    <2> HIDE DEF marks, shows
    <2>3. Covers(t)
      BY <2>1, <2>2, RequestTxCovers
    <2> QED
      BY <1>0, <2>2, <2>3
  <1>3. ASSUME NEW r \in Requests, NEW body \in Bodies, UpdateRequest(c, r, body) PROVE EachCovers'
    <2> DEFINE new == Wanted(request[r], body)
               asked == body.status # Unset
    <2>1. request[r] \in Row /\ new \in Row
      BY <1>3, RowThere, WantedTyped DEF UpdateRequest
    <2>2. Begin(c, NewTx("load", r, request[r], new, asked, {},
                         SyncTechnicians(request[r], new), NoSet, Touched(request[r], new)))
      BY <1>3 DEF UpdateRequest
    <2> HIDE DEF new, asked
    <2> QED
      BY <1>2, <2>1, <2>2
  <1>4. ASSUME NEW r \in Requests, FileReport(c, r) PROVE EachCovers'
    <2> DEFINE new == [status |-> "completed", tech |-> request[r].tech]
    <2>1. request[r] \in Row
      BY <1>4, RowThere DEF FileReport
    <2>2. new \in Row
      BY <2>1, ServiceRequestsAssumption DEF Row
    <2>3. Begin(c, NewTx("load", r, request[r], new, TRUE, {},
                         SyncTechnicians(request[r], new), NoSet, Touched(request[r], new)))
      BY <1>4 DEF FileReport
    <2> HIDE DEF new
    <2> QED
      BY <1>2, <2>1, <2>2, <2>3
  <1>5. ASSUME NEW r \in Requests, DeleteRequest(c, r) PROVE EachCovers'
    <2> DEFINE old == request[r]
               shows == Touched(old, old)
               marks == << >>
               t == NewTx("lift", r, old, old, FALSE, {}, marks, NoSet, shows)
    <2>1. Begin(c, t) /\ "lift" \in Pcs \ {"show", "done", "hide"}
      BY <1>5 DEF DeleteRequest, Pcs
    <2>2. \A i \in DOMAIN marks : Listed(shows, marks[i].tech)
      OBVIOUS
    <2> HIDE DEF shows, marks
    <2>3. Covers(t)
      BY <2>1, <2>2, RequestTxCovers
    <2> QED
      BY <1>0, <2>1, <2>3
  <1>6. ASSUME NEW x \in Techs, NEW s \in TechStatus, CreateTech(c, x, s) PROVE EachCovers'
    <2> DEFINE set == [NoSet EXCEPT ![x] = s]
               marks == << >>
               t == NewTx("count", NoReq, NoRow, NoRow, FALSE, {}, marks, set, <<x>>)
    <2>1. /\ set \in [Techs -> TechStatus \union {Unset}]
          /\ \A y \in Techs \ {x} : set[y] = Unset
      BY NoSetTyped
    <2>2. Begin(c, t)
      BY <1>6 DEF CreateTech
    <2>3. \A i \in DOMAIN marks : marks[i].tech = x
      OBVIOUS
    <2> HIDE DEF set, marks
    <2>4. Covers(t)
      BY <2>1, <2>3, TechTxCovers
    <2> QED
      BY <1>0, <2>2, <2>4
  <1>7. ASSUME NEW x \in Techs, NEW s \in TechStatus \union {Unset}, UpdateTech(c, x, s)
        PROVE  EachCovers'
    <2> DEFINE m == [tech |-> x, status |-> IF s = Unset THEN tech[x] ELSE s]
               marks == <<m>>
               t == NewTx("find", NoReq, NoRow, NoRow, FALSE, {}, marks, NoSet, <<x>>)
    <2>1. Begin(c, t)
      BY <1>7 DEF UpdateTech
    <2>2. \A i \in DOMAIN marks : marks[i].tech = x
      OBVIOUS
    <2> HIDE DEF m, marks
    <2>3. Covers(t)
      BY <2>2, NoSetTyped, TechTxCovers
    <2> QED
      BY <1>0, <2>1, <2>3
  <1>8. ASSUME NEW x \in Techs, DeleteTech(c, x) PROVE EachCovers'
    <2> DEFINE marks == << >>
               t == NewTx("hide", NoReq, NoRow, NoRow, FALSE, {}, marks, NoSet, <<x>>)
    <2>1. Begin(c, t)
      BY <1>8 DEF DeleteTech
    <2>2. \A i \in DOMAIN marks : marks[i].tech = x
      OBVIOUS
    <2> HIDE DEF marks
    <2>3. Covers(t)
      BY <2>2, NoSetTyped, TechTxCovers
    <2> QED
      BY <1>0, <2>1, <2>3
  <1> QED
    BY <1>1, <1>3, <1>4, <1>5, <1>6, <1>7, <1>8 DEF Command

\* Statements that set and show nothing.
LEMMA PlainStepCovers ==
    ASSUME Typed, EachCovers, NEW c \in Clients, tx[c].pc \in Pcs, NEW u, Step(c, u),
           u.pc \in {"save", "find", "mark"} => tx[c].pc \in {"load", "save", "find", "mark"},
           u.pc \notin {"show", "done", "hide"} \/ (u.pc = "done" /\ u.shows = << >>),
           u.req = tx[c].req, u.marks = tx[c].marks, u.set = tx[c].set,
           u.shows = tx[c].shows, u.wrote = tx[c].wrote, u.pc # "load"
    PROVE  EachCovers'
  <1>1. Covers(tx[c])
    BY CoversNow
  <1>2. Covers(u)
    BY <1>1 DEF Covers, Single
  <1> QED
    BY <1>2, StepKeepsCovers DEF Step

LEMMA PlainCovers ==
    ASSUME Typed, EachCovers, NEW c \in Clients, Load(c) \/ Save(c) \/ Find(c) \/ RefreshLift(c)
    PROVE  EachCovers'
  <1>1. CASE Load(c)
    <2> DEFINE t == tx[c]
               u == [t EXCEPT !.pc = "save", !.row = request[t.req]]
    <2>1. t \in Tx /\ t.pc = "load" /\ t.pc \in Pcs /\ Step(c, u)
      BY <1>1, CoversNow DEF Load, Pcs
    <2>2. /\ u.pc = "save" /\ u.req = t.req /\ u.marks = t.marks /\ u.set = t.set
          /\ u.shows = t.shows /\ u.wrote = t.wrote
      BY <2>1 DEF Tx
    <2> HIDE DEF u
    <2> QED
      BY <2>1, <2>2, PlainStepCovers
  <1>2. CASE Save(c)
    <2> DEFINE t == tx[c]
               pc == AfterSave(t.marks)
               u == [t EXCEPT !.pc = pc, !.put = Differs(t)]
    <2>1. t \in Tx /\ t.pc = "save" /\ t.pc \in Pcs /\ Step(c, u)
      BY <1>2, CoversNow DEF Save, Pcs
    <2>2. pc \in {"find", "request"}
      BY DEF AfterSave
    <2> HIDE DEF pc
    <2>3. /\ u.pc = pc /\ u.req = t.req /\ u.marks = t.marks /\ u.set = t.set
          /\ u.shows = t.shows /\ u.wrote = t.wrote
      BY <2>1 DEF Tx
    <2> HIDE DEF u
    <2> QED
      BY <2>1, <2>2, <2>3, PlainStepCovers
  <1>3. CASE Find(c)
    <2> DEFINE t == tx[c]
               found == TechSeenBy(c, Head(t.marks).tech)
               u == [t EXCEPT !.pc = "mark", !.found = found]
    <2>1. t \in Tx /\ t.pc = "find" /\ t.pc \in Pcs /\ Step(c, u)
      BY <1>3, CoversNow DEF Find, Pcs
    <2> HIDE DEF found
    <2>2. /\ u.pc = "mark" /\ u.req = t.req /\ u.marks = t.marks /\ u.set = t.set
          /\ u.shows = t.shows /\ u.wrote = t.wrote
      BY <2>1 DEF Tx
    <2> HIDE DEF u
    <2> QED
      BY <2>1, <2>2, PlainStepCovers
  <1>4. CASE RefreshLift(c)
    <2> DEFINE t == tx[c]
               pc == IF t.shows = << >> THEN "done" ELSE "count"
               u == [t EXCEPT !.pc = pc]
    <2>1. t \in Tx /\ t.pc \in Pcs /\ Step(c, u)
      BY <1>4, CoversNow DEF RefreshLift, Pcs
    <2>2. pc = "count" \/ (pc = "done" /\ t.shows = << >>)
      OBVIOUS
    <2> HIDE DEF pc
    <2>3. /\ u.pc = pc /\ u.req = t.req /\ u.marks = t.marks /\ u.set = t.set
          /\ u.shows = t.shows /\ u.wrote = t.wrote
      BY <2>1 DEF Tx
    <2> HIDE DEF u
    <2> QED
      BY <2>1, <2>2, <2>3, PlainStepCovers
  <1> QED
    BY <1>1, <1>2, <1>3, <1>4

LEMMA MarkTechCovers == ASSUME Typed, EachCovers, NEW c \in Clients, MarkTech(c) PROVE EachCovers'
  <1> DEFINE t == tx[c]
             m == Head(t.marks)
             rest == Tail(t.marks)
             pc == AfterMarks(t)
             set == IF Changes(t) THEN [t.set EXCEPT ![m.tech] = m.status] ELSE t.set
             u == [t EXCEPT !.pc = pc, !.marks = rest, !.set = set]
  <1>1. t \in Tx /\ t.pc = "mark" /\ Fits(t, request, tech) /\ Covers(t)
    BY CoversNow DEF MarkTech, Pcs
  <1>2. Step(c, u)
    BY DEF MarkTech
  <1>3. t.marks \in Seq(Mark) /\ t.marks # << >>
    BY <1>1, FieldsOfTx DEF Fits
  <1>4. /\ m \in Mark /\ 1 \in DOMAIN t.marks /\ m = t.marks[1]
        /\ \A i \in DOMAIN rest : i + 1 \in DOMAIN t.marks /\ rest[i] = t.marks[i + 1]
    BY <1>3, HeadAndTail
  <1>5. m.tech \in Techs /\ Listed(t.shows, m.tech)
    BY <1>1, <1>4 DEF Covers, Mark
  <1>6. /\ t.wrote = NoSet /\ t.set \in [Techs -> TechStatus \union {Unset}]
    BY <1>1, FieldsOfTx DEF Fits
  <1>7. \A x \in Techs : set[x] = t.set[x] \/ x = m.tech
    BY <1>6
  <1>8. pc \in {"find", "count", "request"}
    BY DEF AfterMarks
  <1> HIDE DEF t, m, rest, pc, set
  <1>9. /\ u.pc = pc /\ u.marks = rest /\ u.set = set /\ u.req = t.req
        /\ u.shows = t.shows /\ u.wrote = t.wrote
    BY <1>1 DEF Tx
  <1> HIDE DEF u
  <1>10. u.req = NoReq => Single(u)
    <2> SUFFICES ASSUME u.req = NoReq PROVE Single(u)
      OBVIOUS
    <2>1. PICK x \in Techs :
             /\ \A y \in Techs : Listed(t.shows, y) => y = x
             /\ \A y \in Techs \ {x} : t.set[y] = Unset /\ t.wrote[y] = Unset
      BY <1>1, <1>9 DEF Covers, Single
    <2>2. \A y \in Techs \ {x} : set[y] = Unset
      BY <1>5, <1>7, <2>1
    <2>3. \A y \in Techs : u.wrote[y] # NoRow
      BY <1>6, <1>9, NoSetTyped, Apart
    <2> QED
      BY <1>8, <1>9, <2>1, <2>2, <2>3 DEF Single
  <1>11. \A x \in Techs : set[x] # Unset => Listed(t.shows, x)
    BY <1>1, <1>5, <1>6, <1>7, NoSetTyped, Apart DEF Covers
  <1>12. pc = "find" => \A i \in DOMAIN rest : Listed(t.shows, rest[i].tech)
    BY <1>1, <1>4 DEF Covers
  <1>13. Covers(u)
    BY <1>8, <1>9, <1>10, <1>11, <1>12 DEF Covers
  <1> QED
    BY <1>2, <1>13, StepKeepsCovers DEF Step

LEMMA ShowRequestCovers ==
    ASSUME Typed, EachCovers, NEW c \in Clients, ShowRequest(c) PROVE EachCovers'
  <1> DEFINE t == tx[c]
             more == TechOfRow(c)
             shows == more \o t.shows
             u == [t EXCEPT !.pc = "lift", !.shows = shows]
  <1>1. t \in Tx /\ t.pc = "request" /\ Fits(t, request, tech) /\ Covers(t)
    BY CoversNow DEF ShowRequest, Pcs
  <1>2. Step(c, u)
    BY DEF ShowRequest
  <1>3. more \in Seq(Techs) /\ t.shows \in Seq(Techs) /\ t.req # NoReq
    BY <1>1, TechOfRowTyped, FieldsOfTx DEF Fits
  <1>4. \A x \in Techs : Listed(t.shows, x) => Listed(shows, x)
    BY <1>3, ListedInBoth
  <1> HIDE DEF t, shows
  <1>5. u.pc = "lift" /\ u.shows = shows /\ u.req = t.req /\ u.set = t.set /\ u.wrote = t.wrote
    BY <1>1 DEF Tx
  <1> HIDE DEF u
  <1>6. Covers(u)
    BY <1>1, <1>3, <1>4, <1>5 DEF Covers
  <1> QED
    BY <1>2, <1>6, StepKeepsCovers DEF Step

LEMMA CountCovers == ASSUME Typed, EachCovers, NEW c \in Clients, Count(c) PROVE EachCovers'
  <1> DEFINE t == tx[c]
             x == Head(t.shows)
             card == [status |-> TechSeenBy(c, x), active |-> ActiveOf(RequestsSeenBy(c), x)]
             u == [t EXCEPT !.pc = "show", !.card = card]
  <1>1. t \in Tx /\ t.pc = "count" /\ Covers(t) /\ Step(c, u)
    BY CoversNow DEF Count, Pcs
  <1>2. t.set[x] # Unset => card.status = t.set[x]
    BY DEF TechSeenBy
  <1> HIDE DEF t, x, card
  <1>3. /\ u.pc = "show" /\ u.card = card /\ u.req = t.req /\ u.set = t.set
        /\ u.shows = t.shows /\ u.wrote = t.wrote
    BY <1>1 DEF Tx
  <1> HIDE DEF u
  <1>4. Covers(u)
    BY <1>1, <1>2, <1>3 DEF Covers, Single, x
  <1> QED
    BY <1>1, <1>4, StepKeepsCovers DEF Step

LEMMA ShowCovers == ASSUME Typed, EachCovers, NEW c \in Clients, Show(c) PROVE EachCovers'
  <1> DEFINE t == tx[c]
             x == Head(t.shows)
             rest == Tail(t.shows)
             pc == IF Len(t.shows) > 1 THEN "count" ELSE "done"
             wrote == [t.wrote EXCEPT ![x] = t.card]
             u == [t EXCEPT !.pc = pc, !.shows = rest, !.wrote = wrote]
  <1>1. t \in Tx /\ t.pc = "show" /\ Fits(t, request, tech) /\ Covers(t)
    BY CoversNow DEF Show, Pcs
  <1>2. Step(c, u)
    BY DEF Show
  <1>3. /\ t.shows \in Seq(Techs) /\ t.shows # << >>
        /\ t.card \in Card /\ t.wrote \in [Techs -> Card \union {NoRow, Unset}]
    BY <1>1, FieldsOfTx DEF Fits
  <1>4. /\ x \in Techs /\ Listed(t.shows, x)
        /\ \A y \in Techs : Listed(t.shows, y) /\ y # x => Listed(rest, y)
        /\ \A y \in Techs : Listed(rest, y) => Listed(t.shows, y)
        /\ ~(Len(t.shows) > 1) => rest = << >>
    BY <1>3, EndsOfList
  <1>5. \A y \in Techs : wrote[y] = IF y = x THEN t.card ELSE t.wrote[y]
    BY <1>3
  <1>6. t.set[x] # Unset => t.card.status = t.set[x]
    BY <1>1 DEF Covers
  <1>7. pc \in {"count", "done"} /\ (pc = "done" => rest = << >>)
    BY <1>4
  <1> HIDE DEF t, x, rest, pc, wrote
  <1>8. u.pc = pc /\ u.shows = rest /\ u.wrote = wrote /\ u.req = t.req /\ u.set = t.set
    BY <1>1 DEF Tx
  <1> HIDE DEF u
  <1>9. u.req = NoReq => Single(u)
    <2> SUFFICES ASSUME u.req = NoReq PROVE Single(u)
      OBVIOUS
    <2>1. /\ \E z \in Techs :
                /\ \A y \in Techs : Listed(t.shows, y) => y = z
                /\ \A y \in Techs \ {z} : t.set[y] = Unset /\ t.wrote[y] = Unset
          /\ (\E y \in Techs : t.wrote[y] = NoRow) => t.set = NoSet
      BY <1>1, <1>8 DEF Covers, Single
    <2>2. \A y \in Techs : wrote[y] = NoRow => t.wrote[y] = NoRow
      BY <1>3, <1>5, Apart
    <2>3. \A y \in Techs \ {x} : t.set[y] = Unset /\ wrote[y] = Unset
      BY <1>4, <1>5, <2>1
    <2>4. \A y \in Techs : Listed(rest, y) => y = x
      BY <1>4, <2>1
    <2>5. pc # "hide"
      BY <1>7
    <2> QED
      BY <1>4, <1>8, <2>1, <2>2, <2>3, <2>4, <2>5 DEF Single
  <1>10. ASSUME NEW y \in Techs, t.set[y] # Unset
         PROVE  Listed(rest, y) \/ (wrote[y] \in Card /\ wrote[y].status = t.set[y])
    BY <1>1, <1>3, <1>4, <1>5, <1>6, <1>10 DEF Covers
  <1>11. Covers(u)
    BY <1>7, <1>8, <1>9, <1>10 DEF Covers
  <1> QED
    BY <1>2, <1>11, StepKeepsCovers DEF Step

LEMMA HideCovers == ASSUME Typed, EachCovers, NEW c \in Clients, Hide(c) PROVE EachCovers'
  <1> DEFINE t == tx[c]
             x == Head(t.shows)
             wrote == IF shown[x] = NoRow THEN t.wrote ELSE [t.wrote EXCEPT ![x] = NoRow]
             s == << >>
             u == [t EXCEPT !.pc = "done", !.shows = s, !.wrote = wrote]
  <1>1. t \in Tx /\ t.pc = "hide" /\ Fits(t, request, tech) /\ Covers(t)
    BY CoversNow DEF Hide, Pcs
  <1>2. Step(c, u)
    BY DEF Hide
  <1>3. t.req = NoReq /\ t.shows \in Seq(Techs) /\ t.shows # << >>
        /\ t.wrote \in [Techs -> Card \union {NoRow, Unset}]
    BY <1>1, FieldsOfTx DEF Fits
  <1>4. x \in Techs /\ Listed(t.shows, x)
    BY <1>3, EndsOfList
  <1>5. \A y \in Techs : wrote[y] = t.wrote[y] \/ y = x
    BY <1>3
  <1>6. s = << >> /\ \A y : ~Listed(s, y)
    BY DEF Listed
  <1> HIDE DEF t, x, wrote, s
  <1>7. u.pc = "done" /\ u.shows = s /\ u.wrote = wrote /\ u.req = t.req /\ u.set = t.set
    BY <1>1 DEF Tx
  <1> HIDE DEF u
  <1>8. t.set = NoSet /\ \A y \in Techs \ {x} : t.wrote[y] = Unset
    BY <1>1, <1>3, <1>4 DEF Covers, Single
  <1>9. \A y \in Techs \ {x} : u.set[y] = Unset /\ u.wrote[y] = Unset
    BY <1>5, <1>7, <1>8, NoSetTyped
  <1>10. Single(u)
    BY <1>4, <1>6, <1>7, <1>8, <1>9 DEF Single
  <1>11. Covers(u)
    BY <1>6, <1>7, <1>8, <1>10, NoSetTyped DEF Covers
  <1> QED
    BY <1>2, <1>11, StepKeepsCovers DEF Step

LEMMA CommitCovers == ASSUME Typed, EachCovers, NEW c \in Clients, Commit(c) PROVE EachCovers'
  <1> SUFFICES ASSUME NEW d \in Clients, NEW u, u = tx'[d], u # NoTx PROVE Covers(u)
    BY DEF EachCovers
  <1> DEFINE t == tx[d]
  <1>1. t \in Tx /\ t # NoTx /\ Covers(t) /\ u = [t EXCEPT !.crossed = TRUE]
    BY DEF Commit, EachCovers, Typed, TypeOK
  <1> HIDE DEF t
  <1>2. /\ u.pc = t.pc /\ u.req = t.req /\ u.marks = t.marks /\ u.set = t.set
        /\ u.shows = t.shows /\ u.wrote = t.wrote /\ u.card = t.card
    BY <1>1 DEF Tx
  <1> QED
    BY <1>1, <1>2 DEF Covers, Single

LEMMA NextCovers == ASSUME Typed, EachCovers, [Next]_vars PROVE EachCovers'
  <1>1. ASSUME NEW c \in Clients, Abort(c) PROVE EachCovers'
    BY <1>1 DEF Abort, EachCovers, Typed, TypeOK
  <1>2. CASE UNCHANGED vars
    BY <1>2 DEF vars, EachCovers
  <1> QED
    BY <1>1, <1>2, BeginsCover, PlainCovers, MarkTechCovers, ShowRequestCovers, CountCovers,
       ShowCovers, HideCovers, CommitCovers DEF Next, Finish

LEMMA AlwaysCovers == Spec => [](Typed /\ EachCovers)
  <1>1. Init => EachCovers
    BY DEF Init, EachCovers
  <1>2. Typed /\ EachCovers /\ [Next]_vars => EachCovers'
    BY NextCovers
  <1> QED
    BY <1>1, <1>2, AlwaysTyped, PTL DEF Spec

\* A command on a request is one step of the view.
LEMMA CommitIsWork ==
    ASSUME Typed, CountInv, EachCovers, NEW c \in Clients, Commit(c), tx[c].req # NoReq
    PROVE  View!WorkOn(tx[c].req) /\ tx[c].req \in Requests
  <1> DEFINE t == tx[c]
             r == t.req
             cards == {x \in Techs : t.wrote[x] # Unset}
  <1>1. /\ t \in Tx /\ t # NoTx /\ t.pc = "done" /\ Fits(t, request, tech) /\ Covers(t)
        /\ Counted(t, request)
    BY CoversNow DEF Commit, Pcs, CountInv, EachCounted
  <1>2. /\ r \in Requests /\ t.shows = << >> /\ t.wrote \in [Techs -> Card \union {NoRow, Unset}]
        /\ t.set \in [Techs -> TechStatus \union {Unset}]
        /\ \A x \in Techs : t.wrote[x] # NoRow
    BY <1>1, FieldsOfTx DEF Fits, Covers
  <1>3. \E row \in Row : request' = [request EXCEPT ![r] = row]
    <2>1. request \in [Requests -> Row \union {NoRow}]
      BY DEF Typed, TypeOK
    <2>2. CASE t.put # {}
      <3> DEFINE row == Merge(t, request[r])
      <3>1. row \in Row
        BY <1>1, <2>2, MergedRow
      <3>2. request' = [q \in Requests |-> IF q = r THEN row ELSE request[q]]
        BY <2>2 DEF Commit, RequestsSeenBy
      <3> HIDE DEF row
      <3>3. request' = [request EXCEPT ![r] = row]
        BY <2>1, <3>2
      <3> QED
        BY <3>1, <3>3
    <2>3. CASE t.put = {}
      <3>1. request[r] \in Row
        BY <1>1, <1>2, <2>1, <2>3 DEF Fits
      <3>2. request' = [q \in Requests |-> request[q]]
        BY <2>3 DEF Commit, RequestsSeenBy
      <3>3. request' = [request EXCEPT ![r] = request[r]]
        BY <2>1, <3>2
      <3> QED
        BY <3>1, <3>3
    <2> QED
      BY <2>2, <2>3
  <1>4. /\ tech' \in [Techs -> TechStatus \union {NoRow}]
        /\ shown' \in [Techs -> Card \union {NoRow}]
    BY CommitTyped DEF Typed, TypeOK
  <1>5. \A x \in Techs : /\ shown'[x] = IF t.wrote[x] = Unset THEN shown[x] ELSE t.wrote[x]
                         /\ tech'[x] = IF t.set[x] # Unset THEN t.set[x] ELSE tech[x]
    BY DEF Commit, TechSeenBy
  <1>6. \A x \in Techs : t.set[x] # Unset =>
           t.wrote[x] \in Card /\ t.wrote[x].status = t.set[x]
    BY <1>1, <1>2 DEF Covers, Listed
  <1>7. \A x \in cards : Agrees(t, request, t.wrote[x], x)
    BY <1>1 DEF Counted
  <1>8. request' = SeenRows(t, request)
    BY DEF Commit, RequestsSeenBy, SeenRows
  <1>9. \A x : ActiveOf(request', x) = View!Load(request', x)
    BY DEF ActiveOf, View!Load
  <1> HIDE DEF t, r, cards
  <1>10. \A x \in Techs \ cards : shown'[x] = shown[x] /\ tech'[x] = tech[x]
    BY <1>5, <1>6, Apart DEF cards
  <1>11. ASSUME NEW x \in cards
         PROVE  /\ shown'[x] # NoRow
                /\ tech'[x] # tech[x] => shown'[x].status = tech'[x]
                /\ \A q \in Requests : LiftOf[q] = LiftOf[r] =>
                      (q \in shown'[x].active <=> q \in View!Load(request', x))
    <2>1. x \in Techs /\ t.wrote[x] # Unset /\ shown'[x] = t.wrote[x] /\ shown'[x] # NoRow
      BY <1>2, <1>5 DEF cards
    <2>2. tech'[x] # tech[x] => shown'[x].status = tech'[x]
      BY <1>5, <1>6, <2>1
    <2>3. \A q \in Requests : LiftOf[q] = LiftOf[r] =>
             (q \in shown'[x].active <=> q \in ActiveOf(request', x))
      BY <1>7, <1>8, <2>1 DEF Agrees, r
    <2> QED
      BY <1>9, <2>1, <2>2, <2>3
  <1>12. cards \in SUBSET Techs
    BY DEF cards
  <1>13. View!WorkOn(r)
    BY <1>3, <1>4, <1>10, <1>11, <1>12 DEF View!WorkOn
  <1> QED
    BY <1>2, <1>13 DEF r, t

\* A command on a technician is one, or nothing that is seen.
LEMMA CommitIsEdit ==
    ASSUME Typed, EachCovers, NEW c \in Clients, Commit(c), tx[c].req = NoReq
    PROVE  \/ \E x \in Techs : View!Edit(x) \/ View!Remove(x)
           \/ UNCHANGED <<request, tech, shown>>
  <1> DEFINE t == tx[c]
  <1>1. /\ t \in Tx /\ t.pc = "done" /\ Fits(t, request, tech) /\ Covers(t) /\ Single(t)
    BY CoversNow DEF Commit, Pcs, Covers
  <1>2. /\ t.shows = << >> /\ t.put = {} /\ t.wrote \in [Techs -> Card \union {NoRow, Unset}]
        /\ t.set \in [Techs -> TechStatus \union {Unset}]
    BY <1>1, FieldsOfTx DEF Fits, Covers
  <1>3. PICK x \in Techs : \A y \in Techs \ {x} : t.set[y] = Unset /\ t.wrote[y] = Unset
    BY <1>1 DEF Single
  <1>4. request' = request
    BY <1>2 DEF Commit, RequestsSeenBy, Typed, TypeOK
  <1>5. /\ tech' = [y \in Techs |-> IF t.set[y] # Unset THEN t.set[y] ELSE tech[y]]
        /\ shown' = [y \in Techs |-> IF t.wrote[y] = Unset THEN shown[y] ELSE t.wrote[y]]
    BY DEF Commit, TechSeenBy
  <1>6. /\ tech \in [Techs -> TechStatus \union {NoRow}]
        /\ shown \in [Techs -> Card \union {NoRow}]
    BY DEF Typed, TypeOK
  <1>7. t.set[x] # Unset => t.wrote[x] \in Card /\ t.wrote[x].status = t.set[x]
    BY <1>1, <1>2 DEF Covers, Listed
  <1>8. t.wrote[x] = NoRow => t.set[x] = Unset
    BY <1>1, NoSetTyped DEF Single
  <1> HIDE DEF t
  <1>9. CASE t.wrote[x] = Unset
    <2>1. \A y \in Techs : t.wrote[y] = Unset /\ t.set[y] = Unset
      BY <1>3, <1>7, <1>9, Apart
    <2> QED
      BY <1>4, <1>5, <1>6, <2>1
  <1>10. CASE t.wrote[x] = NoRow
    <2>1. \A y \in Techs : t.set[y] = Unset
      BY <1>3, <1>8, <1>10
    <2>2. tech' = tech
      BY <1>5, <1>6, <2>1
    <2>3. shown' = [shown EXCEPT ![x] = NoRow]
      BY <1>3, <1>5, <1>6, <1>10, Apart
    <2> QED
      BY <1>4, <2>2, <2>3 DEF View!Remove
  <1>11. CASE t.wrote[x] \in Card
    <2> DEFINE s == IF t.set[x] # Unset THEN t.set[x] ELSE tech[x]
               card == t.wrote[x]
    <2>1. s \in TechStatus \union {NoRow} /\ card \in Card
      BY <1>2, <1>6, <1>11
    <2>2. s # tech[x] => card.status = s
      BY <1>7
    <2>3. tech' = [tech EXCEPT ![x] = s]
      BY <1>3, <1>5, <1>6
    <2>4. shown' = [shown EXCEPT ![x] = card]
      BY <1>3, <1>5, <1>6, <1>11, Apart
    <2> HIDE DEF s, card
    <2>5. View!Edit(x)
      BY <1>4, <2>1, <2>2, <2>3, <2>4 DEF View!Edit
    <2> QED
      BY <2>5
  <1> QED
    BY <1>2, <1>9, <1>10, <1>11

\* What is committed changes by whole commands, and shows whoever's status
\* they change.
THEOREM ImplementsTechnicians == Spec => ImplementsTechnicianView
  <1>1. Init => View!Init
    <2>1. \A x : ActiveOf(request, x) = View!Load(request, x)
      BY DEF ActiveOf, View!Load
    <2> QED
      BY <2>1 DEF Init, View!Init
  <1>2. ASSUME Typed, CountInv, EachCovers, [Next]_vars PROVE [View!Next]_(View!viewVars)
    <2>1. ASSUME NEW c \in Clients, Commit(c) PROVE [View!Next]_(View!viewVars)
      <3>1. CASE tx[c].req # NoReq
        BY <1>2, <2>1, <3>1, CommitIsWork DEF View!Next
      <3>2. CASE tx[c].req = NoReq
        BY <1>2, <2>1, <3>2, CommitIsEdit DEF View!Next, View!viewVars
      <3> QED
        BY <3>1, <3>2
    <2>2. ASSUME UNCHANGED <<request, tech, shown>> PROVE UNCHANGED View!viewVars
      BY <2>2 DEF View!viewVars
    <2>3. ASSUME NEW c \in Clients, Command(c) PROVE UNCHANGED <<request, tech, shown>>
      BY <2>3 DEF Command, CreateRequest, UpdateRequest, FileReport, DeleteRequest, CreateTech,
                  UpdateTech, DeleteTech, Begin
    <2>4. ASSUME NEW c \in Clients, Abort(c) PROVE UNCHANGED <<request, tech, shown>>
      BY <2>4 DEF Abort
    <2>5. ASSUME NEW c \in Clients,
                 \/ Load(c) \/ Save(c) \/ Find(c) \/ MarkTech(c) \/ ShowRequest(c)
                 \/ RefreshLift(c) \/ Count(c) \/ Show(c) \/ Hide(c)
          PROVE  UNCHANGED <<request, tech, shown>>
      BY <2>5 DEF Load, Save, Find, MarkTech, ShowRequest, RefreshLift, Count, Show, Hide, Step
    <2>6. CASE UNCHANGED vars
      BY <2>6, <2>2 DEF vars
    <2> QED
      BY <1>2, <2>1, <2>2, <2>3, <2>4, <2>5, <2>6 DEF Next, Finish
  <1> QED
    BY <1>1, <1>2, AlwaysCounted, AlwaysCovers, PTL DEF Spec, ImplementsTechnicianView, View!Spec
=============================================================================
