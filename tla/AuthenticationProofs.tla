------------------------- MODULE AuthenticationProofs -------------------------
(***************************************************************************)
(* Theorems about Authentication, for any accounts, roles, requests and    *)
(* number of tokens.                                                       *)
(***************************************************************************)
EXTENDS Authentication, TLAPS

\* What stands in a transaction tells its kind.
LEMMA Fields ==
    /\ NoTx \notin RegisterTx \union TokenTx
    /\ NoTx.pc = "none"
    /\ \A t \in RegisterTx :
          /\ t.pc \in {"insert", "count", "assign"} /\ t.email \in Emails /\ t.role \in Roles
          /\ t.code \in BOOLEAN /\ t.crossed \in BOOLEAN
    /\ \A t \in TokenTx :
          /\ t.pc \in {"revoke", "tell", "told"} /\ t.op \in {"refresh", "logout"}
          /\ t.token \in Token /\ t.token[1] \in Kinds /\ t.token[2] \in Pairs
          /\ t.crossed \in BOOLEAN
  <1>1. NoTx \notin RegisterTx \union TokenTx /\ NoTx.pc = "none"
    BY DEF NoTx, RegisterTx, TokenTx
  <1>2. \A t \in RegisterTx :
          /\ t.pc \in {"insert", "count", "assign"} /\ t.email \in Emails /\ t.role \in Roles
          /\ t.code \in BOOLEAN /\ t.crossed \in BOOLEAN
    BY DEF RegisterTx
  <1>3. \A t \in TokenTx :
          /\ t.pc \in {"revoke", "tell", "told"} /\ t.op \in {"refresh", "logout"}
          /\ t.token \in Token /\ t.token[1] \in Kinds /\ t.token[2] \in Pairs
          /\ t.crossed \in BOOLEAN
    BY DEF TokenTx, Token
  <1> QED
    BY <1>1, <1>2, <1>3

\* A transaction in flight, by where it is.
LEMMA Kind ==
    ASSUME TypeOK, NEW c \in Clients
    PROVE  /\ tx[c].pc \in {"insert", "count", "assign"} => tx[c] \in RegisterTx
           /\ tx[c].pc \in {"revoke", "tell", "told"} => tx[c] \in TokenTx
           /\ tx[c] = NoTx <=> tx[c].pc = "none"
  BY Fields DEF TypeOK

Tx == {NoTx} \union RegisterTx \union TokenTx

\* The transaction of one client, typed, replaces its own.
LEMMA SetTyped ==
    ASSUME TypeOK, NEW c \in Clients, NEW t \in Tx, Set(c, t)
    PROVE  tx' \in [Clients -> Tx]
  BY DEF TypeOK, Set, Tx

\* Those that are crossed keep their type and all else.
LEMMA CrossTyped ==
    ASSUME NEW t \in RegisterTx \union TokenTx
    PROVE  LET u == [t EXCEPT !.crossed = TRUE]
           IN  /\ t \in RegisterTx => u \in RegisterTx
               /\ t \in TokenTx => u \in TokenTx
               /\ u.pc = t.pc /\ u.crossed
               /\ t \in RegisterTx => u.email = t.email /\ u.role = t.role /\ u.code = t.code
               /\ t \in TokenTx => u.op = t.op /\ u.token = t.token
  <1>1. CASE t \in RegisterTx
    BY <1>1, Fields DEF RegisterTx
  <1>2. CASE t \in TokenTx
    BY <1>2, Fields DEF TokenTx
  <1> QED
    BY <1>1, <1>2

-----------------------------------------------------------------------------
(* Types.                                                                  *)

LEMMA InitTyped == Init => TypeOK
  BY AuthenticationAssumption DEF Init, TypeOK

LEMMA NextTyped == ASSUME TypeOK, [Next]_vars PROVE TypeOK'
  <1> USE AuthenticationAssumption
  <1>1. CASE Seed
    <2>1. users' \in [Emails -> Roles \union {NoUser}]
      BY <1>1 DEF Seed, TypeOK
    <2>2. \A c \in Registering : tx[c] \in RegisterTx
      BY Kind DEF Registering
    <2>3. tx' \in [Clients -> Tx]
      BY <1>1, <2>2, CrossTyped DEF Seed, TypeOK, Tx
    <2> QED
      BY <1>1, <2>1, <2>3 DEF Seed, tokenVars, TypeOK, Tx
  <1>2. CASE Login
    <2>1. issued' \in 0..MaxPairs /\ parent' \in [Pairs -> 0..MaxPairs]
      BY <1>2 DEF Login, Send, TypeOK, Pairs
    <2> QED
      BY <1>2, <2>1 DEF Login, Send, TypeOK
  <1>3. ASSUME NEW c \in Clients, NEW e \in Emails, NEW role \in Roles, NEW code \in BOOLEAN,
               Register(c, e, role, code)
        PROVE  TypeOK'
    <2>1. [pc |-> "insert", email |-> e, role |-> role, code |-> code, crossed |-> FALSE] \in Tx
      BY DEF Tx, RegisterTx
    <2> QED
      BY <1>3, <2>1, SetTyped DEF Register, tokenVars, TypeOK, Tx
  <1>4. ASSUME NEW c \in Clients, CreateUser(c) PROVE TypeOK'
    <2>1. tx[c] \in RegisterTx
      BY <1>4, Kind DEF CreateUser
    <2>2. [tx[c] EXCEPT !.pc = "count"] \in Tx /\ NoTx \in Tx
      BY <2>1 DEF Tx, RegisterTx
    <2>3. tx' \in [Clients -> Tx]
      BY <1>4, <2>2, SetTyped DEF CreateUser
    <2> QED
      BY <1>4, <2>3 DEF CreateUser, tokenVars, TypeOK, Tx
  <1>5. ASSUME NEW c \in Clients, CountUsers(c) PROVE TypeOK'
    <2> DEFINE role == RoleFor(tx[c], IsFirst)
    <2>1. tx[c] \in RegisterTx
      BY <1>5, Kind DEF CountUsers
    <2>2. role \in Roles
      BY <2>1, Fields DEF RoleFor
    <2> HIDE DEF role
    <2>3. [tx[c] EXCEPT !.pc = "assign", !.role = role] \in Tx /\ NoTx \in Tx
      BY <2>1, <2>2 DEF Tx, RegisterTx
    <2>4. tx' \in [Clients -> Tx]
      BY <1>5, <2>3, SetTyped DEF CountUsers, role
    <2> QED
      BY <1>5, <2>4 DEF CountUsers, tokenVars, TypeOK, Tx
  <1>6. ASSUME NEW c \in Clients, CommitUser(c) PROVE TypeOK'
    <2>1. tx[c] \in RegisterTx
      BY <1>6, Kind DEF CommitUser
    <2>2. users' \in [Emails -> Roles \union {NoUser}]
      BY <1>6, <2>1, Fields DEF CommitUser, TypeOK
    <2>3. \A d \in Registering : tx[d] \in RegisterTx
      BY Kind DEF Registering
    <2>4. tx' \in [Clients -> Tx]
      BY <1>6, <2>3, CrossTyped DEF CommitUser, EndCrossing, TypeOK, Tx
    <2> QED
      BY <1>6, <2>2, <2>4 DEF CommitUser, tokenVars, TypeOK, Tx
  <1>7. ASSUME NEW c \in Clients, NEW p \in Pairs, Refresh(c, p) PROVE TypeOK'
    <2>1. [pc |-> "revoke", op |-> "refresh", token |-> <<"refresh", p>>, crossed |-> FALSE] \in Tx
      BY DEF Tx, TokenTx, Token
    <2> QED
      BY <1>7, <2>1, SetTyped DEF Refresh, tokenVars, TypeOK, Tx
  <1>8. ASSUME NEW c \in Clients, NEW token \in Token, Logout(c, token) PROVE TypeOK'
    <2>1. [pc |-> "revoke", op |-> "logout", token |-> token, crossed |-> FALSE] \in Tx
      BY DEF Tx, TokenTx
    <2> QED
      BY <1>8, <2>1, SetTyped DEF Logout, tokenVars, TypeOK, Tx
  <1>9. ASSUME NEW c \in Clients, Revoke(c) PROVE TypeOK'
    <2>1. tx[c] \in TokenTx
      BY <1>9, Kind DEF Revoke
    <2>2. [tx[c] EXCEPT !.pc = "tell"] \in Tx
      BY <2>1 DEF Tx, TokenTx
    <2> QED
      BY <1>9, <2>2, SetTyped DEF Revoke, tokenVars, TypeOK, Tx
  <1>10. ASSUME NEW c \in Clients, Tell(c) PROVE TypeOK'
    <2>1. tx[c] \in TokenTx /\ tx[c].token[2] \in Pairs
      BY <1>10, Kind, Fields DEF Tell
    <2>2. [tx[c] EXCEPT !.pc = "told"] \in Tx
      BY <2>1 DEF Tx, TokenTx
    <2>3. tx' \in [Clients -> Tx]
      BY <1>10, <2>2, SetTyped DEF Tell
    <2>4. issued' \in 0..MaxPairs /\ parent' \in [Pairs -> 0..MaxPairs] /\ lost' \subseteq Pairs
      <3>1. CASE Send(tx[c].token[2])
        BY <3>1, <2>1 DEF Send, TypeOK, Pairs
      <3>2. CASE Lose(tx[c].token[2])
        BY <3>2, <2>1 DEF Lose, TypeOK
      <3>3. CASE UNCHANGED <<issued, parent, lost>>
        BY <3>3 DEF TypeOK
      <3> QED
        BY <1>10, <3>1, <3>2, <3>3 DEF Tell
    <2> QED
      BY <1>10, <2>3, <2>4 DEF Tell, TypeOK, Tx
  <1>11. ASSUME NEW c \in Clients, CommitToken(c) PROVE TypeOK'
    <2>1. tx[c] \in TokenTx /\ tx[c].token \in Token
      BY <1>11, Kind, Fields DEF CommitToken
    <2>2. \A d \in Holding(tx[c].token) : tx[d] \in TokenTx
      BY Kind DEF Holding
    <2>3. tx' \in [Clients -> Tx]
      BY <1>11, <2>2, CrossTyped DEF CommitToken, EndCrossing, TypeOK, Tx
    <2> QED
      BY <1>11, <2>1, <2>3 DEF CommitToken, TypeOK, Tx
  <1>12. ASSUME NEW c \in Clients, Abort(c) PROVE TypeOK'
    <2>1. NoTx \in Tx
      BY DEF Tx
    <2> QED
      BY <1>12, <2>1, SetTyped DEF Abort, tokenVars, TypeOK, Tx
  <1>13. CASE UNCHANGED vars
    BY <1>13 DEF vars, TypeOK
  <1> QED
    BY <1>1, <1>2, <1>3, <1>4, <1>5, <1>6, <1>7, <1>8, <1>9, <1>10, <1>11, <1>12, <1>13
    DEF Next, Request

\* Users, tokens and transactions have their types.
THEOREM TypeCorrect == Spec => []TypeOK
  BY InitTyped, NextTyped, PTL DEF Spec

-----------------------------------------------------------------------------
(* The administrators.                                                     *)

\* The email of an insert that is not committed is nobody's else.
InsertsApart ==
    /\ \A c \in Clients, e \in Emails : Inserting(c, e) => users[e] = NoUser
    /\ \A c, d \in Clients, e \in Emails : Inserting(c, e) /\ Inserting(d, e) => c = d

HasAdmin == \E e \in Emails : users[e] = Admin

\* A registration that did not count itself the first one has an administrator
\* before it,
LaterOnesHaveAdmin ==
    \A c \in Clients : tx[c].pc = "assign" /\ tx[c].role # Admin => HasAdmin

\* and one that became the administrator without the code has nobody, unless
\* it was crossed.
FirstOnesAreAlone ==
    \A c \in Clients :
        tx[c].pc = "assign" /\ tx[c].role = Admin /\ ~tx[c].code /\ ~tx[c].crossed => IsFirst

AdminInv == InsertsApart /\ LaterOnesHaveAdmin /\ FirstOnesAreAlone /\ SomeAdmin

\* A step that has nothing to do with users.
Quiet ==
    /\ users' = users
    /\ \A c \in Clients : tx'[c].pc \in {"count", "assign"} => tx'[c] = tx[c]

LEMMA QuietSteps ==
    ASSUME TypeOK
    PROVE  /\ Login => Quiet
           /\ UNCHANGED vars => Quiet
           /\ \A c \in Clients :
                 \/ \E e \in Emails, role \in Roles, code \in BOOLEAN : Register(c, e, role, code)
                 \/ \E p \in Pairs : Refresh(c, p)
                 \/ \E token \in Token : Logout(c, token)
                 \/ Revoke(c) \/ Tell(c) \/ CommitToken(c) \/ Abort(c)
                 => Quiet
  <1>1. Login \/ UNCHANGED vars => Quiet
    BY DEF Login, vars, Quiet
  <1>2. ASSUME NEW c \in Clients, NEW e \in Emails, NEW role \in Roles, NEW code \in BOOLEAN,
               Register(c, e, role, code)
        PROVE  Quiet
    BY <1>2 DEF Register, Set, Quiet, TypeOK
  <1>3. ASSUME NEW c \in Clients, NEW p \in Pairs, Refresh(c, p) PROVE Quiet
    BY <1>3 DEF Refresh, Set, Quiet, TypeOK
  <1>4. ASSUME NEW c \in Clients, NEW token \in Token, Logout(c, token) PROVE Quiet
    BY <1>4 DEF Logout, Set, Quiet, TypeOK
  <1>5. ASSUME NEW c \in Clients, Revoke(c) \/ Tell(c) PROVE Quiet
    <2>1. tx[c] \in TokenTx
      BY <1>5, Kind DEF Revoke, Tell
    <2>2. PICK pc \in {"tell", "told"} : Set(c, [tx[c] EXCEPT !.pc = pc]) /\ users' = users
      BY <1>5 DEF Revoke, Tell
    <2>3. [tx[c] EXCEPT !.pc = pc].pc = pc
      BY <2>1 DEF TokenTx
    <2> QED
      BY <2>2, <2>3 DEF Set, Quiet, TypeOK
  <1>6. ASSUME NEW c \in Clients, CommitToken(c) PROVE Quiet
    <2>1. \A d \in Holding(tx[c].token) :
             tx[d] \in TokenTx /\ [tx[d] EXCEPT !.crossed = TRUE].pc \notin {"count", "assign"}
      BY Kind, CrossTyped, Fields DEF Holding
    <2> QED
      BY <1>6, <2>1, Fields DEF CommitToken, EndCrossing, Quiet
  <1>7. ASSUME NEW c \in Clients, Abort(c) PROVE Quiet
    BY <1>7, Fields DEF Abort, Set, Quiet, TypeOK
  <1> QED
    BY <1>1, <1>2, <1>3, <1>4, <1>5, <1>6, <1>7

LEMMA QuietKeeps == ASSUME TypeOK, AdminInv, Quiet PROVE AdminInv'
  <1>1. \A c \in Clients, e \in Emails : Inserting(c, e)' => Inserting(c, e)
    BY Fields DEF Inserting, Quiet
  <1> QED
    BY <1>1 DEF AdminInv, InsertsApart, LaterOnesHaveAdmin, FirstOnesAreAlone, SomeAdmin,
                HasAdmin, IsFirst, Quiet

\* Those that register when somebody else's row is committed are crossed.
LEMMA CrossedRegistration ==
    ASSUME TypeOK, NEW c \in Clients,
           tx'[c] = IF c \in Registering THEN [tx[c] EXCEPT !.crossed = TRUE] ELSE tx[c],
           tx'[c].pc \in {"count", "assign"}
    PROVE  /\ tx'[c].crossed
           /\ tx'[c].pc = tx[c].pc /\ tx'[c].email = tx[c].email /\ tx[c] # NoTx
  <1>1. CASE c \in Registering
    <2>1. tx[c] \in RegisterTx /\ tx'[c] = [tx[c] EXCEPT !.crossed = TRUE]
      BY <1>1, Kind DEF Registering
    <2>2. tx'[c].crossed /\ tx'[c].pc = tx[c].pc /\ tx'[c].email = tx[c].email
      BY <2>1, CrossTyped, Zenon
    <2> QED
      BY <2>1, <2>2, Fields
  <1>2. CASE c \notin Registering
    BY <1>2, Fields DEF Registering
  <1> QED
    BY <1>1, <1>2

\* So a commit of a user that leaves an administrator keeps what concerns the
\* others.
LEMMA CommitKeeps ==
    ASSUME TypeOK, HasAdmin',
           \A c \in Clients : tx'[c].pc \in {"count", "assign"} => tx'[c].crossed
    PROVE  (LaterOnesHaveAdmin /\ FirstOnesAreAlone /\ SomeAdmin)'
  BY DEF LaterOnesHaveAdmin, FirstOnesAreAlone, SomeAdmin, HasAdmin

LEMMA SeedKeeps == ASSUME TypeOK, AdminInv, Seed PROVE AdminInv'
  <1>1. HasAdmin'
    BY AuthenticationAssumption DEF Seed, HasAdmin
  <1>2. \A c \in Clients : tx'[c] = IF c \in Registering
                                    THEN [tx[c] EXCEPT !.crossed = TRUE] ELSE tx[c]
    BY DEF Seed
  <1>3. \A c \in Clients : tx'[c].pc \in {"count", "assign"} =>
           /\ tx'[c].crossed
           /\ tx'[c].pc = tx[c].pc /\ tx'[c].email = tx[c].email /\ tx[c] # NoTx
    BY <1>2, CrossedRegistration
  <1>4. \A c \in Clients, e \in Emails : Inserting(c, e)' => Inserting(c, e)
    BY <1>3 DEF Inserting
  <1>5. \A c \in Clients, e \in Emails : Inserting(c, e) => users'[e] = users[e]
    BY DEF Seed
  <1>6. InsertsApart'
    BY <1>4, <1>5 DEF AdminInv, InsertsApart
  <1> QED
    BY <1>1, <1>3, <1>6, CommitKeeps DEF AdminInv

LEMMA CreateUserKeeps ==
    ASSUME TypeOK, AdminInv, NEW c \in Clients, CreateUser(c)
    PROVE  AdminInv'
  <1>1. tx[c] \in RegisterTx
    BY Kind DEF CreateUser
  <1>2. \A d \in Clients : tx'[d].pc = "assign" => tx'[d] = tx[d]
    BY <1>1, Fields DEF CreateUser, Set, TypeOK, RegisterTx
  <1>3. \A d \in Clients, e \in Emails :
           Inserting(d, e)' =>
              \/ Inserting(d, e)
              \/ /\ d = c /\ e = tx[c].email /\ users[e] = NoUser
                 /\ \A x \in Clients \ {c} : ~Inserting(x, e)
    BY <1>1, Fields DEF CreateUser, Set, TypeOK, RegisterTx, Inserting
  <1>4. users' = users
    BY DEF CreateUser
  <1>5. InsertsApart'
    <2>1. \A d \in Clients, e \in Emails : Inserting(d, e)' => users'[e] = NoUser
      BY <1>3, <1>4 DEF AdminInv, InsertsApart
    <2>2. ASSUME NEW x \in Clients, NEW y \in Clients, NEW e \in Emails,
                 Inserting(x, e)', Inserting(y, e)'
          PROVE  x = y
      BY <1>3, <2>2 DEF AdminInv, InsertsApart
    <2> QED
      BY <2>1, <2>2 DEF InsertsApart
  <1> QED
    BY <1>2, <1>4, <1>5
    DEF AdminInv, LaterOnesHaveAdmin, FirstOnesAreAlone, SomeAdmin, HasAdmin, IsFirst

LEMMA CountUsersKeeps ==
    ASSUME TypeOK, AdminInv, NEW c \in Clients, CountUsers(c)
    PROVE  AdminInv'
  <1> DEFINE role == RoleFor(tx[c], IsFirst)
             t == [tx[c] EXCEPT !.pc = "assign", !.role = role]
  <1>1. tx[c] \in RegisterTx
    BY Kind DEF CountUsers
  <1>2. users' = users
    BY DEF CountUsers
  <1>3. \A d \in Clients : d # c => tx'[d] = tx[d]
    BY DEF CountUsers, Set, TypeOK
  <1>4. tx'[c] = NoTx \/ (tx'[c] = t /\ MayHave(tx[c], IsFirst))
    BY DEF CountUsers, Set, TypeOK
  <1>5. /\ t.pc = "assign" /\ t.role = role /\ t.email = tx[c].email
        /\ t.code = tx[c].code /\ t.crossed = tx[c].crossed
    BY <1>1 DEF RegisterTx
  <1>6. role = Admin /\ ~tx[c].code /\ MayHave(tx[c], IsFirst) => IsFirst
    BY DEF RoleFor, MayHave
  <1>7. role # Admin => HasAdmin
    BY DEF RoleFor, IsFirst, AdminInv, SomeAdmin, HasAdmin
  <1> HIDE DEF role, t
  <1>8. InsertsApart'
    <2>1. \A d \in Clients, e \in Emails : Inserting(d, e)' => Inserting(d, e)
      BY <1>1, <1>3, <1>4, <1>5, Fields DEF Inserting, CountUsers
    <2> QED
      BY <1>2, <2>1 DEF AdminInv, InsertsApart
  <1>9. LaterOnesHaveAdmin'
    BY <1>2, <1>3, <1>4, <1>5, <1>7, Fields DEF AdminInv, LaterOnesHaveAdmin, HasAdmin
  <1>10. FirstOnesAreAlone'
    BY <1>2, <1>3, <1>4, <1>5, <1>6, Fields DEF AdminInv, FirstOnesAreAlone, IsFirst
  <1> QED
    BY <1>2, <1>8, <1>9, <1>10 DEF AdminInv, SomeAdmin

LEMMA CommitUserKeeps ==
    ASSUME TypeOK, AdminInv, NEW c \in Clients, CommitUser(c)
    PROVE  AdminInv'
  <1> DEFINE email == tx[c].email
  <1>1. /\ tx[c] \in RegisterTx /\ email \in Emails /\ tx[c].role \in Roles
        /\ tx[c].pc = "assign" /\ tx[c] # NoTx
    BY Kind, Fields DEF CommitUser
  <1>2. users[email] = NoUser
    BY <1>1 DEF AdminInv, InsertsApart, Inserting
  <1>3. users' = [users EXCEPT ![email] = tx[c].role]
    BY DEF CommitUser
  <1>4. HasAdmin'
    <2>1. CASE tx[c].role = Admin
      BY <1>1, <1>3, <2>1 DEF HasAdmin, TypeOK
    <2>2. CASE tx[c].role # Admin
      <3>1. PICK e \in Emails : users[e] = Admin
        BY <1>1, <2>2 DEF AdminInv, LaterOnesHaveAdmin, HasAdmin
      <3>2. e # email
        BY <1>2, <3>1, AuthenticationAssumption
      <3> QED
        BY <1>3, <3>1, <3>2 DEF HasAdmin, TypeOK
    <2> QED
      BY <2>1, <2>2
  <1>5. tx'[c] = NoTx
    BY DEF CommitUser, EndCrossing
  <1>6. \A d \in Clients : d # c =>
           tx'[d] = IF d \in Registering THEN [tx[d] EXCEPT !.crossed = TRUE] ELSE tx[d]
    BY DEF CommitUser, EndCrossing
  <1>7. \A d \in Clients : tx'[d].pc \in {"count", "assign"} =>
           /\ d # c /\ tx'[d].crossed
           /\ tx'[d].pc = tx[d].pc /\ tx'[d].email = tx[d].email /\ tx[d] # NoTx
    BY <1>5, <1>6, Fields, CrossedRegistration
  <1>8. \A d \in Clients, e \in Emails : Inserting(d, e)' => Inserting(d, e) /\ e # email
    BY <1>1, <1>7 DEF Inserting, AdminInv, InsertsApart
  <1>9. InsertsApart'
    BY <1>3, <1>8 DEF AdminInv, InsertsApart, TypeOK
  <1> QED
    BY <1>4, <1>7, <1>9, CommitKeeps DEF AdminInv

LEMMA NextAdminInv == ASSUME TypeOK, AdminInv, [Next]_vars PROVE AdminInv'
  BY SeedKeeps, CreateUserKeeps, CountUsersKeeps, CommitUserKeeps, QuietSteps, QuietKeeps
  DEF Next, Request

LEMMA InitAdminInv == Init => AdminInv
  BY Fields DEF Init, AdminInv, InsertsApart, LaterOnesHaveAdmin, FirstOnesAreAlone, SomeAdmin,
                Inserting

LEMMA AlwaysAdminInv == Spec => [](TypeOK /\ AdminInv)
  BY InitTyped, NextTyped, InitAdminInv, NextAdminInv, PTL DEF Spec

\* Where there are users there is an administrator.
THEOREM UsersHaveAnAdmin == Spec => []SomeAdmin
  <1>1. AdminInv => SomeAdmin
    BY DEF AdminInv
  <1> QED
    BY <1>1, AlwaysAdminInv, PTL

\* A second administrator without the code overlapped with the user before it.
THEOREM AdminsWithoutCodeOverlap == Spec => FirstAdminsOverlap
  <1>1. ASSUME TypeOK, AdminInv, [Next]_vars, NEW c \in Clients,
               CommitUser(c), tx[c].role = Admin, ~tx[c].code,
               NEW e \in Emails, users[e] # NoUser
        PROVE  tx[c].crossed
    BY <1>1 DEF CommitUser, AdminInv, FirstOnesAreAlone, IsFirst
  <1>2. TypeOK /\ AdminInv /\ [Next]_vars =>
           [\A c \in Clients :
              /\ CommitUser(c) /\ tx[c].role = Admin /\ ~tx[c].code
              /\ \E e \in Emails : users[e] # NoUser
              => tx[c].crossed]_vars
    BY <1>1
  <1> QED
    BY <1>2, AlwaysAdminInv, PTL DEF Spec, FirstAdminsOverlap

-----------------------------------------------------------------------------
(* The tokens.                                                             *)

Replaced(p) == p \in lost \/ \E q \in p+1..issued : parent[q] = p

\* A refresh trades in a token of a pair that was issued,
KnownTokens ==
    \A c \in Clients :
        tx[c].pc \in {"revoke", "tell", "told"} /\ tx[c].op = "refresh" =>
            \E p \in Pairs : p <= issued /\ tx[c].token = <<"refresh", p>>

\* has replaced it when it has told so,
ToldIsReplaced ==
    \A c \in Clients :
        tx[c].pc = "told" /\ tx[c].op = "refresh" => Replaced(tx[c].token[2])

\* and is crossed if it has been revoked since.
RevokedCrosses ==
    \A c \in Clients :
        /\ tx[c].pc \in {"revoke", "tell", "told"} /\ tx[c].op = "refresh"
        /\ tx[c].token \in revoked
        => tx[c].crossed

TokenInv == KnownTokens /\ ToldIsReplaced /\ RevokedCrosses /\ SpentTokensAreReplaced

\* A step that has nothing to do with tokens.
QuietOnTokens ==
    /\ UNCHANGED tokenVars
    /\ \A c \in Clients : tx'[c].pc \in {"revoke", "tell", "told"} => tx'[c] = tx[c]

LEMMA QuietTokenSteps ==
    ASSUME TypeOK
    PROVE  /\ Seed => QuietOnTokens
           /\ UNCHANGED vars => QuietOnTokens
           /\ \A c \in Clients :
                 \/ \E e \in Emails, role \in Roles, code \in BOOLEAN : Register(c, e, role, code)
                 \/ CreateUser(c) \/ CountUsers(c) \/ CommitUser(c) \/ Abort(c)
                 => QuietOnTokens
  <1>0. \A c \in Registering :
           tx[c] \in RegisterTx /\ [tx[c] EXCEPT !.crossed = TRUE].pc \notin {"revoke", "tell", "told"}
    BY Kind, CrossTyped, Fields DEF Registering
  <1>1. Seed => QuietOnTokens
    BY <1>0 DEF Seed, QuietOnTokens
  <1>2. UNCHANGED vars => QuietOnTokens
    BY DEF vars, tokenVars, QuietOnTokens
  <1>3. ASSUME NEW c \in Clients, NEW e \in Emails, NEW role \in Roles, NEW code \in BOOLEAN,
               Register(c, e, role, code)
        PROVE  QuietOnTokens
    BY <1>3 DEF Register, Set, QuietOnTokens, TypeOK
  <1>4. ASSUME NEW c \in Clients, CreateUser(c) PROVE QuietOnTokens
    <2>1. [tx[c] EXCEPT !.pc = "count"].pc = "count"
      BY <1>4, Kind DEF CreateUser, RegisterTx
    <2> QED
      BY <1>4, <2>1, Fields DEF CreateUser, Set, QuietOnTokens, TypeOK
  <1>5. ASSUME NEW c \in Clients, CountUsers(c) PROVE QuietOnTokens
    <2> DEFINE role == RoleFor(tx[c], IsFirst)
    <2>1. [tx[c] EXCEPT !.pc = "assign", !.role = role].pc = "assign"
      BY <1>5, Kind DEF CountUsers, RegisterTx
    <2> QED
      BY <1>5, <2>1, Fields DEF CountUsers, Set, QuietOnTokens, TypeOK
  <1>6. ASSUME NEW c \in Clients, CommitUser(c) PROVE QuietOnTokens
    BY <1>0, <1>6, Fields DEF CommitUser, EndCrossing, QuietOnTokens
  <1>7. ASSUME NEW c \in Clients, Abort(c) PROVE QuietOnTokens
    BY <1>7, Fields DEF Abort, Set, QuietOnTokens, TypeOK
  <1> QED
    BY <1>1, <1>2, <1>3, <1>4, <1>5, <1>6, <1>7

LEMMA QuietKeepsTokens == ASSUME TypeOK, TokenInv, QuietOnTokens PROVE TokenInv'
  BY DEF TokenInv, KnownTokens, ToldIsReplaced, RevokedCrosses, SpentTokensAreReplaced,
         Replaced, QuietOnTokens, tokenVars

\* A pair that is sent, or lost, replaces what it is for and unreplaces nothing.
LEMMA SendReplaces ==
    ASSUME TypeOK, NEW p \in 0..issued, Send(p) \/ (p \in Pairs /\ Lose(p))
    PROVE  /\ p # 0 => Replaced(p)'
           /\ \A x \in Pairs : Replaced(x) => Replaced(x)'
           /\ issued' \in Nat /\ issued <= issued'
  <1>1. CASE Send(p)
    <2>1. /\ issued \in Nat /\ issued + 1 \in Pairs /\ issued' = issued + 1 /\ lost' = lost
          /\ parent' = [parent EXCEPT ![issued + 1] = p]
      BY <1>1, AuthenticationAssumption DEF Send, TypeOK, Pairs
    <2>2. parent'[issued + 1] = p
      BY <2>1 DEF TypeOK
    <2>3. ASSUME NEW x \in Pairs, NEW q \in x+1..issued PROVE q \in x+1..issued' /\ parent'[q] = parent[q]
      BY <2>1 DEF TypeOK, Pairs
    <2>4. \A x \in Pairs : Replaced(x) => Replaced(x)'
      BY <2>1, <2>3 DEF Replaced
    <2>5. issued + 1 \in p+1..issued'
      BY <2>1
    <2> QED
      BY <2>1, <2>2, <2>4, <2>5 DEF Replaced
  <1>2. CASE p \in Pairs /\ Lose(p)
    BY <1>2 DEF Lose, Replaced, TypeOK
  <1> QED
    BY <1>1, <1>2

LEMMA LoginKeeps == ASSUME TypeOK, TokenInv, Login PROVE TokenInv'
  <1>1. /\ \A x \in Pairs : Replaced(x) => Replaced(x)'
        /\ issued' \in Nat /\ issued <= issued' /\ issued \in Nat
    BY SendReplaces DEF Login, TypeOK
  <1>2. tx' = tx /\ revoked' = revoked /\ loggedOut' = loggedOut
    BY DEF Login
  <1>3. KnownTokens'
    BY <1>1, <1>2 DEF TokenInv, KnownTokens, Pairs
  <1>4. ToldIsReplaced'
    BY <1>1, <1>2, Kind, Fields DEF TokenInv, ToldIsReplaced
  <1>5. SpentTokensAreReplaced'
    BY <1>1, <1>2 DEF TokenInv, SpentTokensAreReplaced, Replaced
  <1> QED
    BY <1>2, <1>3, <1>4, <1>5 DEF TokenInv, RevokedCrosses

LEMMA BeginKeeps ==
    ASSUME TypeOK, TokenInv, NEW c \in Clients,
           \/ \E p \in Pairs : Refresh(c, p)
           \/ \E token \in Token : Logout(c, token)
           \/ Revoke(c)
    PROVE  TokenInv'
  <1>1. UNCHANGED tokenVars
    BY DEF Refresh, Logout, Revoke
  <1>2. \A d \in Clients : d # c => tx'[d] = tx[d]
    BY DEF Refresh, Logout, Revoke, Set, TypeOK
  <1>3. /\ tx'[c].pc # "told"
        /\ tx'[c].op = "refresh" =>
              /\ \E p \in Pairs : p <= issued /\ tx'[c].token = <<"refresh", p>>
              /\ tx'[c].token \in revoked => tx'[c].crossed
    <2>1. ASSUME NEW p \in Pairs, Refresh(c, p)
          PROVE  /\ tx'[c].pc # "told"
                 /\ p <= issued /\ tx'[c].token = <<"refresh", p>> /\ tx'[c].token \notin revoked
      BY <2>1 DEF Refresh, Set, TypeOK
    <2>2. ASSUME NEW token \in Token, Logout(c, token)
          PROVE  tx'[c].pc # "told" /\ tx'[c].op # "refresh"
      BY <2>2 DEF Logout, Set, TypeOK
    <2>3. CASE Revoke(c)
      <3>1. tx[c] \in TokenTx /\ tx[c].pc = "revoke"
        BY <2>3, Kind DEF Revoke
      <3>2. /\ tx'[c].pc = "tell" /\ tx'[c].op = tx[c].op /\ tx'[c].token = tx[c].token
            /\ tx'[c].crossed = tx[c].crossed
        BY <2>3, <3>1 DEF Revoke, Set, TypeOK, TokenTx
      <3> QED
        BY <3>1, <3>2 DEF TokenInv, KnownTokens, RevokedCrosses
    <2> QED
      BY <2>1, <2>2, <2>3
  <1>4. KnownTokens' /\ ToldIsReplaced' /\ RevokedCrosses'
    BY <1>1, <1>2, <1>3 DEF TokenInv, KnownTokens, ToldIsReplaced, RevokedCrosses, Replaced, tokenVars
  <1> QED
    BY <1>1, <1>4 DEF TokenInv, SpentTokensAreReplaced, tokenVars

LEMMA TellKeeps ==
    ASSUME TypeOK, TokenInv, NEW c \in Clients, Tell(c)
    PROVE  TokenInv'
  <1>1. tx[c] \in TokenTx /\ tx[c].pc = "tell"
    BY Kind DEF Tell
  <1>2. /\ tx'[c].pc = "told" /\ tx'[c].op = tx[c].op /\ tx'[c].token = tx[c].token
        /\ tx'[c].crossed = tx[c].crossed
    BY <1>1 DEF Tell, Set, TypeOK, TokenTx
  <1>3. \A d \in Clients : d # c => tx'[d] = tx[d]
    BY DEF Tell, Set, TypeOK
  <1>4. revoked' = revoked /\ loggedOut' = loggedOut
    BY DEF Tell
  <1>5. /\ \A x \in Pairs : Replaced(x) => Replaced(x)'
        /\ issued' \in Nat /\ issued \in Nat /\ issued <= issued'
        /\ tx[c].op = "refresh" => \A p \in Pairs : p = tx[c].token[2] => Replaced(p)'
    <2>1. CASE tx[c].op = "refresh"
      <3>1. PICK p \in Pairs : p <= issued /\ tx[c].token = <<"refresh", p>>
        BY <1>1, <2>1 DEF TokenInv, KnownTokens
      <3>2. Send(p) \/ Lose(p)
        BY <2>1, <3>1 DEF Tell
      <3>3. p \in 0..issued /\ p # 0 /\ issued \in Nat
        BY <3>1 DEF Pairs, TypeOK
      <3> QED
        BY <3>1, <3>2, <3>3, SendReplaces
    <2>2. CASE tx[c].op # "refresh"
      BY <2>2 DEF Tell, TypeOK, Replaced
    <2> QED
      BY <2>1, <2>2
  <1>6. KnownTokens'
    BY <1>1, <1>2, <1>3, <1>5 DEF TokenInv, KnownTokens, Pairs
  <1>7. ToldIsReplaced'
    <2>1. ASSUME NEW d \in Clients, tx'[d].pc = "told", tx'[d].op = "refresh"
          PROVE  \E p \in Pairs : p = tx'[d].token[2] /\ Replaced(p)'
      <3>1. CASE d = c
        BY <1>1, <1>2, <1>5, <2>1, <3>1, Fields
      <3>2. CASE d # c
        <4>1. tx[d] \in TokenTx /\ Replaced(tx[d].token[2])
          BY <1>3, <2>1, <3>2, Kind DEF TokenInv, ToldIsReplaced
        <4> QED
          BY <1>3, <1>5, <3>2, <4>1, Fields
      <3> QED
        BY <3>1, <3>2
    <2> QED
      BY <2>1 DEF ToldIsReplaced, Replaced
  <1>8. RevokedCrosses'
    BY <1>1, <1>2, <1>3, <1>4 DEF TokenInv, RevokedCrosses
  <1>9. SpentTokensAreReplaced'
    BY <1>4, <1>5 DEF TokenInv, SpentTokensAreReplaced, Replaced
  <1> QED
    BY <1>6, <1>7, <1>8, <1>9 DEF TokenInv

LEMMA CommitTokenKeeps ==
    ASSUME TypeOK, TokenInv, NEW c \in Clients, CommitToken(c)
    PROVE  TokenInv'
  <1> DEFINE token == tx[c].token
  <1>1. tx[c] \in TokenTx /\ tx[c].pc = "told" /\ tx[c] # NoTx
    BY Kind, Fields DEF CommitToken
  <1>2. /\ revoked' = revoked \union {token}
        /\ issued' = issued /\ parent' = parent /\ lost' = lost
    BY DEF CommitToken
  <1>3. tx'[c] = NoTx
    BY DEF CommitToken, EndCrossing
  <1>4. \A d \in Clients : tx'[d].pc \in {"revoke", "tell", "told"} =>
           /\ tx'[d].pc = tx[d].pc /\ tx'[d].op = tx[d].op /\ tx'[d].token = tx[d].token
           /\ (tx[d].token = token => tx'[d].crossed)
           /\ (tx[d].token # token => tx'[d].crossed = tx[d].crossed)
    <2> SUFFICES ASSUME NEW d \in Clients, tx'[d].pc \in {"revoke", "tell", "told"}
                 PROVE  /\ tx'[d].pc = tx[d].pc /\ tx'[d].op = tx[d].op /\ tx'[d].token = tx[d].token
                        /\ (tx[d].token = token => tx'[d].crossed)
                        /\ (tx[d].token # token => tx'[d].crossed = tx[d].crossed)
      OBVIOUS
    <2>1. d # c
      BY <1>3, Fields
    <2>2. CASE d \in Holding(token)
      <3>1. tx[d] \in TokenTx /\ tx[d].token = token
        BY <2>2, Kind DEF Holding
      <3>2. tx'[d] = [tx[d] EXCEPT !.crossed = TRUE]
        BY <2>1, <2>2 DEF CommitToken, EndCrossing
      <3>3. /\ tx'[d].pc = tx[d].pc /\ tx'[d].crossed
            /\ tx'[d].op = tx[d].op /\ tx'[d].token = tx[d].token
        BY <3>1, <3>2, CrossTyped, Zenon
      <3> QED
        BY <3>1, <3>3
    <2>3. CASE d \notin Holding(token)
      <3>1. tx'[d] = tx[d]
        BY <2>1, <2>3 DEF CommitToken, EndCrossing
      <3>2. tx[d].token # token
        BY <2>3, <3>1, Kind, Fields DEF Holding
      <3> QED
        BY <3>1, <3>2
    <2> QED
      BY <2>2, <2>3
  <1>5. KnownTokens'
    BY <1>2, <1>4 DEF TokenInv, KnownTokens
  <1>6. ToldIsReplaced'
    BY <1>2, <1>4 DEF TokenInv, ToldIsReplaced, Replaced
  <1>7. RevokedCrosses'
    BY <1>2, <1>4 DEF TokenInv, RevokedCrosses
  <1>8. SpentTokensAreReplaced'
    <2>1. CASE tx[c].op = "refresh"
      <3>1. loggedOut' = loggedOut
        BY <2>1 DEF CommitToken
      <3>2. PICK p \in Pairs : token = <<"refresh", p>> /\ Replaced(p)
        BY <1>1, <2>1 DEF TokenInv, KnownTokens, ToldIsReplaced
      <3> QED
        BY <1>2, <3>1, <3>2 DEF TokenInv, SpentTokensAreReplaced, Replaced
    <2>2. CASE tx[c].op = "logout"
      BY <1>2, <2>2 DEF CommitToken, TokenInv, SpentTokensAreReplaced
    <2> QED
      BY <1>1, <2>1, <2>2, Fields
  <1> QED
    BY <1>5, <1>6, <1>7, <1>8 DEF TokenInv

LEMMA NextTokenInv == ASSUME TypeOK, TokenInv, [Next]_vars PROVE TokenInv'
  BY LoginKeeps, BeginKeeps, TellKeeps, CommitTokenKeeps, QuietTokenSteps, QuietKeepsTokens
  DEF Next, Request

LEMMA InitTokenInv == Init => TokenInv
  BY Fields DEF Init, TokenInv, KnownTokens, ToldIsReplaced, RevokedCrosses,
                SpentTokensAreReplaced

LEMMA AlwaysTokenInv == Spec => [](TypeOK /\ TokenInv)
  BY InitTyped, NextTyped, InitTokenInv, NextTokenInv, PTL DEF Spec

\* A refresh token is spent only for a pair that was sent.
THEOREM RefreshIsAtomic == Spec => []SpentTokensAreReplaced
  <1>1. TokenInv => SpentTokensAreReplaced
    BY DEF TokenInv
  <1> QED
    BY <1>1, AlwaysTokenInv, PTL

\* A refresh token is good for a second pair only in a race with its revocation.
THEOREM OneRefreshUnlessRaced == Spec => TwinsOverlap
  <1>1. ASSUME TypeOK, TokenInv, NEW c \in Clients,
               CommitToken(c), tx[c].op = "refresh", tx[c].token \in revoked
        PROVE  tx[c].crossed
    BY <1>1 DEF CommitToken, TokenInv, RevokedCrosses
  <1>2. TypeOK /\ TokenInv /\ [Next]_vars =>
           [\A c \in Clients :
              CommitToken(c) /\ tx[c].op = "refresh" /\ tx[c].token \in revoked
              => tx[c].crossed]_vars
    BY <1>1
  <1> QED
    BY <1>2, AlwaysTokenInv, PTL DEF Spec, TwinsOverlap
=============================================================================
