---------------------------- MODULE Authentication ----------------------------
(***************************************************************************)
(* Registration and tokens: application/auth.py with its repository, and   *)
(* the seeding of the demo accounts at the start of a process.             *)
(*                                                                         *)
(* A request is one READ COMMITTED transaction that get_session commits    *)
(* when its answer has been sent.  Tokens are signed and stored nowhere:   *)
(* a pair exists once it is sent, whatever becomes of the transaction, and *)
(* the database knows only those revoked.  Expired tokens are refused      *)
(* before anything else and are left out, as are wrong passwords.          *)
(***************************************************************************)
EXTENDS Integers

CONSTANTS Emails,
          Demo,         \* the demo accounts: a role for some of the emails
          Clients,      \* requests that can be in flight at a time
          Roles,        \* roles asked for
          Kinds,        \* kinds of tokens
          NoUser,
          MaxPairs      \* bound: pairs of tokens that the clients get

Admin == "administrator"

ASSUME AuthenticationAssumption ==
    /\ DOMAIN Demo \subseteq Emails
    /\ \A e \in DOMAIN Demo : Demo[e] \in Roles
    /\ \E e \in DOMAIN Demo : Demo[e] = Admin
    /\ Admin \in Roles /\ NoUser \notin Roles
    /\ {"refresh"} \subseteq Kinds /\ Kinds \subseteq {"access", "refresh"}
    /\ MaxPairs \in Nat

VARIABLES
    users,      \* users[e]: the role of the user, or NoUser
    issued,     \* pairs the clients have: 1..issued
    parent,     \* parent[p]: the pair whose refresh token was traded in, 0 for a login
    lost,       \* refresh tokens traded in for a pair that did not arrive
    revoked,    \* revoked_tokens
    loggedOut,  \* those a logout revoked
    tx          \* tx[c]: the client's transaction

vars == <<users, issued, parent, lost, revoked, loggedOut, tx>>
tokenVars == <<issued, parent, lost, revoked, loggedOut>>

Pairs == 1..MaxPairs
Token == Kinds \X Pairs

NoTx == [pc |-> "none"]
RegisterTx == [pc : {"insert", "count", "assign"}, email : Emails, role : Roles,
               code : BOOLEAN,          \* the right admin_code was given
               crossed : BOOLEAN]       \* another user was committed since
TokenTx == [pc : {"revoke", "tell", "told"}, op : {"refresh", "logout"}, token : Token,
            crossed : BOOLEAN]          \* the token was revoked since

Init ==
    /\ users = [e \in Emails |-> NoUser]
    /\ issued = 0
    /\ parent = [p \in Pairs |-> 0]
    /\ lost = {} /\ revoked = {} /\ loggedOut = {}
    /\ tx = [c \in Clients |-> NoTx]

Set(c, t) == tx' = [tx EXCEPT ![c] = t]

\* The transactions in flight once that of c has ended and crossed those of ds.
EndCrossing(c, ds) ==
    tx' = [x \in Clients |-> IF x = c THEN NoTx
                             ELSE IF x \in ds THEN [tx[x] EXCEPT !.crossed = TRUE]
                             ELSE tx[x]]

Registering == {c \in Clients : tx[c] # NoTx /\ tx[c].pc \in {"insert", "count", "assign"}}
Holding(token) ==
    {c \in Clients : tx[c] # NoTx /\ tx[c].pc \in {"revoke", "tell", "told"}
                     /\ tx[c].token = token}

-----------------------------------------------------------------------------
(* Users.                                                                  *)

\* register has inserted the email; the row is not committed.
Inserting(c, e) == tx[c] # NoTx /\ tx[c].pc \in {"count", "assign"} /\ tx[c].email = e

\* seed_demo_users, when a process starts.
Seed ==
    /\ \A c \in Clients, e \in DOMAIN Demo : ~Inserting(c, e)
    /\ users' = [e \in Emails |-> IF e \in DOMAIN Demo THEN Demo[e] ELSE users[e]]
    /\ tx' = [c \in Clients |-> IF c \in Registering THEN [tx[c] EXCEPT !.crossed = TRUE]
                                ELSE tx[c]]
    /\ UNCHANGED tokenVars

\* register, up to create_user: the email is not taken.
Register(c, e, role, code) ==
    /\ tx[c] = NoTx
    /\ users[e] = NoUser
    /\ Set(c, [pc |-> "insert", email |-> e, role |-> role, code |-> code,
               crossed |-> FALSE])
    /\ UNCHANGED <<users, tokenVars>>

\* create_user: the unique index waits for whoever inserts the same email; if
\* that one commits the statement fails.
CreateUser(c) ==
    LET t == tx[c] IN
    /\ t.pc = "insert"
    /\ \A d \in Clients \ {c} : ~Inserting(d, t.email)
    /\ IF users[t.email] = NoUser THEN Set(c, [t EXCEPT !.pc = "count"]) ELSE Set(c, NoTx)
    /\ UNCHANGED <<users, tokenVars>>

\* count_users() == 1: its own row and the committed ones.
IsFirst == \A e \in Emails : users[e] = NoUser

\* A plausible bug: the role asked for is given without the code.
MayHaveAny(t, first) == first \/ t.role \in Roles

MayHave(t, first) == first \/ t.role # Admin \/ t.code

\* A plausible bug: the role asked for goes before.
RoleAsked(t, first) == IF t.role # Admin THEN t.role ELSE Admin

RoleFor(t, first) == IF first THEN Admin ELSE t.role

\* The first user is the administrator; others become one with the code only.
CountUsers(c) ==
    LET t == tx[c]
        first == IsFirst
    IN  /\ t.pc = "count"
        /\ IF MayHave(t, first)
           THEN Set(c, [t EXCEPT !.pc = "assign", !.role = RoleFor(t, first)])
           ELSE Set(c, NoTx)
        /\ UNCHANGED <<users, tokenVars>>

\* assign_role_to_user, the answer and the commit.
CommitUser(c) ==
    LET t == tx[c] IN
    /\ t.pc = "assign"
    /\ users' = [users EXCEPT ![t.email] = t.role]
    /\ EndCrossing(c, Registering)
    /\ UNCHANGED tokenVars

-----------------------------------------------------------------------------
(* Tokens.                                                                 *)

\* A pair is sent and arrives.
Send(p) ==
    /\ issued < MaxPairs
    /\ issued' = issued + 1
    /\ parent' = [parent EXCEPT ![issued + 1] = p]
    /\ UNCHANGED lost

\* It does not arrive: nobody has it.
Lose(p) ==
    /\ lost' = lost \union {p}
    /\ UNCHANGED <<issued, parent>>

\* login: it only reads.
Login ==
    /\ \E e \in Emails : users[e] # NoUser
    /\ Send(0)
    /\ UNCHANGED <<users, revoked, loggedOut, tx>>

\* A plausible bug: the blacklist is looked at for access tokens only.
RefreshUnchecked(c, p) ==
    /\ tx[c] = NoTx
    /\ p <= issued
    /\ Set(c, [pc |-> "revoke", op |-> "refresh", token |-> <<"refresh", p>>,
               crossed |-> FALSE])
    /\ UNCHANGED <<users, tokenVars>>

\* refresh: a token that is not revoked.
Refresh(c, p) ==
    /\ tx[c] = NoTx
    /\ p <= issued
    /\ <<"refresh", p>> \notin revoked
    /\ Set(c, [pc |-> "revoke", op |-> "refresh", token |-> <<"refresh", p>>,
               crossed |-> FALSE])
    /\ UNCHANGED <<users, tokenVars>>

\* A plausible bug: a token without a jti is revoked, too.
LogoutAny(c, token) ==
    /\ tx[c] = NoTx
    /\ \E p \in 0..issued : Set(c, [pc |-> "revoke", op |-> "logout", token |-> <<token[1], p>>,
                                   crossed |-> FALSE])
    /\ UNCHANGED <<users, tokenVars>>

\* logout: of either token, revoked or not.
Logout(c, token) ==
    /\ tx[c] = NoTx
    /\ token[2] <= issued
    /\ Set(c, [pc |-> "revoke", op |-> "logout", token |-> token,
               crossed |-> FALSE])
    /\ UNCHANGED <<users, tokenVars>>

\* _revoke has inserted the token; the row is not committed.
Revoking(c, token) == tx[c] # NoTx /\ tx[c].pc \in {"tell", "told"} /\ tx[c].token = token

\* A plausible bug: _revoke commits at once.
RevokeAtOnce(c) ==
    LET t == tx[c] IN
    /\ t.pc = "revoke"
    /\ \A d \in Clients \ {c} : ~Revoking(d, t.token)
    /\ Set(c, [t EXCEPT !.pc = "tell"])
    /\ revoked' = revoked \union {t.token}
    /\ UNCHANGED <<users, issued, parent, lost, loggedOut>>

\* _revoke: ON CONFLICT DO NOTHING waits for whoever inserts the same token,
\* and does not say whether there was one.
Revoke(c) ==
    LET t == tx[c] IN
    /\ t.pc = "revoke"
    /\ \A d \in Clients \ {c} : ~Revoking(d, t.token)
    /\ Set(c, [t EXCEPT !.pc = "tell"])
    /\ UNCHANGED <<users, tokenVars>>

\* The answer is sent before get_session commits.
Tell(c) ==
    LET t == tx[c] IN
    /\ t.pc = "tell"
    /\ IF t.op = "refresh"
       THEN Send(t.token[2]) \/ Lose(t.token[2])
       ELSE UNCHANGED <<issued, parent, lost>>
    /\ Set(c, [t EXCEPT !.pc = "told"])
    /\ UNCHANGED <<users, revoked, loggedOut>>

CommitToken(c) ==
    LET t == tx[c] IN
    /\ t.pc = "told"
    /\ revoked' = revoked \union {t.token}
    /\ loggedOut' = IF t.op = "logout" THEN loggedOut \union {t.token} ELSE loggedOut
    /\ EndCrossing(c, Holding(t.token))
    /\ UNCHANGED <<users, issued, parent, lost>>

\* An exception, a lost connection or a shutdown.
Abort(c) ==
    /\ tx[c] # NoTx
    /\ Set(c, NoTx)
    /\ UNCHANGED <<users, tokenVars>>

-----------------------------------------------------------------------------

Request(c) ==
    \/ \E e \in Emails, role \in Roles, code \in BOOLEAN : Register(c, e, role, code)
    \/ CreateUser(c) \/ CountUsers(c) \/ CommitUser(c)
    \/ \E p \in Pairs : Refresh(c, p)
    \/ \E token \in Token : Logout(c, token)
    \/ Revoke(c) \/ Tell(c) \/ CommitToken(c) \/ Abort(c)

Next == Seed \/ Login \/ \E c \in Clients : Request(c)

Spec == Init /\ [][Next]_vars

-----------------------------------------------------------------------------
(* Properties.                                                             *)

\* The type invariant.
TypeOK ==
    /\ users \in [Emails -> Roles \union {NoUser}]
    /\ issued \in 0..MaxPairs
    /\ parent \in [Pairs -> 0..MaxPairs]
    /\ lost \subseteq Pairs
    /\ revoked \subseteq Token /\ loggedOut \subseteq Token
    /\ tx \in [Clients -> {NoTx} \union RegisterTx \union TokenTx]

\* Whoever registers first or at the same time, and whenever a process
\* starts: where there are users there is an administrator.
SomeAdmin ==
    (\E e \in Emails : users[e] # NoUser) => \E e \in Emails : users[e] = Admin

\* The first user is the administrator without the code.  So is another one
\* only if its registration overlapped with the one of a user before it: the
\* count did not see that one's row, which was not committed.
FirstAdminsOverlap ==
    [][\A c \in Clients :
         /\ CommitUser(c) /\ tx[c].role = Admin /\ ~tx[c].code
         /\ \E e \in Emails : users[e] # NoUser
         => tx[c].crossed]_vars

\* A refresh token is traded in for a second pair only by a refresh that looked
\* at the blacklist before the other one, or the logout, was committed.
TwinsOverlap ==
    [][\A c \in Clients :
         CommitToken(c) /\ tx[c].op = "refresh" /\ tx[c].token \in revoked
         => tx[c].crossed]_vars

\* A refresh token is revoked without a logout only when the client has the
\* pair that replaces it, unless the answer was lost: a failure between the
\* revocation and the answer leaves it valid.
SpentTokensAreReplaced ==
    \A p \in Pairs :
        <<"refresh", p>> \in revoked \ loggedOut =>
            p \in lost \/ \E q \in p+1..issued : parent[q] = p
=============================================================================
