------------------------------ MODULE Accounts ------------------------------
(***************************************************************************)
(* User rows, refresh sessions and the blocklist of access tokens, under   *)
(* the handlers of src/src/api/users.  A request reads, then commits; what *)
(* others commit in between it does not see (READ COMMITTED, no row locks  *)
(* held across the two).  A request that opens a session gives it its own  *)
(* name: r is also the session's jti, its refresh token and the access     *)
(* token issued with it.  The clock ticks in half seconds, because some of *)
(* the times the code compares are whole seconds and some are not.         *)
(***************************************************************************)
EXTENDS Naturals, FiniteSets

CONSTANTS
    Requests,     \* HTTP requests, each made once
    Emails, Passwords,
    AdminEmail, AdminPassword,  \* DEFAULT_ADMIN_EMAIL, DEFAULT_ADMIN_PASSWORD
    None,
    AccessLife, RefreshLife,    \* lifetimes of the tokens, in seconds
    MaxClock, MaxRestarts       \* bounds of the model

ASSUME DefaultsAssumption == AdminEmail \in Emails /\ AdminPassword \in Passwords
ASSUME LifeAssumption == /\ AccessLife \in Nat \ {0} /\ RefreshLife \in Nat
                         /\ MaxClock \in Nat /\ MaxRestarts \in Nat

Seeds == {<<"admin", n>> : n \in 0..MaxRestarts}
Ids == Requests \cup Seeds      \* an account is named after the insert that made it
Rows == [email : Emails, pw : Passwords, name : Requests \cup {"given"}]
Sessions == [user : Ids, parent : Requests \cup {None}, expires : Nat, revoked : BOOLEAN,
             access : Nat, pw : Passwords, clean : BOOLEAN]

ASSUME NamesAssumption == None \notin Ids \cup Rows /\ Requests \cap Seeds = {}

NoSession == [user |-> None]
Idle == [op |-> "new"]
Done == [op |-> "done"]

VARIABLES
    users,      \* the users table: id -> row or None
    sessions,   \* the refresh_sessions table: jti -> row or NoSession
    blocklist,  \* Redis: access token -> when its entry expires, 0 for none
    req,        \* each request
    clock,      \* half seconds
    restarts,
    ended       \* ghost: sessions ended by logout, revocation or a new password

vars == <<users, sessions, blocklist, req, clock, restarts, ended>>

-----------------------------------------------------------------------------
(* Time. *)

Second(t) == t \div 2       \* int(time.time())

\* jwt.encode stores whole seconds, jwt.decode compares with the exact time.
Expired(exp) == clock >= 2 * exp

AccessExp == Second(clock) + AccessLife

\* RefreshSession.expires_at keeps the milliseconds, the token's own exp does not.
ExpiresAt == clock + 2 * RefreshLife
Spent(s) == sessions[s].expires < clock \/ Expired(Second(sessions[s].expires))

\* Mutant: the remaining lifetime is rounded the other way.
RoundedUpTtl(exp) == IF exp > Second(clock + 1) THEN exp - Second(clock + 1) ELSE 1

Ttl(exp) == IF exp > Second(clock) THEN exp - Second(clock) ELSE 1

-----------------------------------------------------------------------------
(* Rows. *)

Opened == {s \in Requests : sessions[s] # NoSession}
Accounts == {u \in Ids : users[u] # None}
Taken(e) == \E u \in Accounts : users[u].email = e
Row(e, p, name) == [email |-> e, pw |-> p, name |-> name]

\* Mutant: rows may share an email.
Anything(u, e) == TRUE

\* Users.email is unique: an INSERT or UPDATE that breaks it raises.
UniqueEmail(u, e) == \A v \in Accounts \ {u} : users[v].email # e

\* Mutant: a retired token is still good.
UnspentOnly(s) == s \in Opened /\ ~Spent(s)

\* What refresh accepts.
Usable(s) == s \in Opened /\ ~sessions[s].revoked /\ ~Spent(s)

\* What the list of a user's sessions shows.
Listed(u) == {s \in Opened : /\ sessions[s].user = u
                             /\ ~sessions[s].revoked
                             /\ sessions[s].expires > clock}

\* An access token is valid until it expires or is put on the blocklist.
Authenticates(a) ==
    /\ a \in Opened
    /\ ~Expired(sessions[a].access)
    /\ blocklist[a] <= clock

Step(r, new) == req' = [req EXCEPT ![r] = new]

\* A commit that ends the sessions in S ends them under the requests that are
\* about to replace one of them, or to open one for an account in U.
Overtake(r, new, S, U) ==
    req' = [q \in Requests |->
              CASE q = r -> new
                [] q # r /\ req[q].op = "refresh" /\ req[q].session \in S
                     -> [req[q] EXCEPT !.clean = FALSE]
                [] q # r /\ req[q].op \in {"login", "refresh"} /\ req[q].user \in U
                     -> [req[q] EXCEPT !.clean = FALSE]
                [] OTHER -> req[q]]

Revoked(S) == [s \in Requests |-> IF s \in S \cap Opened
                                    THEN [sessions[s] EXCEPT !.revoked = TRUE]
                                    ELSE sessions[s]]

-----------------------------------------------------------------------------
(* Opening and renewing sessions. *)

Register(r, e, p) ==
    /\ req[r] = Idle
    /\ Step(r, IF Taken(e) THEN Done ELSE [op |-> "register", row |-> Row(e, p, "given")])
    /\ UNCHANGED <<users, sessions, blocklist, clock, restarts, ended>>

\* The check may have been overtaken: the constraint decides, as a 500.
CommitRegister(r) ==
    /\ req[r].op = "register"
    /\ users' = IF UniqueEmail(r, req[r].row.email)
                  THEN [users EXCEPT ![r] = req[r].row] ELSE users
    /\ Step(r, Done)
    /\ UNCHANGED <<sessions, blocklist, clock, restarts, ended>>

\* pw and clean are ghosts: the password that was verified when the session's
\* line began, and that no ending overtook a request of the line.
Opening(op, u, s, pw, clean) ==
    [op |-> op, user |-> u, session |-> s, pw |-> pw, clean |-> clean,
     access |-> AccessExp, expires |-> ExpiresAt]

Login(r, u, p) ==
    /\ req[r] = Idle
    /\ u \in Accounts
    /\ Step(r, IF users[u].pw = p THEN Opening("login", u, None, p, TRUE) ELSE Done)
    /\ UNCHANGED <<users, sessions, blocklist, clock, restarts, ended>>

Session(r) ==
    [user |-> req[r].user, parent |-> req[r].session, expires |-> req[r].expires,
     revoked |-> FALSE, access |-> req[r].access, pw |-> req[r].pw, clean |-> req[r].clean]

CommitLogin(r) ==
    /\ req[r].op = "login"
    /\ sessions' = [sessions EXCEPT ![r] = Session(r)]
    /\ Step(r, Done)
    /\ UNCHANGED <<users, blocklist, clock, restarts, ended>>

Refresh(r, s) ==
    /\ req[r] = Idle
    /\ s \in Opened
    /\ Step(r, IF Usable(s)
                 THEN Opening("refresh", sessions[s].user, s, sessions[s].pw, sessions[s].clean)
                 ELSE Done)
    /\ UNCHANGED <<users, sessions, blocklist, clock, restarts, ended>>

\* Mutant: the old token is not retired.
KeepOld(r) == [sessions EXCEPT ![r] = Session(r)]

\* The UPDATE of the old row names it by its key only: it does not ask
\* whether another request has retired it meanwhile.
Rotated(r) == [Revoked({req[r].session}) EXCEPT ![r] = Session(r)]

CommitRefresh(r) ==
    /\ req[r].op = "refresh"
    /\ sessions' = Rotated(r)
    /\ Overtake(r, Done, {req[r].session}, {})
    /\ UNCHANGED <<users, blocklist, clock, restarts, ended>>

-----------------------------------------------------------------------------
(* Ending sessions. *)

Logout(r, a, s) ==
    /\ req[r] = Idle
    /\ Authenticates(a)
    /\ Step(r, [op |-> "logout", access |-> a, session |-> s])
    /\ UNCHANGED <<users, sessions, blocklist, clock, restarts, ended>>

\* The access token is blocked first, which may take until it has expired.
\* Then a refresh token of the same user, if the body has a valid one, is
\* revoked in the database.
Block(r) ==
    LET a == req[r].access
        s == req[r].session
    IN
    /\ req[r].op = "logout"
    /\ blocklist' = [blocklist EXCEPT ![a] = clock + 2 * Ttl(sessions[a].access)]
    /\ Step(r, IF /\ s \in Opened
                  /\ ~Expired(Second(sessions[s].expires))
                  /\ sessions[s].user = sessions[a].user
                 THEN [op |-> "revoke", session |-> s] ELSE Done)
    /\ UNCHANGED <<users, sessions, clock, restarts, ended>>

RevokeSession(r, a, s) ==
    /\ req[r] = Idle
    /\ Authenticates(a)
    /\ Step(r, IF s \in Opened /\ sessions[s].user = sessions[a].user
                 THEN [op |-> "revoke", session |-> s] ELSE Done)
    /\ UNCHANGED <<users, sessions, blocklist, clock, restarts, ended>>

CommitRevoke(r) ==
    /\ req[r].op = "revoke"
    /\ sessions' = Revoked({req[r].session})
    /\ ended' = ended \cup {req[r].session}
    /\ Overtake(r, Done, {req[r].session}, {})
    /\ UNCHANGED <<users, blocklist, clock, restarts>>

OfUser(u) == {s \in Opened : sessions[s].user = u}

RevokeAll(r, a) ==
    /\ req[r] = Idle
    /\ Authenticates(a)
    /\ Step(r, [op |-> "revokeall", user |-> sessions[a].user])
    /\ UNCHANGED <<users, sessions, blocklist, clock, restarts, ended>>

CommitRevokeAll(r) ==
    /\ req[r].op = "revokeall"
    /\ sessions' = Revoked(OfUser(req[r].user))
    /\ ended' = ended \cup OfUser(req[r].user)
    /\ Overtake(r, Done, {}, {req[r].user})
    /\ UNCHANGED <<users, blocklist, clock, restarts>>

-----------------------------------------------------------------------------
(* The account itself.  The row is the copy get_current_user has loaded. *)

Change(op, u, new) == [op |-> op, user |-> u, copy |-> users[u], new |-> new]

ChangePassword(r, a, p, new) ==
    /\ req[r] = Idle
    /\ Authenticates(a)
    /\ LET u == sessions[a].user IN
       Step(r, IF users[u].pw = p THEN Change("pw", u, new) ELSE Done)
    /\ UNCHANGED <<users, sessions, blocklist, clock, restarts, ended>>

\* Mutant: the sessions are left alone.
NoneRevoked(u) == sessions

EndAll(u) == Revoked(OfUser(u))

CommitPassword(r) ==
    LET u == req[r].user IN
    /\ req[r].op = "pw"
    /\ users' = [users EXCEPT ![u].pw = req[r].new]
    /\ sessions' = EndAll(u)
    /\ ended' = ended \cup OfUser(u)
    /\ Overtake(r, Done, {}, {u})
    /\ UNCHANGED <<blocklist, clock, restarts>>

ChangeEmail(r, a, p, e) ==
    /\ req[r] = Idle
    /\ Authenticates(a)
    /\ LET u == sessions[a].user IN
       Step(r, IF users[u].pw = p /\ UniqueEmail(u, e) THEN Change("email", u, e) ELSE Done)
    /\ UNCHANGED <<users, sessions, blocklist, clock, restarts, ended>>

Rename(r, a) ==
    /\ req[r] = Idle
    /\ Authenticates(a)
    /\ Step(r, Change("name", sessions[a].user, r))
    /\ UNCHANGED <<users, sessions, blocklist, clock, restarts, ended>>

\* Mutant: the whole row is written, as it was read.
WholeRow(r) == [users EXCEPT ![req[r].user] = [req[r].copy EXCEPT ![req[r].op] = req[r].new]]

\* The ORM writes the one column, and only if it differs from the copy.
ChangedColumn(r) ==
    IF req[r].copy[req[r].op] = req[r].new THEN users
    ELSE [users EXCEPT ![req[r].user][req[r].op] = req[r].new]

CommitChange(r) ==
    /\ req[r].op \in {"email", "name"}
    /\ users' = IF req[r].op = "email" /\ ~UniqueEmail(req[r].user, req[r].new)
                  THEN users ELSE ChangedColumn(r)
    /\ Step(r, Done)
    /\ UNCHANGED <<sessions, blocklist, clock, restarts, ended>>

-----------------------------------------------------------------------------
(* The process and time. *)

Seeded(us, n) ==
    IF \E u \in Ids : us[u] # None /\ us[u].email = AdminEmail THEN us
    ELSE [us EXCEPT ![<<"admin", n>>] = Row(AdminEmail, AdminPassword, "given")]

\* Requests in flight are lost; the lifespan seeds the default account again
\* unless its email is in use.
Restart ==
    /\ restarts < MaxRestarts
    /\ restarts' = restarts + 1
    /\ users' = Seeded(users, restarts + 1)
    /\ req' = [r \in Requests |-> IF req[r] = Idle THEN Idle ELSE Done]
    /\ UNCHANGED <<sessions, blocklist, clock, ended>>

Tick ==
    /\ clock < MaxClock
    /\ clock' = clock + 1
    /\ UNCHANGED <<users, sessions, blocklist, req, restarts, ended>>

Init ==
    /\ users = Seeded([u \in Ids |-> None], 0)
    /\ sessions = [s \in Requests |-> NoSession]
    /\ blocklist = [s \in Requests |-> 0]
    /\ req = [r \in Requests |-> Idle]
    /\ clock = 0
    /\ restarts = 0
    /\ ended = {}

Next ==
    \/ Restart
    \/ Tick
    \/ \E r \in Requests :
         \/ \E e \in Emails, p \in Passwords : Register(r, e, p)
         \/ \E u \in Ids, p \in Passwords : Login(r, u, p)
         \/ \E s \in Requests : Refresh(r, s)
         \/ CommitRegister(r) \/ CommitLogin(r) \/ CommitRefresh(r) \/ Block(r)
         \/ CommitRevoke(r) \/ CommitRevokeAll(r)
         \/ CommitPassword(r) \/ CommitChange(r)
         \/ \E a \in Requests :
              \/ \E s \in Requests \cup {None} : Logout(r, a, s)
              \/ \E s \in Requests : RevokeSession(r, a, s)
              \/ RevokeAll(r, a)
              \/ \E p, new \in Passwords : ChangePassword(r, a, p, new)
              \/ \E p \in Passwords, e \in Emails : ChangeEmail(r, a, p, e)
              \/ Rename(r, a)

Spec == Init /\ [][Next]_vars

-----------------------------------------------------------------------------
(* Properties. *)

\* However registrations, changes of email and restarts overlap, an email
\* names one account.
EmailsUnique == \A u, v \in Accounts : users[u].email = users[v].email => u = v

\* Every variable has its type, and the accounts keep their key.
TypeOK ==
    /\ EmailsUnique
    /\ users \in [Ids -> Rows \cup {None}]
    /\ sessions \in [Requests -> Sessions \cup {NoSession}]
    /\ blocklist \in [Requests -> Nat]
    /\ DOMAIN req = Requests
    /\ clock \in 0..MaxClock /\ restarts \in 0..MaxRestarts
    /\ ended \subseteq Requests

\* Of the sessions refreshed from one token, at most one belongs to a line that
\* no ending has overtaken.
OneSuccessor ==
    \A s, t \in Opened :
        /\ s # t /\ sessions[s].parent = sessions[t].parent /\ sessions[s].parent # None
        /\ sessions[s].clean
        => ~sessions[t].clean

RetiredByUse == \A s \in Opened : sessions[s].parent # None => ~Usable(sessions[s].parent)

\* After a change of password no session goes on that was begun with an older
\* one, except through a login or refresh that was in flight during the change.
LiveKnowsPassword ==
    \A s \in Opened : /\ ~sessions[s].revoked
                      /\ sessions[s].clean
                      => sessions[s].pw = users[sessions[s].user].pw

\* A session that could be refreshed is on the list its user revokes from,
\* though the two handlers compare different expiry times.
UsableIsListed == \A s \in Opened : Usable(s) => s \in Listed(sessions[s].user)

\* Refreshes made one after the other keep the sessions of a login in one line:
\* a token is retired by its use, has one successor, and whatever is still usable
\* is in its user's sight.  Two refreshes that overlap are not in this property:
\* both read the row before either retires it, both succeed, and the login goes
\* on as two live sessions.  There the used token is revoked as README.md:140
\* says, but a stolen copy of it goes on working: it has a session of its own.
OneLine == OneSuccessor /\ RetiredByUse /\ UsableIsListed

\* A signed-out access token is blocked for as long as it would be valid, down
\* to the half second, and can then be forgotten.
BlockedWhileValid ==
    \A a \in Opened : blocklist[a] # 0 => blocklist[a] > clock \/ Expired(sessions[a].access)

\* A session that was ended has no successor, except through a refresh that
\* was in flight when it was ended; and it is never live again.
EndedIsFinal ==
    [][/\ \A s \in Opened' \ Opened : sessions'[s].clean => sessions'[s].parent \notin ended
       /\ \A s \in ended : ~Usable(s)']_vars

\* A change of email or name leaves what other requests have changed meanwhile.
ColumnsIndependent ==
    [][\A r \in Requests : req[r].op \in {"email", "name"} /\ req'[r] = Done =>
           \A u \in Accounts : users'[u].pw = users[u].pw
                               /\ (req[r].op = "email" => users'[u].name = users[u].name)
                               /\ (req[r].op = "name" => users'[u].email = users[u].email)]_vars
=============================================================================
