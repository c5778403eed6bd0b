---------------------------- MODULE AccountsProofs ----------------------------
(***************************************************************************)
(* Safety of accounts and sessions, for any number of requests, accounts   *)
(* and restarts, any lifetimes and any time: emails stay unique, sessions  *)
(* do not branch, an ended session has no successor, and a signed-out      *)
(* token is blocked for as long as it would be valid.                      *)
(***************************************************************************)
EXTENDS Accounts, TLAPS

USE DefaultsAssumption, NamesAssumption, LifeAssumption

\* What a request has in hand between its two steps.
Waiting == {Idle, Done}
Registering == [op : {"register"}, row : Rows]
Openings == [op : {"login", "refresh"}, user : Ids, session : Requests \cup {None},
             pw : Passwords, clean : BOOLEAN, access : Nat, expires : Nat]
LoggingOut == [op : {"logout"}, access : Requests, session : Requests \cup {None}]
Revoking == [op : {"revoke"}, session : Requests]
RevokingAll == [op : {"revokeall"}, user : Ids]
Changing(op, New) == [op : {op}, user : Ids, copy : Rows, new : New]
InHand == Waiting \cup Registering \cup Openings \cup LoggingOut \cup Revoking \cup RevokingAll
            \cup Changing("pw", Passwords) \cup Changing("email", Emails)
            \cup Changing("name", Requests)

Typed ==
    /\ users \in [Ids -> Rows \cup {None}]
    /\ sessions \in [Requests -> Sessions \cup {NoSession}]
    /\ blocklist \in [Requests -> Nat]
    /\ req \in [Requests -> InHand]
    /\ clock \in 0..MaxClock /\ restarts \in 0..MaxRestarts

\* Names are used once: by the request or the restart they belong to.
Fresh ==
    /\ \A r \in Requests : req[r].op # "done" => sessions[r] = NoSession /\ users[r] = None
    /\ \A n \in 0..MaxRestarts : n > restarts => users[<<"admin", n>>] = None

\* What a request in flight knows is still so.
Pending(q) ==
    /\ q.op \in {"login", "refresh", "revokeall", "pw", "email", "name"} => q.user \in Accounts
    /\ q.op = "login" => q.session = None
    /\ q.op = "refresh" => /\ q.session \in Opened
                           /\ q.user = sessions[q.session].user
                           /\ q.clean => ~sessions[q.session].revoked
    /\ q.op \in {"login", "refresh"} /\ q.clean => q.pw = users[q.user].pw
    /\ q.op = "logout" => q.access \in Opened
    /\ q.op = "revoke" => q.session \in Opened

\* A session has an owner; what it came from is retired; and while it lives, its
\* password is the owner's.
Sound(s) ==
    /\ sessions[s].user \in Accounts
    /\ sessions[s].parent # None => /\ sessions[s].parent \in Opened
                                    /\ sessions[sessions[s].parent].revoked
    /\ sessions[s].clean /\ ~sessions[s].revoked =>
         sessions[s].pw = users[sessions[s].user].pw

Blocked(a) == blocklist[a] # 0 => a \in Opened /\ blocklist[a] >= 2 * sessions[a].access

IInv ==
    /\ Typed /\ Fresh /\ EmailsUnique /\ OneSuccessor
    /\ \A r \in Requests : Pending(req[r])
    /\ \A s \in Opened : Sound(s)
    /\ \A s \in ended : s \in Opened /\ sessions[s].revoked
    /\ \A a \in Requests : Blocked(a)

-----------------------------------------------------------------------------
LEMMA InHandOf ==
    ASSUME NEW q \in InHand
    PROVE  /\ q.op = "register" => q \in Registering
           /\ q.op \in {"login", "refresh"} => q \in Openings
           /\ q.op = "logout" => q \in LoggingOut
           /\ q.op = "revoke" => q \in Revoking
           /\ q.op = "revokeall" => q \in RevokingAll
           /\ q.op = "pw" => q \in Changing("pw", Passwords)
           /\ q.op = "email" => q \in Changing("email", Emails)
           /\ q.op = "name" => q \in Changing("name", Requests)
<1> QED
  BY DEF InHand, Waiting, Idle, Done, Registering, Openings, LoggingOut, Revoking, RevokingAll,
         Changing

LEMMA InitInv == Init => IInv
<1> SUFFICES ASSUME Init PROVE IInv
  OBVIOUS
<1>1. 0 \in 0..MaxRestarts /\ <<"admin", 0>> \in Ids
  BY DEF Ids, Seeds
<1>2. users = [[u \in Ids |-> None] EXCEPT ![<<"admin", 0>>] = Row(AdminEmail, AdminPassword, "given")]
  BY DEF Init, Seeded
<1>3. Row(AdminEmail, AdminPassword, "given") \in Rows
  BY DEF Row, Rows
<1>4. Typed
  BY <1>1, <1>2, <1>3 DEF Init, Typed, InHand, Waiting
<1>5. Fresh
  <2>1. <<"admin", 0>> \in Seeds /\ \A n \in 0..MaxRestarts : <<"admin", n>> \in Ids
    BY DEF Ids, Seeds
  <2>2. \A r \in Requests : r \in Ids /\ r # <<"admin", 0>> /\ sessions[r] = NoSession
    BY <2>1 DEF Ids, Init
  <2>3. \A n \in 0..MaxRestarts : n > 0 => <<"admin", n>> # <<"admin", 0>>
    OBVIOUS
  <2> QED
    BY <1>2, <2>1, <2>2, <2>3 DEF Fresh, Init
<1>6. EmailsUnique
  BY <1>1, <1>2 DEF EmailsUnique, Accounts
<1>7. Opened = {}
  BY DEF Init, Opened
<1>8. OneSuccessor /\ \A s \in Opened : Sound(s)
  BY <1>7 DEF OneSuccessor
<1>9. \A r \in Requests : Pending(req[r]) /\ Blocked(r)
  BY DEF Init, Pending, Blocked, Idle
<1>10. ended = {}
  BY DEF Init
<1> QED
  BY <1>4, <1>5, <1>6, <1>8, <1>9, <1>10 DEF IInv

-----------------------------------------------------------------------------
\* A request's first step takes a new name in use, and nothing else.
LEMMA BeginInv ==
    ASSUME IInv, NEW r \in Requests, NEW q \in InHand, req[r] = Idle, Step(r, q), Pending(q),
           UNCHANGED <<users, sessions, blocklist, clock, restarts, ended>>
    PROVE  IInv'
<1>1. \A x \in Requests : req'[x] = IF x = r THEN q ELSE req[x]
  BY DEF IInv, Typed, Step
<1>2. Typed'
  BY DEF IInv, Typed, Step
<1>3. Fresh'
  BY <1>1 DEF IInv, Fresh, Idle
<1>4. Accounts' = Accounts /\ Opened' = Opened
  BY DEF Accounts, Opened
<1>5. EmailsUnique' /\ OneSuccessor'
  BY <1>4 DEF IInv, EmailsUnique, OneSuccessor
<1>6. \A x \in Requests : Pending(req[x])'
  BY <1>1, <1>4 DEF IInv, Pending
<1>7. \A s \in Opened' : Sound(s)'
  BY <1>4 DEF IInv, Sound
<1>8. \A a \in Requests : Blocked(a)'
  BY <1>4 DEF IInv, Blocked
<1> QED
  BY <1>2, <1>3, <1>4, <1>5, <1>6, <1>7, <1>8 DEF IInv

\* Every first step of a request is such a step.
LEMMA FirstStepInv ==
    ASSUME IInv, NEW r \in Requests,
           \/ \E e \in Emails, p \in Passwords : Register(r, e, p)
           \/ \E u \in Ids, p \in Passwords : Login(r, u, p)
           \/ \E s \in Requests : Refresh(r, s)
           \/ \E a \in Requests :
                \/ \E s \in Requests \cup {None} : Logout(r, a, s)
                \/ \E s \in Requests : RevokeSession(r, a, s)
                \/ RevokeAll(r, a)
                \/ \E p, new \in Passwords : ChangePassword(r, a, p, new)
                \/ \E p \in Passwords, e \in Emails : ChangeEmail(r, a, p, e)
                \/ Rename(r, a)
    PROVE  IInv'
<1>1. Done \in InHand /\ Pending(Done)
  BY DEF InHand, Waiting, Done, Pending
<1>2. \A u \in Accounts : u \in Ids /\ users[u] \in Rows
  BY DEF IInv, Typed, Accounts
<1>3. \A s \in Opened : s \in Requests /\ sessions[s] \in Sessions
  BY DEF IInv, Typed, Opened
<1>4. AccessExp \in Nat /\ ExpiresAt \in Nat
  BY DEF IInv, Typed, AccessExp, ExpiresAt, Second
<1>5. ASSUME NEW e \in Emails, NEW p \in Passwords, Register(r, e, p) PROVE IInv'
  <2> DEFINE q == [op |-> "register", row |-> Row(e, p, "given")]
  <2>1. q \in InHand /\ Pending(q)
    BY DEF InHand, Registering, Row, Rows, Pending
  <2>2. Step(r, q) \/ Step(r, Done)
    BY <1>5 DEF Register
  <2> HIDE DEF q
  <2> QED
    BY <1>1, <1>5, <2>1, <2>2, BeginInv DEF Register
<1>6. ASSUME NEW u \in Ids, NEW p \in Passwords, Login(r, u, p) PROVE IInv'
  <2> DEFINE q == Opening("login", u, None, p, TRUE)
  <2>1. users[u].pw = p => q \in InHand /\ Pending(q)
    BY <1>4, <1>6 DEF Login, InHand, Openings, Opening, Pending
  <2>2. (users[u].pw = p /\ Step(r, q)) \/ Step(r, Done)
    BY <1>6 DEF Login
  <2> HIDE DEF q
  <2> QED
    BY <1>1, <1>6, <2>1, <2>2, BeginInv DEF Login
<1>7. ASSUME NEW s \in Requests, Refresh(r, s) PROVE IInv'
  <2> DEFINE q == Opening("refresh", sessions[s].user, s, sessions[s].pw, sessions[s].clean)
  <2>1. ASSUME Usable(s) PROVE q \in InHand /\ Pending(q)
    <3>1. s \in Opened /\ ~sessions[s].revoked /\ Sound(s) /\ sessions[s] \in Sessions
      BY <1>3, <2>1 DEF Usable, IInv
    <3>2. q \in InHand
      BY <1>4, <3>1 DEF Sessions, InHand, Openings, Opening
    <3>3. Pending(q)
      BY <3>1 DEF Sessions, Opening, Pending, Sound
    <3> QED
      BY <3>2, <3>3
  <2>2. (Usable(s) /\ Step(r, q)) \/ Step(r, Done)
    BY <1>7 DEF Refresh
  <2> HIDE DEF q
  <2> QED
    BY <1>1, <1>7, <2>1, <2>2, BeginInv DEF Refresh
<1>8. ASSUME NEW a \in Requests, NEW s \in Requests \cup {None}, Logout(r, a, s) PROVE IInv'
  <2> DEFINE q == [op |-> "logout", access |-> a, session |-> s]
  <2>1. q \in InHand /\ Pending(q)
    BY <1>8 DEF Logout, Authenticates, InHand, LoggingOut, Pending
  <2>2. Step(r, q)
    BY <1>8 DEF Logout
  <2> HIDE DEF q
  <2> QED
    BY <1>8, <2>1, <2>2, BeginInv DEF Logout
<1>9. ASSUME NEW a \in Requests, NEW s \in Requests, RevokeSession(r, a, s) PROVE IInv'
  <2> DEFINE q == [op |-> "revoke", session |-> s]
  <2>1. s \in Opened => q \in InHand /\ Pending(q)
    BY DEF InHand, Revoking, Pending
  <2>2. (s \in Opened /\ Step(r, q)) \/ Step(r, Done)
    BY <1>9 DEF RevokeSession
  <2> HIDE DEF q
  <2> QED
    BY <1>1, <1>9, <2>1, <2>2, BeginInv DEF RevokeSession
<1>10. ASSUME NEW a \in Requests, RevokeAll(r, a) PROVE IInv'
  <2> DEFINE q == [op |-> "revokeall", user |-> sessions[a].user]
  <2>1. a \in Opened /\ sessions[a].user \in Accounts
    BY <1>10 DEF RevokeAll, Authenticates, IInv, Sound
  <2>2. q \in InHand /\ Pending(q)
    BY <1>2, <2>1 DEF InHand, RevokingAll, Pending
  <2>3. Step(r, q)
    BY <1>10 DEF RevokeAll
  <2> HIDE DEF q
  <2> QED
    BY <1>10, <2>2, <2>3, BeginInv DEF RevokeAll
<1>11. ASSUME NEW a \in Requests, NEW op, NEW New, NEW new \in New,
              <<op, New>> \in {<<"pw", Passwords>>, <<"email", Emails>>, <<"name", Requests>>},
              req[r] = Idle, Authenticates(a),
              Step(r, Change(op, sessions[a].user, new)) \/ Step(r, Done),
              UNCHANGED <<users, sessions, blocklist, clock, restarts, ended>>
       PROVE  IInv'
  <2> DEFINE q == Change(op, sessions[a].user, new)
  <2>1. a \in Opened /\ sessions[a].user \in Accounts
    BY <1>11 DEF Authenticates, IInv, Sound
  <2>2. q \in Changing(op, New) /\ Pending(q)
    BY <1>2, <1>11, <2>1 DEF Change, Changing, Pending
  <2>3. q \in InHand
    BY <1>11, <2>2 DEF InHand
  <2>4. Step(r, q) \/ Step(r, Done)
    BY <1>11
  <2> HIDE DEF q
  <2> QED
    BY <1>1, <1>11, <2>2, <2>3, <2>4, BeginInv
<1>12. ASSUME NEW a \in Requests, NEW p \in Passwords, NEW new \in Passwords,
              ChangePassword(r, a, p, new)
       PROVE  IInv'
  BY <1>11, <1>12 DEF ChangePassword
<1>13. ASSUME NEW a \in Requests, NEW p \in Passwords, NEW e \in Emails, ChangeEmail(r, a, p, e)
       PROVE  IInv'
  BY <1>11, <1>13 DEF ChangeEmail
<1>14. ASSUME NEW a \in Requests, Rename(r, a) PROVE IInv'
  BY <1>11, <1>14 DEF Rename
<1> QED
  BY <1>5, <1>6, <1>7, <1>8, <1>9, <1>10, <1>12, <1>13, <1>14

-----------------------------------------------------------------------------
\* A row marked revoked is a row, in all else the same.
LEMMA RevokedRow ==
    ASSUME NEW w \in Sessions, NEW x, x = [w EXCEPT !.revoked = TRUE]
    PROVE  /\ x \in Sessions /\ x.user = w.user /\ x.parent = w.parent /\ x.pw = w.pw
           /\ x.clean = w.clean /\ x.access = w.access /\ x.expires = w.expires /\ x.revoked
<1> QED
  BY DEF Sessions

\* What an ending does to the other requests: some lose their claim, none gains one.
LEMMA Overtaken ==
    ASSUME IInv, NEW r \in Requests, NEW S \in SUBSET Requests, NEW U, Overtake(r, Done, S, U)
    PROVE  /\ req' \in [Requests -> InHand]
           /\ req'[r] = Done
           /\ \A q \in Requests \ {r} :
                \/ req'[q] = req[q]
                \/ req[q].op \in {"login", "refresh"} /\ req'[q] = [req[q] EXCEPT !.clean = FALSE]
           /\ \A q \in Requests \ {r} :
                \/ req[q].op = "refresh" /\ req[q].session \in S
                \/ req[q].op \in {"login", "refresh"} /\ req[q].user \in U
                => req'[q] = [req[q] EXCEPT !.clean = FALSE]
<1>1. \A q \in Requests : req[q] \in InHand
  BY DEF IInv, Typed
<1>2. \A q \in Requests : req[q].op \in {"login", "refresh"} =>
                            [req[q] EXCEPT !.clean = FALSE] \in InHand
  <2>1. ASSUME NEW q \in Requests, req[q].op \in {"login", "refresh"}
        PROVE  [req[q] EXCEPT !.clean = FALSE] \in Openings
    <3>1. req[q] \in Openings
      BY <1>1, <2>1, InHandOf
    <3> QED
      BY <3>1 DEF Openings
  <2> QED
    BY <2>1 DEF InHand
<1>3. Done \in InHand
  BY DEF InHand, Waiting
<1>4. DOMAIN req' = Requests /\ req'[r] = Done
  BY DEF Overtake
<1>5. \A q \in Requests \ {r} :
        req'[q] = IF \/ req[q].op = "refresh" /\ req[q].session \in S
                     \/ req[q].op \in {"login", "refresh"} /\ req[q].user \in U
                    THEN [req[q] EXCEPT !.clean = FALSE] ELSE req[q]
  BY DEF Overtake
<1>6. req' = [q \in Requests |-> req'[q]]
  BY DEF Overtake
<1>7. \A q \in Requests : req'[q] \in InHand
  BY <1>1, <1>2, <1>3, <1>4, <1>5
<1>8. req' \in [Requests -> InHand]
  BY <1>6, <1>7
<1> QED
  BY <1>4, <1>5, <1>8

LEMMA RevokedRows ==
    ASSUME IInv, NEW S \in SUBSET Opened
    PROVE  /\ Revoked(S) \in [Requests -> Sessions \cup {NoSession}]
           /\ \A s \in Opened : /\ Revoked(S)[s] \in Sessions
                                /\ Revoked(S)[s] # NoSession
                                /\ Revoked(S)[s].user = sessions[s].user
                                /\ Revoked(S)[s].parent = sessions[s].parent
                                /\ Revoked(S)[s].pw = sessions[s].pw
                                /\ Revoked(S)[s].clean = sessions[s].clean
                                /\ Revoked(S)[s].access = sessions[s].access
                                /\ Revoked(S)[s].revoked <=> (s \in S \/ sessions[s].revoked)
           /\ \A s \in Requests \ Opened : Revoked(S)[s] = NoSession
<1>1. \A s \in Opened : s \in Requests /\ sessions[s] \in Sessions
  BY DEF IInv, Typed, Opened
<1>2. \A s \in Requests : Revoked(S)[s] = IF s \in S THEN [sessions[s] EXCEPT !.revoked = TRUE]
                                          ELSE sessions[s]
  BY DEF Revoked
<1>3. NoSession \notin Sessions
  BY DEF NoSession, Sessions
<1>4. ASSUME NEW s \in S
      PROVE  /\ Revoked(S)[s] \in Sessions /\ Revoked(S)[s].user = sessions[s].user
             /\ Revoked(S)[s].parent = sessions[s].parent /\ Revoked(S)[s].pw = sessions[s].pw
             /\ Revoked(S)[s].clean = sessions[s].clean /\ Revoked(S)[s].access = sessions[s].access
             /\ Revoked(S)[s].revoked
  <2>1. s \in Requests /\ sessions[s] \in Sessions
    BY <1>1
  <2>2. Revoked(S)[s] = [sessions[s] EXCEPT !.revoked = TRUE]
    BY <1>2, <2>1
  <2> QED
    BY <2>1, <2>2, RevokedRow
<1>5. \A s \in Requests \ S : Revoked(S)[s] = sessions[s]
  BY <1>2
<1>6. \A s \in Requests \ Opened : Revoked(S)[s] = NoSession
  BY <1>5 DEF Opened
<1>7. \A s \in Requests : Revoked(S)[s] \in Sessions \cup {NoSession}
  BY <1>1, <1>4, <1>5, <1>6
<1>8. Revoked(S) \in [Requests -> Sessions \cup {NoSession}]
  BY <1>7 DEF Revoked
<1> QED
  BY <1>1, <1>3, <1>4, <1>5, <1>6, <1>8

\* The sessions in S end, and with them the claims on them; a password changes
\* only if all sessions of its account end.
LEMMA EndInv ==
    ASSUME IInv, NEW r \in Requests, NEW S \in SUBSET Opened,
           NEW X \in SUBSET Requests, NEW U \in SUBSET Ids,
           \A s \in S : s \in X \/ sessions[s].user \in U,
           Overtake(r, Done, X, U), sessions' = Revoked(S), ended' = ended \cup S,
           users' \in [Ids -> Rows \cup {None}],
           \A u \in Ids : users'[u] # None <=> users[u] # None,
           \A u \in Accounts : users'[u].email = users[u].email,
           \A u \in Accounts : users'[u].pw = users[u].pw \/ (u \in U /\ OfUser(u) \subseteq S),
           UNCHANGED <<blocklist, clock, restarts>>
    PROVE  IInv'
<1>1. /\ req' \in [Requests -> InHand]
      /\ req'[r] = Done
      /\ \A q \in Requests \ {r} :
           \/ req'[q] = req[q]
           \/ req[q].op \in {"login", "refresh"} /\ req'[q] = [req[q] EXCEPT !.clean = FALSE]
      /\ \A q \in Requests \ {r} :
           \/ req[q].op = "refresh" /\ req[q].session \in X
           \/ req[q].op \in {"login", "refresh"} /\ req[q].user \in U
           => req'[q] = [req[q] EXCEPT !.clean = FALSE]
  BY Overtaken
<1>2. /\ S \subseteq Requests
      /\ \A s \in Opened : sessions[s] \in Sessions
      /\ \A q \in Requests : req[q] \in InHand
  BY DEF IInv, Typed, Opened
<1>3. sessions' \in [Requests -> Sessions \cup {NoSession}] /\ Opened' = Opened
  BY RevokedRows DEF Opened
<1>4. Accounts' = Accounts
  BY DEF Accounts
<1>5. \A s \in Opened : /\ sessions'[s].user = sessions[s].user
                        /\ sessions'[s].parent = sessions[s].parent
                        /\ sessions'[s].pw = sessions[s].pw
                        /\ sessions'[s].clean = sessions[s].clean
                        /\ sessions'[s].access = sessions[s].access
                        /\ sessions'[s].revoked <=> (s \in S \/ sessions[s].revoked)
  BY RevokedRows
<1>6. Typed'
  BY <1>1, <1>3 DEF IInv, Typed
<1>7. \A q \in Requests : req'[q].op = req[q].op \/ req'[q].op = "done"
  <2>1. \A q \in Requests : req[q].op \in {"login", "refresh"} =>
                              [req[q] EXCEPT !.clean = FALSE].op = req[q].op
    BY <1>2, InHandOf DEF Openings
  <2>2. \A q \in Requests \ {r} : req'[q].op = req[q].op
    BY <1>1, <2>1
  <2>3. req'[r].op = "done"
    BY <1>1 DEF Done
  <2> QED
    BY <2>2, <2>3
<1>8. Fresh'
  <2>1. ASSUME NEW q \in Requests, req'[q].op # "done"
        PROVE  sessions'[q] = NoSession /\ users'[q] = None
    <3>1. sessions[q] = NoSession /\ users[q] = None
      BY <1>7, <2>1 DEF IInv, Fresh
    <3>2. sessions'[q] = NoSession
      BY <3>1, RevokedRows DEF Opened
    <3> QED
      BY <3>1, <3>2 DEF Ids
  <2>2. ASSUME NEW n \in 0..MaxRestarts, n > restarts PROVE users'[<<"admin", n>>] = None
    BY <2>2 DEF IInv, Fresh, Ids, Seeds
  <2> QED
    BY <2>1, <2>2 DEF Fresh
<1>9. EmailsUnique' /\ OneSuccessor'
  BY <1>3, <1>4, <1>5 DEF IInv, EmailsUnique, OneSuccessor
<1>10. ASSUME NEW q \in Requests PROVE Pending(req[q])'
  <2>1. CASE q = r
    BY <1>1, <2>1 DEF Pending, Done
  <2>2. CASE q # r /\ req[q].op \notin {"login", "refresh"}
    <3>1. req'[q] = req[q] /\ Pending(req[q])
      BY <1>1, <2>2 DEF IInv
    <3> QED
      BY <1>3, <1>4, <2>2, <3>1 DEF Pending
  <2>3. CASE q # r /\ req[q].op \in {"login", "refresh"} /\ req'[q] = [req[q] EXCEPT !.clean = FALSE]
    <3>1. req[q] \in Openings /\ Pending(req[q])
      BY <1>2, <2>3, InHandOf DEF IInv
    <3>2. /\ req'[q].op = req[q].op /\ req'[q].user = req[q].user
          /\ req'[q].session = req[q].session /\ ~req'[q].clean
      BY <2>3, <3>1 DEF Openings
    <3> QED
      BY <1>3, <1>4, <1>5, <2>3, <3>1, <3>2 DEF Pending
  <2>4. CASE /\ q # r /\ req[q].op \in {"login", "refresh"}
             /\ req'[q] # [req[q] EXCEPT !.clean = FALSE]
    <3>1. req'[q] = req[q] /\ Pending(req[q])
      BY <1>1, <2>4 DEF IInv
    <3>2. req[q].user \notin U /\ (req[q].op = "refresh" => req[q].session \notin S)
      BY <1>1, <2>4, <3>1 DEF Pending
    <3>3. req[q].user \in Accounts /\ req[q].user \in Ids
      BY <2>4, <3>1 DEF Pending, Accounts
    <3> QED
      BY <1>3, <1>4, <1>5, <2>4, <3>1, <3>2, <3>3 DEF Pending
  <2> QED
    BY <2>1, <2>2, <2>3, <2>4
<1>11. ASSUME NEW s \in Opened' PROVE Sound(s)'
  <2>1. Sound(s) /\ s \in Opened
    BY <1>3, <1>11 DEF IInv
  <2>2. sessions[s].user \in Ids /\ sessions[s].user \in Accounts /\ s \in Requests
    BY <2>1 DEF Sound, Accounts, Opened
  <2>3. ASSUME sessions'[s].clean, ~sessions'[s].revoked
        PROVE  sessions'[s].pw = users'[sessions'[s].user].pw
    BY <1>5, <2>1, <2>2, <2>3 DEF Sound, OfUser
  <2> QED
    BY <1>3, <1>4, <1>5, <2>1, <2>2, <2>3 DEF Sound
<1>12. \A s \in ended' : s \in Opened' /\ sessions'[s].revoked
  BY <1>3, <1>5 DEF IInv
<1>13. \A a \in Requests : Blocked(a)'
  BY <1>3, <1>5 DEF IInv, Blocked
<1> QED
  BY <1>6, <1>8, <1>9, <1>10, <1>11, <1>12, <1>13 DEF IInv

\* A session is opened, or replaces another.
LEMMA OpenInv ==
    ASSUME IInv, NEW r \in Requests, req[r].op \in {"login", "refresh"},
           NEW P \in SUBSET Requests,
           req[r].op = "refresh" => P = {req[r].session},
           req[r].op = "login" => P = {},
           Overtake(r, Done, P, {}),
           sessions' = [Revoked(P) EXCEPT ![r] = Session(r)],
           UNCHANGED <<users, blocklist, clock, restarts, ended>>
    PROVE  IInv'
<1>1. /\ req' \in [Requests -> InHand]
      /\ req'[r] = Done
      /\ \A q \in Requests \ {r} :
           \/ req'[q] = req[q]
           \/ req[q].op \in {"login", "refresh"} /\ req'[q] = [req[q] EXCEPT !.clean = FALSE]
      /\ \A q \in Requests \ {r} :
           req[q].op = "refresh" /\ req[q].session \in P
           => req'[q] = [req[q] EXCEPT !.clean = FALSE]
  <2>1. PICK U : U = {}
    OBVIOUS
  <2>2. Overtake(r, Done, P, U)
    BY <2>1
  <2>3. /\ req' \in [Requests -> InHand]
        /\ req'[r] = Done
        /\ \A q \in Requests \ {r} :
             \/ req'[q] = req[q]
             \/ req[q].op \in {"login", "refresh"} /\ req'[q] = [req[q] EXCEPT !.clean = FALSE]
        /\ \A q \in Requests \ {r} :
             \/ req[q].op = "refresh" /\ req[q].session \in P
             \/ req[q].op \in {"login", "refresh"} /\ req[q].user \in U
             => req'[q] = [req[q] EXCEPT !.clean = FALSE]
    BY <2>2, Overtaken
  <2> QED
    BY <2>3
<1>2. /\ \A q \in Requests : req[q] \in InHand
      /\ req[r] \in Openings /\ Pending(req[r])
      /\ r \notin Opened
  BY InHandOf DEF IInv, Typed, Fresh, Opened
<1>3. P \in SUBSET Opened
  BY <1>2 DEF Pending
<1>4. /\ Session(r) \in Sessions /\ Session(r) # NoSession
      /\ Session(r).user = req[r].user /\ Session(r).parent = req[r].session
      /\ Session(r).pw = req[r].pw /\ Session(r).clean = req[r].clean
  <2>1. Session(r) \in Sessions /\ NoSession \notin Sessions
    BY <1>2 DEF Session, Sessions, Openings, NoSession
  <2> QED
    BY <2>1 DEF Session
<1>5. /\ sessions' \in [Requests -> Sessions \cup {NoSession}]
      /\ sessions'[r] = Session(r)
      /\ \A s \in Requests \ {r} : sessions'[s] = Revoked(P)[s]
  BY <1>3, <1>4, RevokedRows
<1>6. Opened' = Opened \cup {r}
  BY <1>2, <1>3, <1>4, <1>5, RevokedRows DEF Opened
<1>7. \A s \in Opened : /\ sessions'[s].user = sessions[s].user
                        /\ sessions'[s].parent = sessions[s].parent
                        /\ sessions'[s].pw = sessions[s].pw
                        /\ sessions'[s].clean = sessions[s].clean
                        /\ sessions'[s].access = sessions[s].access
                        /\ sessions'[s].revoked <=> (s \in P \/ sessions[s].revoked)
  BY <1>2, <1>3, <1>5, RevokedRows DEF Opened
<1>8. Accounts' = Accounts
  BY DEF Accounts
<1>9. Typed'
  BY <1>1, <1>5 DEF IInv, Typed
<1>10. Fresh'
  <2>1. ASSUME NEW q \in Requests, req'[q].op # "done"
        PROVE  sessions'[q] = NoSession /\ users'[q] = None
    <3>1. q # r
      BY <1>1, <2>1 DEF Done
    <3>2. req[q].op # "done"
      BY <1>1, <2>1, <3>1
    <3>3. sessions[q] = NoSession /\ users[q] = None
      BY <3>2 DEF IInv, Fresh
    <3> QED
      BY <1>3, <1>5, <3>1, <3>3, RevokedRows DEF Opened
  <2> QED
    BY <2>1 DEF IInv, Fresh
<1>11. EmailsUnique'
  BY <1>8 DEF IInv, EmailsUnique
<1>12. req[r].session # None => /\ req[r].op = "refresh" /\ req[r].session \in P
                                /\ req[r].session \in Opened
                                /\ req[r].clean => ~sessions[req[r].session].revoked
  BY <1>2 DEF Pending
<1>13. OneSuccessor'
  <2>1. ASSUME NEW t \in Opened, sessions[t].parent = req[r].session, req[r].session # None
        PROVE  ~req[r].clean
    BY <1>12, <2>1 DEF IInv, Sound
  <2>2. SUFFICES ASSUME NEW s \in Opened', NEW t \in Opened', s # t,
                        sessions'[s].parent = sessions'[t].parent, sessions'[s].parent # None,
                        sessions'[s].clean
                 PROVE  ~sessions'[t].clean
    BY DEF OneSuccessor
  <2>3. CASE s \in Opened /\ t \in Opened
    <3>1. /\ sessions[s].parent = sessions[t].parent /\ sessions[s].parent # None
          /\ sessions[s].clean
      BY <1>7, <2>2, <2>3
    <3>2. ~sessions[t].clean
      BY <2>2, <2>3, <3>1 DEF IInv, OneSuccessor
    <3> QED
      BY <1>7, <2>3, <3>2
  <2>4. CASE s = r /\ t \in Opened
    <3>1. sessions[t].parent = req[r].session /\ req[r].session # None /\ req[r].clean
      BY <1>4, <1>5, <1>7, <2>2, <2>4
    <3> QED
      BY <2>1, <2>4, <3>1
  <2>5. CASE t = r /\ s \in Opened
    <3>1. sessions[s].parent = req[r].session /\ req[r].session # None
      <4>1. sessions'[s].parent = sessions[s].parent /\ sessions'[t].parent = req[r].session
        BY <1>4, <1>5, <1>7, <2>5
      <4> QED
        BY <2>2, <4>1
    <3>2. ~req[r].clean
      BY <2>1, <2>5, <3>1
    <3> QED
      BY <1>4, <1>5, <2>5, <3>2
  <2> QED
    BY <1>6, <2>2, <2>3, <2>4, <2>5
<1>14. ASSUME NEW q \in Requests PROVE Pending(req[q])'
  <2>1. CASE q = r
    BY <1>1, <2>1 DEF Pending, Done
  <2>2. CASE q # r /\ req[q].op \notin {"login", "refresh"}
    <3>1. req'[q] = req[q] /\ Pending(req[q])
      BY <1>1, <2>2 DEF IInv
    <3> QED
      BY <1>6, <1>8, <2>2, <3>1 DEF Pending
  <2>3. CASE q # r /\ req[q].op \in {"login", "refresh"} /\ req'[q] = [req[q] EXCEPT !.clean = FALSE]
    <3>1. req[q] \in Openings /\ Pending(req[q])
      BY <1>2, <2>3, InHandOf DEF IInv
    <3>2. /\ req'[q].op = req[q].op /\ req'[q].user = req[q].user
          /\ req'[q].session = req[q].session /\ ~req'[q].clean
      BY <2>3, <3>1 DEF Openings
    <3>3. req[q].op = "refresh" => /\ req[q].session \in Opened
                                   /\ sessions'[req[q].session].user = req[q].user
      BY <1>7, <3>1 DEF Pending
    <3> QED
      BY <1>6, <1>8, <2>3, <3>1, <3>2, <3>3 DEF Pending
  <2>4. CASE /\ q # r /\ req[q].op \in {"login", "refresh"}
             /\ req'[q] # [req[q] EXCEPT !.clean = FALSE]
    <3>1. req'[q] = req[q] /\ Pending(req[q])
      BY <1>1, <2>4 DEF IInv
    <3>2. req[q].op = "refresh" => req[q].session \notin P
      BY <1>1, <2>4
    <3>3. req[q].op = "refresh" =>
            /\ req[q].session \in Opened
            /\ sessions'[req[q].session].user = req[q].user
            /\ req[q].clean => ~sessions'[req[q].session].revoked
      BY <1>7, <3>1, <3>2 DEF Pending
    <3> QED
      BY <1>6, <1>8, <2>4, <3>1, <3>3 DEF Pending
  <2> QED
    BY <2>1, <2>2, <2>3, <2>4
<1>15. ASSUME NEW s \in Opened' PROVE Sound(s)'
  <2>1. CASE s = r
    <3>1. req[r].user \in Accounts /\ (req[r].clean => req[r].pw = users[req[r].user].pw)
      BY <1>2 DEF Pending
    <3>2. req[r].session # None => req[r].session \in Opened' /\ sessions'[req[r].session].revoked
      BY <1>6, <1>7, <1>12
    <3> QED
      BY <1>4, <1>5, <1>8, <2>1, <3>1, <3>2 DEF Sound
  <2>2. CASE s \in Opened
    <3>1. Sound(s)
      BY <2>2 DEF IInv
    <3>2. sessions'[s].user \in Accounts' /\ sessions'[s].pw = sessions[s].pw
          /\ users'[sessions'[s].user].pw = users[sessions[s].user].pw
      <4>1. sessions'[s].user = sessions[s].user /\ sessions'[s].pw = sessions[s].pw
        BY <1>7, <2>2
      <4>2. sessions[s].user \in Accounts
        BY <3>1 DEF Sound
      <4> QED
        BY <1>8, <4>1, <4>2
    <3>3. sessions'[s].parent # None => /\ sessions'[s].parent \in Opened
                                        /\ sessions'[sessions'[s].parent].revoked
      BY <1>7, <2>2, <3>1 DEF Sound
    <3>4. sessions'[s].clean /\ ~sessions'[s].revoked => sessions[s].clean /\ ~sessions[s].revoked
      BY <1>7, <2>2
    <3> QED
      BY <1>6, <3>1, <3>2, <3>3, <3>4 DEF Sound
  <2> QED
    BY <1>6, <2>1, <2>2
<1>16. \A s \in ended' : s \in Opened' /\ sessions'[s].revoked
  BY <1>6, <1>7 DEF IInv
<1>17. \A a \in Requests : Blocked(a)'
  BY <1>6, <1>7 DEF IInv, Blocked
<1> QED
  BY <1>9, <1>10, <1>11, <1>13, <1>14, <1>15, <1>16, <1>17 DEF IInv

\* Accounts come and change, but for their passwords.
LEMMA UserInv ==
    ASSUME IInv, Fresh', EmailsUnique', users' \in [Ids -> Rows \cup {None}],
           \A u \in Accounts : users'[u] # None /\ users'[u].pw = users[u].pw,
           req' \in [Requests -> InHand],
           \A q \in Requests : req'[q] \in {req[q], Done},
           restarts' \in 0..MaxRestarts,
           UNCHANGED <<sessions, blocklist, clock, ended>>
    PROVE  IInv'
<1>1. Typed'
  BY DEF IInv, Typed
<1>2. Opened' = Opened /\ \A u \in Accounts : u \in Ids /\ u \in Accounts'
  BY DEF Opened, Accounts
<1>3. OneSuccessor'
  BY <1>2 DEF IInv, OneSuccessor
<1>4. ASSUME NEW q \in Requests PROVE Pending(req[q])'
  <2>1. CASE req'[q] = Done
    BY <2>1 DEF Pending, Done
  <2>2. CASE req'[q] = req[q]
    <3>1. Pending(req[q])
      BY DEF IInv
    <3> QED
      BY <1>2, <2>2, <3>1 DEF Pending
  <2> QED
    BY <2>1, <2>2
<1>5. ASSUME NEW s \in Opened' PROVE Sound(s)'
  <2>1. Sound(s)
    BY <1>2, <1>5 DEF IInv
  <2> QED
    BY <1>2, <2>1 DEF Sound
<1>6. \A a \in Requests : Blocked(a)'
  BY <1>2 DEF IInv, Blocked
<1> QED
  BY <1>1, <1>2, <1>3, <1>4, <1>5, <1>6 DEF IInv

LEMMA CommitRegisterInv ==
    ASSUME IInv, NEW r \in Requests, CommitRegister(r)
    PROVE  IInv'
<1> DEFINE row == req[r].row
<1>1. row \in Rows /\ r \in Ids /\ users[r] = None
  BY InHandOf DEF CommitRegister, IInv, Typed, Fresh, Registering, Ids
<1>2. req' = [req EXCEPT ![r] = Done] /\ Done \in InHand
  BY DEF CommitRegister, Step, InHand, Waiting
<1>3. req' \in [Requests -> InHand] /\ (\A q \in Requests : req'[q] = IF q = r THEN Done ELSE req[q])
  BY <1>2 DEF IInv, Typed
<1>4. \/ users' = users
      \/ UniqueEmail(r, row.email) /\ users' = [users EXCEPT ![r] = row]
  BY DEF CommitRegister
<1>5. users' \in [Ids -> Rows \cup {None}]
      /\ \A u \in Ids \ {r} : users'[u] = users[u]
  BY <1>1, <1>4 DEF IInv, Typed
<1>6. Fresh'
  <2>1. r \notin Seeds
    OBVIOUS
  <2>2. \A q \in Requests : q \in Ids
    BY DEF Ids
  <2>3. \A n \in 0..MaxRestarts : <<"admin", n>> \in Ids /\ <<"admin", n>> # r
    BY <2>1 DEF Ids, Seeds
  <2> QED
    BY <1>3, <1>5, <2>2, <2>3 DEF IInv, Fresh, CommitRegister, Done
<1>7. EmailsUnique'
  <2>1. CASE users' = users
    BY <2>1 DEF IInv, EmailsUnique, Accounts
  <2>2. CASE UniqueEmail(r, row.email) /\ users' = [users EXCEPT ![r] = row]
    <3>1. users'[r].email = row.email /\ \A v \in Accounts : v # r /\ users[v].email # row.email
      BY <1>1, <2>2 DEF UniqueEmail, Accounts, IInv, Typed
    <3>2. Accounts' \subseteq Accounts \cup {r}
      BY <1>5 DEF Accounts
    <3> QED
      BY <1>5, <3>1, <3>2 DEF IInv, EmailsUnique, Accounts
  <2> QED
    BY <1>4, <2>1, <2>2
<1>8. \A u \in Accounts : users'[u] # None /\ users'[u].pw = users[u].pw
  BY <1>1, <1>5 DEF Accounts
<1> QED
  BY <1>3, <1>5, <1>6, <1>7, <1>8, UserInv DEF CommitRegister, IInv, Typed

LEMMA CommitChangeInv ==
    ASSUME IInv, NEW r \in Requests, CommitChange(r)
    PROVE  IInv'
<1> DEFINE u == req[r].user
<1>0. req[r].op \in {"email", "name"} /\ Pending(req[r]) /\ req[r] \in InHand
  BY DEF CommitChange, IInv, Typed
<1>1. u \in Accounts /\ u \in Ids /\ users[u] \in Rows
  BY <1>0 DEF Pending, Accounts, IInv, Typed
<1>7. /\ req[r].op = "email" => req[r].new \in Emails
      /\ req[r].op = "name" => req[r].new \in Requests
  BY <1>0, InHandOf DEF Changing
<1>2. req' = [req EXCEPT ![r] = Done] /\ Done \in InHand
  BY DEF CommitChange, Step, InHand, Waiting
<1>3. req' \in [Requests -> InHand] /\ (\A q \in Requests : req'[q] = IF q = r THEN Done ELSE req[q])
  BY <1>2 DEF IInv, Typed
<1>4. \/ users' = users
      \/ /\ req[r].op = "email" /\ UniqueEmail(u, req[r].new) /\ req[r].new \in Emails
         /\ users' = [users EXCEPT ![u].email = req[r].new]
      \/ /\ req[r].op = "name" /\ req[r].new \in Requests
         /\ users' = [users EXCEPT ![u].name = req[r].new]
  BY <1>0, <1>7 DEF CommitChange, ChangedColumn
<1>5. /\ users'[u] \in Rows /\ users'[u].pw = users[u].pw
      /\ users'[u].email = users[u].email
           \/ (users'[u].email = req[r].new /\ UniqueEmail(u, req[r].new))
      /\ \A v \in Ids \ {u} : users'[v] = users[v]
      /\ users' \in [Ids -> Rows \cup {None}]
  <2>1. CASE users' = users
    BY <1>1, <2>1 DEF IInv, Typed
  <2>2. CASE /\ req[r].op = "email" /\ UniqueEmail(u, req[r].new) /\ req[r].new \in Emails
             /\ users' = [users EXCEPT ![u].email = req[r].new]
    <3>1. /\ [users[u] EXCEPT !.email = req[r].new] \in Rows
          /\ [users[u] EXCEPT !.email = req[r].new].pw = users[u].pw
          /\ [users[u] EXCEPT !.email = req[r].new].email = req[r].new
      BY <1>1, <2>2 DEF Rows
    <3> QED
      BY <1>1, <2>2, <3>1 DEF IInv, Typed
  <2>3. CASE req[r].op = "name" /\ req[r].new \in Requests /\ users' = [users EXCEPT ![u].name = req[r].new]
    <3>1. /\ [users[u] EXCEPT !.name = req[r].new] \in Rows
          /\ [users[u] EXCEPT !.name = req[r].new].pw = users[u].pw
          /\ [users[u] EXCEPT !.name = req[r].new].email = users[u].email
      BY <1>1, <2>3 DEF Rows
    <3> QED
      BY <1>1, <2>3, <3>1 DEF IInv, Typed
  <2> QED
    BY <1>4, <2>1, <2>2, <2>3
<1> HIDE DEF u
<1>6. Accounts' = Accounts
  BY <1>1, <1>5 DEF Accounts, IInv, Typed
<1>8. Fresh'
  <2>1. \A q \in Requests : users'[q] = None <=> users[q] = None
    BY <1>6 DEF Accounts, Ids
  <2>2. \A n \in 0..MaxRestarts : users'[<<"admin", n>>] = None <=> users[<<"admin", n>>] = None
    BY <1>6 DEF Accounts, Ids, Seeds
  <2> QED
    BY <1>3, <2>1, <2>2 DEF IInv, Fresh, CommitChange, Done
<1>9. EmailsUnique'
  <2>1. \A v \in Accounts \ {u} : v \in Ids /\ users'[v] = users[v] /\ users'[u].email # users[v].email
    BY <1>1, <1>5 DEF UniqueEmail, IInv, EmailsUnique, Accounts
  <2> QED
    BY <1>6, <2>1 DEF IInv, EmailsUnique
<1>10. \A v \in Accounts : users'[v] # None /\ users'[v].pw = users[v].pw
  BY <1>5, <1>6 DEF Accounts
<1> QED
  BY <1>3, <1>5, <1>8, <1>9, <1>10, UserInv DEF CommitChange, IInv, Typed

LEMMA RestartInv ==
    ASSUME IInv, Restart
    PROVE  IInv'
<1> DEFINE n == restarts + 1
           seed == <<"admin", n>>
<1>1. n \in 0..MaxRestarts /\ restarts' = n /\ seed \in Ids /\ users[seed] = None
  BY DEF Restart, IInv, Typed, Fresh, Ids, Seeds
<1>2. /\ req' \in [Requests -> InHand]
      /\ \A q \in Requests : req'[q] \in {req[q], Done}
  <2>1. Idle \in InHand /\ Done \in InHand
    BY DEF InHand, Waiting
  <2>2. \A q \in Requests : req'[q] = IF req[q] = Idle THEN Idle ELSE Done
    BY DEF Restart
  <2>3. req' \in [Requests -> InHand]
    BY <2>1 DEF Restart
  <2> QED
    BY <2>2, <2>3
<1>3. /\ users' = users \/ users' = [users EXCEPT ![seed] = Row(AdminEmail, AdminPassword, "given")]
      /\ users' # users => \A u \in Accounts : users[u].email # AdminEmail
  BY DEF Restart, Seeded, Accounts
<1> DEFINE row == Row(AdminEmail, AdminPassword, "given")
<1>4. row \in Rows /\ row.email = AdminEmail
  BY DEF Row, Rows
<1> HIDE DEF row
<1>5. /\ users' \in [Ids -> Rows \cup {None}]
      /\ \A u \in Ids \ {seed} : users'[u] = users[u]
  BY <1>1, <1>3, <1>4 DEF IInv, Typed, row
<1>6. Fresh'
  <2>1. \A q \in Requests : q \in Ids /\ q # seed
    BY <1>1 DEF Ids, Seeds
  <2>2. ASSUME NEW m \in 0..MaxRestarts, m > n PROVE users'[<<"admin", m>>] = None
    <3>1. <<"admin", m>> \in Ids /\ m # n /\ m > restarts
      BY <2>2 DEF Ids, Seeds, IInv, Typed
    <3>2. <<"admin", m>> # seed
      BY <3>1
    <3> QED
      BY <1>5, <3>1, <3>2 DEF IInv, Fresh
  <2> QED
    BY <1>1, <1>2, <1>5, <2>1, <2>2 DEF IInv, Fresh, Restart, Done
<1>7. EmailsUnique'
  <2>1. CASE users' = users
    BY <2>1 DEF IInv, EmailsUnique, Accounts
  <2>2. CASE users' # users
    <3>1. users'[seed].email = AdminEmail /\ \A v \in Accounts : v # seed /\ users[v].email # AdminEmail
      BY <1>1, <1>3, <1>4, <2>2 DEF Accounts, IInv, Typed, row
    <3>2. Accounts' \subseteq Accounts \cup {seed}
      BY <1>5 DEF Accounts
    <3> HIDE DEF seed
    <3> QED
      BY <1>5, <3>1, <3>2 DEF IInv, EmailsUnique, Accounts
  <2> QED
    BY <2>1, <2>2
<1>8. \A u \in Accounts : users'[u] # None /\ users'[u].pw = users[u].pw
  BY <1>1, <1>5 DEF Accounts
<1> QED
  BY <1>1, <1>2, <1>5, <1>6, <1>7, <1>8, UserInv DEF Restart

-----------------------------------------------------------------------------
LEMMA TickInv ==
    ASSUME IInv, Tick
    PROVE  IInv'
<1>1. Accounts' = Accounts /\ Opened' = Opened
  BY DEF Tick, Accounts, Opened
<1>2. Typed'
  BY DEF Tick, IInv, Typed
<1>3. Fresh' /\ EmailsUnique' /\ OneSuccessor'
  BY <1>1 DEF Tick, IInv, Fresh, EmailsUnique, OneSuccessor
<1>4. \A q \in Requests : Pending(req[q])'
  BY <1>1 DEF Tick, IInv, Pending
<1>5. \A s \in Opened' : Sound(s)'
  BY <1>1 DEF Tick, IInv, Sound
<1>6. (\A s \in ended' : s \in Opened' /\ sessions'[s].revoked) /\ \A a \in Requests : Blocked(a)'
  BY <1>1 DEF Tick, IInv, Blocked
<1> QED
  BY <1>2, <1>3, <1>4, <1>5, <1>6 DEF IInv

\* The entry of a blocked token ends no earlier than the token.
LEMMA TtlCovers ==
    ASSUME clock \in Nat, NEW exp \in Nat
    PROVE  clock + 2 * Ttl(exp) \in Nat /\ clock + 2 * Ttl(exp) >= 2 * exp
<1>1. clock \div 2 \in Nat /\ clock >= 2 * (clock \div 2) /\ clock < 2 * (clock \div 2) + 2
  OBVIOUS
<1> QED
  BY <1>1 DEF Ttl, Second

LEMMA BlockInv ==
    ASSUME IInv, NEW r \in Requests, Block(r)
    PROVE  IInv'
<1> DEFINE a == req[r].access
           s == req[r].session
<1>1. req[r].op = "logout" /\ a \in Opened /\ a \in Requests
  BY DEF Block, IInv, Pending, Opened
<1>2. sessions[a] \in Sessions /\ sessions[a].access \in Nat /\ clock \in Nat
  BY <1>1 DEF IInv, Typed, Opened, Sessions
<1>3. PICK q \in {Done, [op |-> "revoke", session |-> s]} :
        req' = [req EXCEPT ![r] = q] /\ (q = Done \/ s \in Opened)
  BY DEF Block, Step
<1>4. q \in InHand /\ q.op \in {"done", "revoke"} /\ (q.op = "revoke" => q.session \in Opened)
  BY <1>3 DEF InHand, Waiting, Revoking, Done, Opened
<1>5. blocklist' = [blocklist EXCEPT ![a] = clock + 2 * Ttl(sessions[a].access)]
  BY DEF Block
<1> HIDE DEF a, s
<1>6. Typed'
  BY <1>1, <1>2, <1>3, <1>4, <1>5, TtlCovers DEF Block, IInv, Typed
<1>7. Accounts' = Accounts /\ Opened' = Opened
  BY DEF Block, Accounts, Opened
<1>8. \A x \in Requests : req'[x] = IF x = r THEN q ELSE req[x]
  BY <1>3 DEF IInv, Typed
<1>9. Fresh' /\ EmailsUnique' /\ OneSuccessor'
  BY <1>1, <1>7, <1>8 DEF Block, IInv, Fresh, EmailsUnique, OneSuccessor
<1>10. \A x \in Requests : Pending(req[x])'
  BY <1>4, <1>7, <1>8 DEF Block, IInv, Pending
<1>11. \A x \in Opened' : Sound(x)'
  BY <1>7 DEF Block, IInv, Sound
<1>12. \A x \in ended' : x \in Opened' /\ sessions'[x].revoked
  BY <1>7 DEF Block, IInv
<1>13. ASSUME NEW x \in Requests PROVE Blocked(x)'
  <2>1. CASE x = a
    BY <1>1, <1>2, <1>5, <1>7, <2>1, TtlCovers DEF Block, Blocked, IInv, Typed
  <2>2. CASE x # a
    BY <1>5, <1>7, <2>2 DEF Block, Blocked, IInv, Typed
  <2> QED
    BY <2>1, <2>2
<1> QED
  BY <1>6, <1>9, <1>10, <1>11, <1>12, <1>13 DEF IInv

-----------------------------------------------------------------------------
LEMMA CommitLoginInv ==
    ASSUME IInv, NEW r \in Requests, CommitLogin(r)
    PROVE  IInv'
<1>1. Revoked({}) = sessions
  <2>1. sessions = [s \in Requests |-> sessions[s]]
    BY DEF IInv, Typed
  <2> QED
    BY <2>1 DEF Revoked
<1>2. Overtake(r, Done, {}, {})
  <2>1. req' = [q \in Requests |-> IF q = r THEN Done ELSE req[q]]
    BY DEF CommitLogin, Step, IInv, Typed
  <2> QED
    BY <2>1 DEF Overtake
<1>3. {} \in SUBSET Requests /\ req[r].op = "login"
  BY DEF CommitLogin
<1>4. sessions' = [Revoked({}) EXCEPT ![r] = Session(r)]
  BY <1>1 DEF CommitLogin
<1> QED
  BY <1>2, <1>3, <1>4, OpenInv DEF CommitLogin

LEMMA CommitRefreshInv ==
    ASSUME IInv, NEW r \in Requests, CommitRefresh(r)
    PROVE  IInv'
<1>1. req[r].op = "refresh" /\ req[r].session \in Requests
  BY DEF CommitRefresh, IInv, Pending, Opened
<1>2. {req[r].session} \in SUBSET Requests
  BY <1>1
<1> QED
  BY <1>1, <1>2, OpenInv DEF CommitRefresh, Rotated

LEMMA CommitRevokeInv ==
    ASSUME IInv, NEW r \in Requests, CommitRevoke(r)
    PROVE  IInv'
<1>1. req[r].session \in Opened
  BY DEF CommitRevoke, IInv, Pending
<1>2. {req[r].session} \in SUBSET Opened /\ {req[r].session} \in SUBSET Requests
  BY <1>1 DEF Opened
<1>3. {} \in SUBSET Ids /\ users' \in [Ids -> Rows \cup {None}]
  BY DEF CommitRevoke, IInv, Typed
<1> QED
  BY <1>2, <1>3, EndInv DEF CommitRevoke

LEMMA CommitRevokeAllInv ==
    ASSUME IInv, NEW r \in Requests, CommitRevokeAll(r)
    PROVE  IInv'
<1> DEFINE u == req[r].user
<1>1. u \in Ids
  BY DEF CommitRevokeAll, IInv, Pending, Accounts
<1>2. OfUser(u) \in SUBSET Opened /\ {u} \in SUBSET Ids /\ {} \in SUBSET Requests
      /\ \A s \in OfUser(u) : sessions[s].user \in {u}
  BY <1>1 DEF OfUser
<1>3. users' \in [Ids -> Rows \cup {None}]
  BY DEF CommitRevokeAll, IInv, Typed
<1> QED
  BY <1>2, <1>3, EndInv DEF CommitRevokeAll

LEMMA CommitPasswordInv ==
    ASSUME IInv, NEW r \in Requests, CommitPassword(r)
    PROVE  IInv'
<1> DEFINE u == req[r].user
<1>1. u \in Accounts /\ u \in Ids /\ users[u] \in Rows /\ req[r].new \in Passwords
  <2>1. req[r].op = "pw" /\ Pending(req[r]) /\ req[r] \in InHand
    BY DEF CommitPassword, IInv, Typed
  <2> QED
    BY <2>1, InHandOf DEF Pending, Accounts, IInv, Typed, Changing
<1>2. OfUser(u) \in SUBSET Opened /\ {u} \in SUBSET Ids /\ {} \in SUBSET Requests
      /\ \A s \in OfUser(u) : sessions[s].user \in {u}
  BY <1>1 DEF OfUser
<1>3. /\ users'[u] \in Rows /\ users'[u].email = users[u].email
      /\ \A v \in Ids \ {u} : users'[v] = users[v]
      /\ users' \in [Ids -> Rows \cup {None}]
  <2>1. [users[u] EXCEPT !.pw = req[r].new] \in Rows
        /\ [users[u] EXCEPT !.pw = req[r].new].email = users[u].email
    BY <1>1 DEF Rows
  <2>2. users' = [users EXCEPT ![u].pw = req[r].new]
    BY DEF CommitPassword
  <2> QED
    BY <1>1, <2>1, <2>2 DEF IInv, Typed
<1>4. /\ Overtake(r, Done, {}, {u}) /\ sessions' = Revoked(OfUser(u))
      /\ ended' = ended \cup OfUser(u) /\ UNCHANGED <<blocklist, clock, restarts>>
  BY DEF CommitPassword, EndAll
<1> HIDE DEF u
<1>5. /\ \A v \in Ids : users'[v] # None <=> users[v] # None
      /\ \A v \in Accounts : users'[v].email = users[v].email
      /\ \A v \in Accounts : users'[v].pw = users[v].pw \/ (v \in {u} /\ OfUser(v) \subseteq OfUser(u))
  BY <1>1, <1>3 DEF Accounts
<1> QED
  BY <1>2, <1>3, <1>4, <1>5, EndInv

LEMMA NextInv == IInv /\ [Next]_vars => IInv'
<1> SUFFICES ASSUME IInv, [Next]_vars PROVE IInv'
  OBVIOUS
<1>1. ASSUME NEW r \in Requests, CommitRegister(r) \/ CommitChange(r) PROVE IInv'
  BY <1>1, CommitRegisterInv, CommitChangeInv
<1>2. ASSUME NEW r \in Requests, CommitLogin(r) \/ CommitRefresh(r) PROVE IInv'
  BY <1>2, CommitLoginInv, CommitRefreshInv
<1>3. ASSUME NEW r \in Requests, CommitRevoke(r) \/ CommitRevokeAll(r) \/ CommitPassword(r)
      PROVE  IInv'
  BY <1>3, CommitRevokeInv, CommitRevokeAllInv, CommitPasswordInv
<1>4. ASSUME NEW r \in Requests, Block(r) PROVE IInv'
  BY <1>4, BlockInv
<1>5. CASE UNCHANGED vars
  <2>1. Accounts' = Accounts /\ Opened' = Opened
    BY <1>5 DEF vars, Accounts, Opened
  <2>2. Typed' /\ Fresh' /\ EmailsUnique' /\ OneSuccessor'
    BY <1>5, <2>1 DEF vars, IInv, Typed, Fresh, EmailsUnique, OneSuccessor
  <2>3. (\A q \in Requests : Pending(req[q])') /\ \A s \in Opened' : Sound(s)'
    BY <1>5, <2>1 DEF vars, IInv, Pending, Sound
  <2>4. (\A s \in ended' : s \in Opened' /\ sessions'[s].revoked) /\ \A a \in Requests : Blocked(a)'
    BY <1>5, <2>1 DEF vars, IInv, Blocked
  <2> QED
    BY <2>2, <2>3, <2>4 DEF IInv
<1> QED
  BY <1>1, <1>2, <1>3, <1>4, <1>5, FirstStepInv, RestartInv, TickInv DEF Next

LEMMA Invariance == Spec => []IInv
<1> QED
  BY InitInv, NextInv, PTL DEF Spec

-----------------------------------------------------------------------------
\* Every variable has its type, and an email names one account, however
\* registrations, changes of email and restarts overlap (account/router.py).
THEOREM TypeCorrect == Spec => []TypeOK
<1>1. IInv => TypeOK
  <2> SUFFICES ASSUME IInv PROVE TypeOK
    OBVIOUS
  <2>1. DOMAIN req = Requests /\ ended \subseteq Requests
    BY DEF IInv, Typed, Opened
  <2> QED
    BY <2>1 DEF IInv, Typed, TypeOK
<1> QED
  BY <1>1, Invariance, PTL

LEMMA ExpiryOrder ==
    ASSUME clock \in Nat, NEW t \in Nat, clock < 2 * Second(t)
    PROVE  t > clock
<1>1. t \div 2 \in Nat /\ t >= 2 * (t \div 2)
  OBVIOUS
<1> QED
  BY <1>1 DEF Second

\* Refreshes that do not overlap keep the sessions of a login in one line, and
\* every usable session is shown to its user (refresh/router.py,
\* session/router.py).  Nothing is said of refreshes that overlap.
THEOREM SessionsInLine == Spec => []OneLine
<1>1. ASSUME IInv PROVE RetiredByUse
  BY <1>1 DEF IInv, Sound, RetiredByUse, Usable
<1>2. ASSUME IInv PROVE UsableIsListed
  <2>1. SUFFICES ASSUME NEW s \in Opened, Usable(s) PROVE sessions[s].expires > clock
    BY <2>1 DEF UsableIsListed, Listed, Usable
  <2>2. sessions[s].expires \in Nat /\ clock \in Nat
    BY <1>1, <1>2 DEF IInv, Typed, Opened, Sessions
  <2>3. Second(sessions[s].expires) \in Nat
    BY <2>2 DEF Second
  <2>4. clock < 2 * Second(sessions[s].expires)
    BY <2>1, <2>2, <2>3 DEF Usable, Spent, Expired
  <2> QED
    BY <2>2, <2>4, ExpiryOrder
<1>3. IInv => OneLine
  BY <1>1, <1>2 DEF IInv, OneLine
<1> QED
  BY <1>3, Invariance, PTL

\* No live session remembers an old password (account/router.py).
THEOREM PasswordsKnown == Spec => []LiveKnowsPassword
<1>1. IInv => LiveKnowsPassword
  BY DEF IInv, Sound, LiveKnowsPassword
<1> QED
  BY <1>1, Invariance, PTL

\* A signed-out access token is blocked while it would be valid (logout/router.py,
\* blocklist.py).
THEOREM BlockingLasts == Spec => []BlockedWhileValid
<1>1. IInv => BlockedWhileValid
  <2> SUFFICES ASSUME IInv, NEW a \in Opened, blocklist[a] # 0
               PROVE  blocklist[a] > clock \/ Expired(sessions[a].access)
    BY DEF BlockedWhileValid
  <2>1. /\ a \in Requests /\ blocklist[a] \in Nat /\ clock \in Nat /\ sessions[a].access \in Nat
        /\ blocklist[a] >= 2 * sessions[a].access
    BY DEF IInv, Typed, Opened, Sessions, Blocked
  <2> QED
    BY <2>1 DEF Expired
<1> QED
  BY <1>1, Invariance, PTL

\* Who changes sessions.
LEMMA SessionSteps ==
    ASSUME [Next]_vars
    PROVE  \/ sessions' = sessions /\ ended' = ended
           \/ \E r \in Requests : CommitLogin(r) \/ CommitRefresh(r)
           \/ \E r \in Requests : CommitRevoke(r) \/ CommitRevokeAll(r) \/ CommitPassword(r)
<1> DEFINE Same == sessions' = sessions /\ ended' = ended
<1>1. Restart \/ Tick \/ UNCHANGED vars => Same
  BY DEF Restart, Tick, vars
<1>2. ASSUME NEW r \in Requests,
             \/ \E e \in Emails, p \in Passwords : Register(r, e, p)
             \/ \E u \in Ids, p \in Passwords : Login(r, u, p)
             \/ \E s \in Requests : Refresh(r, s)
      PROVE  Same
  BY <1>2 DEF Register, Login, Refresh
<1>3. ASSUME NEW r \in Requests, CommitRegister(r) \/ Block(r) \/ CommitChange(r) PROVE Same
  BY <1>3 DEF CommitRegister, Block, CommitChange
<1>4. ASSUME NEW r \in Requests, NEW a \in Requests,
             \/ \E s \in Requests \cup {None} : Logout(r, a, s)
             \/ \E s \in Requests : RevokeSession(r, a, s)
             \/ RevokeAll(r, a)
             \/ \E p, new \in Passwords : ChangePassword(r, a, p, new)
             \/ \E p \in Passwords, e \in Emails : ChangeEmail(r, a, p, e)
             \/ Rename(r, a)
      PROVE  Same
  BY <1>4 DEF Logout, RevokeSession, RevokeAll, ChangePassword, ChangeEmail, Rename
<1> QED
  BY <1>1, <1>2, <1>3, <1>4 DEF Next

\* A session that was ended has no successor and never lives again: the request
\* that would open one has lost its claim (refresh/router.py).
THEOREM EndingsLast == Spec => EndedIsFinal
<1> DEFINE Final ==
      /\ \A s \in Opened' \ Opened : sessions'[s].clean => sessions'[s].parent \notin ended
      /\ \A s \in ended : ~Usable(s)'
<1>1. ASSUME IInv, IInv', [Next]_vars PROVE Final
  <2>1. \A s \in ended : s \in Opened /\ s \in Requests /\ sessions[s].revoked
    BY <1>1 DEF IInv, Opened
  <2>2. \A s \in ended' : s \in Opened' /\ sessions'[s].revoked
    BY <1>1 DEF IInv
  <2>3. CASE sessions' = sessions /\ ended' = ended
    <3>1. Opened' = Opened
      BY <2>3 DEF Opened
    <3> QED
      BY <2>2, <2>3, <3>1 DEF Usable
  <2>4. ASSUME NEW r \in Requests, CommitLogin(r) \/ CommitRefresh(r) PROVE Final
    <3>1. Pending(req[r]) /\ ended' = ended /\ sessions \in [Requests -> Sessions \cup {NoSession}]
      BY <1>1, <2>4 DEF IInv, Typed, CommitLogin, CommitRefresh
    <3>2. \A s \in Opened' \ Opened :
            s = r /\ sessions'[s].parent = req[r].session /\ sessions'[s].clean = req[r].clean
      <4>1. CASE CommitLogin(r)
        BY <3>1, <4>1 DEF CommitLogin, Opened, Session
      <4>2. CASE CommitRefresh(r)
        <5>1. {req[r].session} \in SUBSET Opened
          BY <3>1, <4>2 DEF CommitRefresh, Pending
        <5>2. /\ Revoked({req[r].session}) \in [Requests -> Sessions \cup {NoSession}]
              /\ \A s \in Requests \ Opened : Revoked({req[r].session})[s] = NoSession
          BY <1>1, <5>1, RevokedRows
        <5> QED
          BY <4>2, <5>2 DEF CommitRefresh, Rotated, Opened, Session
      <4> QED
        BY <2>4, <4>1, <4>2
    <3>3. req[r].clean => req[r].session \notin ended
      BY <2>1, <2>4, <3>1 DEF Pending, CommitLogin, CommitRefresh, Ids
    <3> QED
      BY <2>2, <3>1, <3>2, <3>3 DEF Usable
  <2>5. ASSUME NEW r \in Requests, CommitRevoke(r) \/ CommitRevokeAll(r) \/ CommitPassword(r)
        PROVE  Final
    <3>1. PICK S \in SUBSET Opened : sessions' = Revoked(S) /\ ended' = ended \cup S
      <4>1. CASE CommitRevoke(r)
        <5>1. {req[r].session} \in SUBSET Opened
          BY <1>1, <4>1 DEF CommitRevoke, IInv, Pending
        <5> QED
          BY <4>1, <5>1 DEF CommitRevoke
      <4>2. CASE CommitRevokeAll(r) \/ CommitPassword(r)
        <5>1. OfUser(req[r].user) \in SUBSET Opened
          BY DEF OfUser
        <5> QED
          BY <4>2, <5>1 DEF CommitRevokeAll, CommitPassword, EndAll
      <4> QED
        BY <2>5, <4>1, <4>2
    <3>2. Opened' = Opened
      BY <1>1, <3>1, RevokedRows DEF Opened
    <3> QED
      BY <2>2, <3>1, <3>2 DEF Usable
  <2> QED
    BY <1>1, <2>3, <2>4, <2>5, SessionSteps
<1> QED
  BY <1>1, Invariance, PTL DEF Spec, EndedIsFinal

\* A change of email or name in flight is ended by its commit or by a restart.
LEMMA ChangeSteps ==
    ASSUME IInv, [Next]_vars, NEW r \in Requests, req[r].op \in {"email", "name"}, req'[r] = Done
    PROVE  Restart \/ CommitChange(r)
<1>1. req[r] # Done /\ req[r] # Idle /\ DOMAIN req = Requests
  BY DEF Done, Idle, IInv, Typed
<1> DEFINE Kept == req'[r] = req[r]
<1>2. ASSUME NEW q \in Requests, NEW new, q # r, Step(q, new) PROVE Kept
  BY <1>1, <1>2 DEF Step, IInv, Typed
<1>3. ASSUME NEW q \in Requests, NEW new, NEW S, NEW U, q # r, Overtake(q, new, S, U) PROVE Kept
  BY <1>3 DEF Overtake
<1>4. ASSUME NEW q \in Requests,
             \/ \E e \in Emails, p \in Passwords : Register(q, e, p)
             \/ \E u \in Ids, p \in Passwords : Login(q, u, p)
             \/ \E s \in Requests : Refresh(q, s)
      PROVE  Kept
  BY <1>1, <1>2, <1>4 DEF Register, Login, Refresh
<1>5. ASSUME NEW q \in Requests,
             \/ CommitRegister(q) \/ CommitLogin(q) \/ Block(q)
             \/ q # r /\ CommitChange(q)
      PROVE  Kept
  BY <1>1, <1>2, <1>5 DEF CommitRegister, CommitLogin, Block, CommitChange
<1>6. ASSUME NEW q \in Requests,
             CommitRefresh(q) \/ CommitRevoke(q) \/ CommitRevokeAll(q) \/ CommitPassword(q)
      PROVE  Kept
  <2>1. q # r
    BY <1>6 DEF CommitRefresh, CommitRevoke, CommitRevokeAll, CommitPassword
  <2>2. \E S, U : Overtake(q, Done, S, U)
    BY <1>6 DEF CommitRefresh, CommitRevoke, CommitRevokeAll, CommitPassword
  <2> QED
    BY <1>3, <2>1, <2>2
<1>7. ASSUME NEW q \in Requests, NEW a \in Requests,
             \/ \E s \in Requests \cup {None} : Logout(q, a, s)
             \/ \E s \in Requests : RevokeSession(q, a, s)
             \/ RevokeAll(q, a)
             \/ \E p, new \in Passwords : ChangePassword(q, a, p, new)
             \/ \E p \in Passwords, e \in Emails : ChangeEmail(q, a, p, e)
             \/ Rename(q, a)
      PROVE  Kept
  BY <1>1, <1>2, <1>7 DEF Logout, RevokeSession, RevokeAll, ChangePassword, ChangeEmail, Rename
<1>8. Tick \/ UNCHANGED vars => Kept
  BY DEF Tick, vars
<1> QED
  BY <1>1, <1>4, <1>5, <1>6, <1>7, <1>8 DEF Next

\* A save of one column leaves what others have saved in the rest of the row
\* (account/router.py).
THEOREM OneColumn == Spec => ColumnsIndependent
<1>1. ASSUME IInv, [Next]_vars, NEW r \in Requests, req[r].op \in {"email", "name"},
             req'[r] = Done, NEW u \in Accounts
      PROVE  /\ users'[u].pw = users[u].pw
             /\ req[r].op = "email" => users'[u].name = users[u].name
             /\ req[r].op = "name" => users'[u].email = users[u].email
  <2>1. u \in Ids /\ users[u] \in Rows /\ users \in [Ids -> Rows \cup {None}]
    BY <1>1 DEF Accounts, IInv, Typed
  <2>2. CASE Restart
    <3> DEFINE seed == <<"admin", restarts + 1>>
    <3>1. seed \in Ids /\ u # seed
      BY <1>1, <2>2 DEF Restart, IInv, Typed, Fresh, Ids, Seeds, Accounts
    <3>2. users'[u] = users[u]
      BY <2>1, <2>2, <3>1 DEF Restart, Seeded
    <3> QED
      BY <3>2
  <2>3. CASE CommitChange(r)
    <3>1. req[r].op = "email" =>
            \/ users' = users \/ users' = [users EXCEPT ![req[r].user].email = req[r].new]
      BY <2>3 DEF CommitChange, ChangedColumn
    <3>2. req[r].op = "name" =>
            \/ users' = users \/ users' = [users EXCEPT ![req[r].user].name = req[r].new]
      BY <2>3 DEF CommitChange, ChangedColumn
    <3> QED
      BY <1>1, <2>1, <3>1, <3>2 DEF Rows
  <2> QED
    BY <1>1, <2>2, <2>3, ChangeSteps
<1> DEFINE Columns ==
      \A r \in Requests : req[r].op \in {"email", "name"} /\ req'[r] = Done =>
          \A u \in Accounts : users'[u].pw = users[u].pw
                              /\ (req[r].op = "email" => users'[u].name = users[u].name)
                              /\ (req[r].op = "name" => users'[u].email = users[u].email)
<1>2. IInv /\ [Next]_vars => Columns
  BY <1>1
<1> QED
  BY <1>2, Invariance, PTL DEF Spec, ColumnsIndependent
=============================================================================
