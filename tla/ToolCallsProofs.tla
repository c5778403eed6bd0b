--------------------------- MODULE ToolCallsProofs ---------------------------
(***************************************************************************)
(* Safety of chats and their tool calls, for any number of chats and calls *)
(* made one after the other or at once, and any size of the pool: only who *)
(* runs or works holds a connection, and what an agent is told of a call   *)
(* is so.                                                                  *)
(***************************************************************************)
EXTENDS ToolCalls, TLAPS

USE ChatsAssumption, ToolsAssumption, PoolAssumption, CallsAssumption

\* What a handler has done by the time it is where it is.
Handled(q) ==
    /\ q.pc \in {"none", "waits", "works"} => ~q.committed
    /\ q.pc \in {"committed", "refreshed"} => q.tool \in {"create", "cancel"} /\ q.committed
    /\ q.status # "none" <=> q.pc = "answered"
    /\ q.committed => q.tool \in Writing
    /\ q.status = "ok" /\ q.tool \in {"create", "delete"} => q.committed
    /\ q.status = "ok" /\ q.tool = "create" => q.queued
    /\ q.status = "refused" => ~q.committed

\* What is told of a call is what its handler has answered; a search has none.
Told(r) ==
    /\ told[r] = "result" => request[r].tool = "none" \/ request[r].status = "ok"
    /\ told[r] = "refused" => request[r].status = "refused"
    /\ told[r] = "garbled" => request[r].tool = "export"

Holders == {c \in Chats : chat[c] \in {"runs", "records"}}
             \cup {r \in Calls : request[r].pc \in {"works", "refreshed"}}

Labels == {"new", "waits", "runs", "records", "ended"}
Outcomes == {"none", "result", "refused", "failed", "garbled", "timeout", "cancelled"}

\* A call no chat has made has no request, and nothing is told of it.
IInv ==
    /\ TypeOK
    /\ \A r \in Calls : Handled(request[r]) /\ Told(r)
    /\ \A r \in Calls : caller[r] = NoChat => request[r] = NoRequest /\ told[r] = "none"

-----------------------------------------------------------------------------
LEMMA InitInv == Init => IInv
<1> SUFFICES ASSUME Init PROVE IInv
  OBVIOUS
<1>1. TypeOK
  BY DEF Init, TypeOK
<1>2. \A r \in Calls : Handled(request[r]) /\ Told(r)
  BY DEF Init, Handled, Told, NoRequest
<1> QED
  BY <1>1, <1>2 DEF IInv, Init

\* A chat's own steps leave its calls alone.
LEMMA ChatInv ==
    ASSUME IInv, NEW c \in Chats, Arrive(c) \/ ChatStep(c)
    PROVE  IInv'
<1>1. UNCHANGED <<caller, request, told>>
  BY DEF Arrive, ChatStep, Run, Fail, Answer, Record, GiveUp
<1>2. chat \in [Chats -> Labels] /\ held \subseteq Holders
  BY DEF IInv, TypeOK, Holders, Labels
<1>3. chat' \in [Chats -> Labels] /\ held' \subseteq Holders'
  <2>1. CASE Arrive(c)
    BY <1>2, <2>1 DEF Arrive, Goto, Holders, Labels
  <2>2. CASE Run(c)
    BY <1>2, <2>2 DEF Run, Goto, Take, Holders, Labels
  <2>3. CASE Fail(c)
    BY <1>2, <2>3 DEF Fail, Goto, Release, Holders, Labels
  <2>4. CASE Answer(c)
    BY <1>2, <2>4 DEF Answer, Goto, Holders, Labels
  <2>5. CASE Record(c)
    BY <1>2, <2>5 DEF Record, Goto, Release, Holders, Labels
  <2>6. CASE GiveUp(c)
    BY <1>2, <2>6 DEF GiveUp, Goto, Holders, Labels
  <2> QED
    BY <2>1, <2>2, <2>3, <2>4, <2>5, <2>6 DEF ChatStep
<1>4. TypeOK'
  BY <1>1, <1>3 DEF IInv, TypeOK, Holders, Labels
<1>5. \A r \in Calls : Handled(request'[r]) /\ Told(r)'
  BY <1>1 DEF IInv, Told
<1> QED
  BY <1>1, <1>4, <1>5 DEF IInv

\* A chat that is left ends, and its open calls are told nothing.
LEMMA LeaveInv ==
    ASSUME IInv, NEW c \in Chats, Leave(c)
    PROVE  IInv'
<1>1. UNCHANGED <<caller, request>>
  BY DEF Leave
<1>2. chat' \in [Chats -> Labels] /\ held' \subseteq Holders'
  BY DEF IInv, TypeOK, Leave, Goto, Release, Holders, Labels
<1>3. told' \in [Calls -> Outcomes]
  BY DEF IInv, TypeOK, Leave, Outcomes
<1>4. \A r \in Calls : told'[r] = told[r] \/ (told'[r] = "cancelled" /\ caller[r] = c)
  BY DEF Leave, Open
<1>5. TypeOK'
  BY <1>1, <1>2, <1>3 DEF IInv, TypeOK, Holders, Labels, Outcomes
<1>6. \A r \in Calls : Handled(request'[r]) /\ Told(r)'
  BY <1>1, <1>4 DEF IInv, Told
<1>7. \A r \in Calls : caller'[r] = NoChat => request'[r] = NoRequest /\ told'[r] = "none"
  BY <1>1, <1>4 DEF IInv
<1> QED
  BY <1>5, <1>6, <1>7 DEF IInv

\* What the client tells is what the handler has answered, or that time is up.
LEMMA TellInv ==
    ASSUME IInv, NEW r \in Calls, Waiting(r), UNCHANGED <<chats, request, held>>,
           NEW what \in Outcomes, told' = [told EXCEPT ![r] = what],
           what = "result" => request[r].status = "ok",
           what = "refused" => request[r].status = "refused",
           what = "garbled" => request[r].tool = "export"
    PROVE  IInv'
<1>1. UNCHANGED <<chat, caller, request, held>>
  BY DEF chats
<1>2. \A x \in Calls : told'[x] = IF x = r THEN what ELSE told[x]
  BY DEF IInv, TypeOK
<1>3. told' \in [Calls -> Outcomes]
  BY DEF IInv, TypeOK, Outcomes
<1>4. TypeOK'
  BY <1>1, <1>3 DEF IInv, TypeOK, Outcomes
<1>5. \A x \in Calls : Handled(request'[x]) /\ Told(x)'
  BY <1>1, <1>2 DEF IInv, Told
<1>6. \A x \in Calls : caller'[x] = NoChat => request'[x] = NoRequest /\ told'[x] = "none"
  BY <1>1, <1>2 DEF IInv, Waiting
<1> QED
  BY <1>4, <1>5, <1>6 DEF IInv

LEMMA ClientInv ==
    ASSUME IInv, NEW r \in Calls, ClientStep(r)
    PROVE  IInv'
<1>1. CASE ClientTimeout(r)
  BY <1>1, TellInv DEF ClientTimeout, Outcomes
<1>2. CASE Receive(r)
  <2>1. request[r] \in Requests \cup {NoRequest} /\ Handled(request[r]) /\ request[r].pc = "answered"
    BY <1>2 DEF IInv, TypeOK, Receive
  <2>2. request[r].status \in {"ok", "refused", "failed"}
    BY <2>1 DEF Handled, Requests, NoRequest
  <2>3. /\ Response(r) \in Outcomes
        /\ Response(r) = "result" => request[r].status = "ok"
        /\ Response(r) = "refused" => request[r].status = "refused"
        /\ Response(r) = "garbled" => request[r].tool = "export"
    BY <2>2 DEF Response, Outcomes
  <2> QED
    BY <1>2, <2>3, TellInv DEF Receive
<1> QED
  BY <1>1, <1>2 DEF ClientStep

-----------------------------------------------------------------------------
\* A new call starts a handler; a search is over at once.
LEMMA CallToolInv ==
    ASSUME IInv, NEW c \in Chats, NEW r \in Calls, NEW tool \in Tools, CallTool(c, r, tool)
    PROVE  IInv'
<1> DEFINE q == [NoRequest EXCEPT !.tool = tool, !.pc = "waits"]
<1>1. q \in Requests /\ q.pc = "waits" /\ Handled(q)
  BY DEF NoRequest, Requests, Handled
<1>2. caller[r] = NoChat /\ request[r] = NoRequest /\ told[r] = "none"
  BY DEF IInv, CallTool, MayCall
<1>3. UNCHANGED <<chat, told, held>> /\ caller' = [caller EXCEPT ![r] = c]
  BY DEF CallTool
<1>4. request' = [request EXCEPT ![r] = q]
  BY DEF CallTool
<1> HIDE DEF q
<1>5. \A x \in Calls : /\ caller'[x] = IF x = r THEN c ELSE caller[x]
                       /\ request'[x] = IF x = r THEN q ELSE request[x]
  BY <1>3, <1>4 DEF IInv, TypeOK
<1>6. caller' \in [Calls -> Chats \cup {NoChat}] /\ request' \in [Calls -> Requests \cup {NoRequest}]
  BY <1>1, <1>3, <1>4 DEF IInv, TypeOK
<1>7. held' \subseteq Holders'
  BY <1>1, <1>2, <1>3, <1>5 DEF IInv, TypeOK, Holders, NoRequest
<1>8. TypeOK'
  BY <1>3, <1>6, <1>7 DEF IInv, TypeOK, Holders
<1>9. \A x \in Calls : Handled(request'[x]) /\ Told(x)'
  BY <1>1, <1>2, <1>3, <1>5 DEF IInv, Told
<1>10. \A x \in Calls : caller'[x] = NoChat => request'[x] = NoRequest /\ told'[x] = "none"
  BY <1>3, <1>5 DEF IInv
<1> QED
  BY <1>8, <1>9, <1>10 DEF IInv

LEMMA WebSearchInv ==
    ASSUME IInv, NEW c \in Chats, NEW r \in Calls, WebSearch(c, r)
    PROVE  IInv'
<1>1. PICK what \in {"result", "timeout"} : told' = [told EXCEPT ![r] = what]
  BY DEF WebSearch
<1>2. caller[r] = NoChat /\ request[r] = NoRequest
  BY DEF IInv, WebSearch, MayCall
<1>3. UNCHANGED <<chat, request, held>> /\ caller' = [caller EXCEPT ![r] = c]
  BY DEF WebSearch
<1>4. \A x \in Calls : /\ caller'[x] = IF x = r THEN c ELSE caller[x]
                       /\ told'[x] = IF x = r THEN what ELSE told[x]
  BY <1>1, <1>3 DEF IInv, TypeOK
<1>5. caller' \in [Calls -> Chats \cup {NoChat}] /\ told' \in [Calls -> Outcomes]
  BY <1>1, <1>3 DEF IInv, TypeOK, Outcomes
<1>6. TypeOK'
  BY <1>3, <1>5 DEF IInv, TypeOK, Outcomes
<1>7. \A x \in Calls : Handled(request'[x]) /\ Told(x)'
  BY <1>2, <1>3, <1>4 DEF IInv, Told, NoRequest
<1>8. \A x \in Calls : caller'[x] = NoChat => request'[x] = NoRequest /\ told'[x] = "none"
  BY <1>3, <1>4 DEF IInv
<1> QED
  BY <1>6, <1>7, <1>8 DEF IInv

-----------------------------------------------------------------------------
\* A handler takes its call from one legal state to another, before it has answered.
LEMMA HandlerInv ==
    ASSUME IInv, NEW r \in Calls, NEW q \in Requests, Handled(q),
           request[r].pc \notin {"none", "answered"}, q.tool = request[r].tool,
           request' = [request EXCEPT ![r] = q],
           held' \subseteq Holders', UNCHANGED <<chats, told>>
    PROVE  IInv'
<1>1. UNCHANGED <<chat, caller, told>> /\ \A x \in Calls : request'[x] = IF x = r THEN q ELSE request[x]
  BY DEF IInv, TypeOK, chats
<1>2. TypeOK'
  BY <1>1 DEF IInv, TypeOK, Holders
<1>3. \A x \in Calls : Handled(request'[x]) /\ Told(x)'
  <2>1. request[r].status = "none" /\ request[r].tool # "none"
    BY DEF IInv, TypeOK, Handled, Requests, NoRequest, AllTools, Writing
  <2> QED
    BY <1>1, <2>1 DEF IInv, Told
<1>4. \A x \in Calls : caller'[x] = NoChat => request'[x] = NoRequest /\ told'[x] = "none"
  BY <1>1 DEF IInv, NoRequest
<1> QED
  BY <1>2, <1>3, <1>4 DEF IInv

LEMMA ServerInv ==
    ASSUME IInv, NEW r \in Calls, ServerStep(r)
    PROVE  IInv'
<1>1. request[r] \in Requests \cup {NoRequest} /\ Handled(request[r]) /\ held \subseteq Holders
      /\ request \in [Calls -> Requests \cup {NoRequest}]
  BY DEF IInv, TypeOK, Holders
<1>2. UNCHANGED <<chats, told>>
  BY DEF ServerStep, Serve, Refuse, AnswerRead, Delete, Commit, CommitFails,
         CancelInactive, Refresh, Finish, NoConnection
<1>3. request[r].pc \notin {"none", "answered"}
  BY DEF ServerStep, Serve, Refuse, AnswerRead, Delete, Commit, CommitFails,
         CancelInactive, Refresh, Finish, NoConnection
<1>4. request[r] \in Requests
  BY <1>1, <1>3 DEF NoRequest
<1>5. \E q \in Requests : /\ request' = [request EXCEPT ![r] = q]
                          /\ Handled(q) /\ q.tool = request[r].tool
                          /\ held' \subseteq held \cup {r}
                          /\ r \in held' => \/ q.pc \in {"works", "refreshed"}
                                            \/ r \in Chats /\ chat[r] \in {"runs", "records"}
  <2>1. CASE Serve(r)
    <3> DEFINE q == [request[r] EXCEPT !.pc = "works"]
    <3>1. q \in Requests /\ Handled(q) /\ q.tool = request[r].tool /\ q.pc = "works"
      BY <1>1, <1>4, <2>1 DEF Serve, Handled, Requests
    <3>2. request' = [request EXCEPT ![r] = q] /\ held' = held \cup {r}
      BY <1>1, <2>1 DEF Serve, Take
    <3> HIDE DEF q
    <3> QED
      BY <3>1, <3>2
  <2>2. CASE Refuse(r)
    <3> DEFINE q == [request[r] EXCEPT !.pc = "answered", !.status = "refused"]
    <3>1. q \in Requests /\ Handled(q) /\ q.tool = request[r].tool
      BY <1>1, <1>4, <2>2 DEF Refuse, Handled, Requests
    <3>2. request' = [request EXCEPT ![r] = q] /\ held' = held \ {r}
      BY <1>1, <2>2 DEF Refuse, Reply, Release
    <3> HIDE DEF q
    <3> QED
      BY <3>1, <3>2
  <2>3. CASE AnswerRead(r)
    <3> DEFINE q == [request[r] EXCEPT !.pc = "answered", !.status = "ok"]
    <3>1. q \in Requests /\ Handled(q) /\ q.tool = request[r].tool
      BY <1>1, <1>4, <2>3 DEF AnswerRead, Handled, Requests, Writing
    <3>2. request' = [request EXCEPT ![r] = q] /\ held' = held \ {r}
      BY <1>1, <2>3 DEF AnswerRead, Reply, Release
    <3> HIDE DEF q
    <3> QED
      BY <3>1, <3>2
  <2>4. CASE Delete(r)
    <3> DEFINE q == [request[r] EXCEPT !.pc = "answered", !.status = "ok", !.committed = TRUE]
    <3>1. q \in Requests /\ Handled(q) /\ q.tool = request[r].tool
      BY <1>1, <1>4, <2>4 DEF Delete, Handled, Requests, Writing
    <3>2. request' = [request EXCEPT ![r] = q] /\ held' = held \ {r}
      BY <1>1, <2>4 DEF Delete, Reply, Release
    <3> HIDE DEF q
    <3> QED
      BY <3>1, <3>2
  <2>5. CASE Commit(r)
    <3> DEFINE q == [request[r] EXCEPT !.pc = "committed", !.committed = TRUE]
    <3>1. q \in Requests /\ Handled(q) /\ q.tool = request[r].tool
      BY <1>1, <1>4, <2>5 DEF Commit, Handled, Requests, Writing
    <3>2. request' = [request EXCEPT ![r] = q] /\ held' = held \ {r}
      BY <1>1, <2>5 DEF Commit, AfterCommit, Release
    <3> HIDE DEF q
    <3> QED
      BY <3>1, <3>2
  <2>6. CASE Refresh(r)
    <3> DEFINE q == [request[r] EXCEPT !.pc = "refreshed"]
    <3>1. q \in Requests /\ Handled(q) /\ q.tool = request[r].tool /\ q.pc = "refreshed"
      BY <1>1, <1>4, <2>6 DEF Refresh, Handled, Requests
    <3>2. request' = [request EXCEPT ![r] = q] /\ held' = held \cup {r}
      BY <1>1, <2>6 DEF Refresh, Take
    <3> HIDE DEF q
    <3> QED
      BY <3>1, <3>2
  <2>7. CASE Finish(r)
    <3> DEFINE sent == [request[r] EXCEPT !.pc = "answered", !.status = "ok",
                                          !.queued = request[r].tool = "create"]
               lost == [request[r] EXCEPT !.pc = "answered", !.status = "failed"]
    <3>1. sent \in Requests /\ Handled(sent) /\ sent.tool = request[r].tool
      BY <1>1, <1>4, <2>7 DEF Finish, Handled, Requests, Writing
    <3>2. lost \in Requests /\ Handled(lost) /\ lost.tool = request[r].tool
      BY <1>1, <1>4, <2>7 DEF Finish, Handled, Requests, Writing
    <3>3. /\ request' = [request EXCEPT ![r] = sent] \/ request' = [request EXCEPT ![r] = lost]
          /\ held' = held \ {r}
      BY <1>1, <2>7 DEF Finish, Reply, Release
    <3> HIDE DEF sent, lost
    <3> QED
      BY <3>1, <3>2, <3>3
  <2>8. CASE NoConnection(r)
    <3> DEFINE q == [request[r] EXCEPT !.pc = "answered", !.status = "failed"]
    <3>1. q \in Requests /\ Handled(q) /\ q.tool = request[r].tool
      BY <1>1, <1>4, <2>8 DEF NoConnection, Handled, Requests
    <3>2. request' = [request EXCEPT ![r] = q] /\ held' = held
      BY <1>1, <2>8 DEF NoConnection, Reply
    <3>3. r \in held => r \in Chats /\ chat[r] \in {"runs", "records"}
      BY <1>1, <2>8 DEF NoConnection, Holders
    <3> HIDE DEF q
    <3> QED
      BY <3>1, <3>2, <3>3
  <2>9. CASE CommitFails(r)
    <3> DEFINE q == [request[r] EXCEPT !.pc = "answered", !.status = "failed"]
    <3>1. q \in Requests /\ Handled(q) /\ q.tool = request[r].tool
      BY <1>1, <1>4, <2>9 DEF CommitFails, Handled, Requests
    <3>2. request' = [request EXCEPT ![r] = q] /\ held' = held \ {r}
      BY <1>1, <2>9 DEF CommitFails, Reply, Release
    <3> HIDE DEF q
    <3> QED
      BY <3>1, <3>2
  <2>10. CASE CancelInactive(r)
    <3> DEFINE q == [request[r] EXCEPT !.pc = "answered", !.status = "ok"]
    <3>1. q \in Requests /\ Handled(q) /\ q.tool = request[r].tool
      BY <1>1, <1>4, <2>10 DEF CancelInactive, Handled, Requests
    <3>2. request' = [request EXCEPT ![r] = q] /\ held' = held \ {r}
      BY <1>1, <2>10 DEF CancelInactive, Reply, Release
    <3> HIDE DEF q
    <3> QED
      BY <3>1, <3>2
  <2> QED
    BY <2>1, <2>2, <2>3, <2>4, <2>5, <2>6, <2>7, <2>8, <2>9, <2>10
       DEF ServerStep
<1> QED
  BY <1>1, <1>2, <1>3, <1>5, HandlerInv DEF Holders, chats

-----------------------------------------------------------------------------
LEMMA NextInv == IInv /\ [Next]_vars => IInv'
<1> SUFFICES ASSUME IInv, [Next]_vars PROVE IInv'
  OBVIOUS
<1>1. ASSUME NEW c \in Chats, Arrive(c) \/ ChatStep(c) PROVE IInv'
  BY <1>1, ChatInv
<1>2. ASSUME NEW c \in Chats, Leave(c) PROVE IInv'
  BY <1>2, LeaveInv
<1>3. ASSUME NEW c \in Chats, NEW r \in Calls, NEW tool \in Tools, CallTool(c, r, tool) PROVE IInv'
  BY <1>3, CallToolInv
<1>4. ASSUME NEW c \in Chats, NEW r \in Calls, WebSearch(c, r) PROVE IInv'
  BY <1>4, WebSearchInv
<1>5. ASSUME NEW r \in Calls, ClientStep(r) PROVE IInv'
  BY <1>5, ClientInv
<1>6. ASSUME NEW r \in Calls, ServerStep(r) PROVE IInv'
  BY <1>6, ServerInv
<1>7. CASE UNCHANGED vars
  BY <1>7 DEF vars, chats, IInv, TypeOK, Told
<1> QED
  BY <1>1, <1>2, <1>3, <1>4, <1>5, <1>6, <1>7 DEF Next

LEMMA Invariance == Spec => []IInv
<1> QED
  BY InitInv, NextInv, PTL DEF Spec

\* Every variable has its type, and only who runs or works holds a connection.
THEOREM TypeCorrect == Spec => []TypeOK
<1>1. IInv => TypeOK
  BY DEF IInv
<1> QED
  BY <1>1, Invariance, PTL

\* What an agent is told of a call is so, and only a timeout or an error 500 can
\* hide a change, however its calls overlap (tools.py, client.py and the handlers).
THEOREM TruthTold == Spec => []ToldTruth
<1>1. IInv => ToldTruth
  <2>1. ASSUME IInv, NEW r \in Calls
        PROVE  Handled(request[r]) /\ Told(r) /\ request[r] \in Requests \cup {NoRequest}
    BY <2>1 DEF IInv, TypeOK
  <2> QED
    BY <2>1 DEF ToldTruth, Handled, Told, Writing, Requests, NoRequest
<1> QED
  BY <1>1, Invariance, PTL
=============================================================================
