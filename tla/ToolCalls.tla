----------------------------- MODULE ToolCalls -----------------------------
(***************************************************************************)
(* What a chat and its tool calls need from the server that runs both.     *)
(* A chat request (src/src/api/v1/agent/router.py) keeps a database        *)
(* connection while the agent runs; a tool (src/src/agent/tools.py) is an  *)
(* HTTP request of OneCrawlerClient (src/src/agent/core/client.py) to the  *)
(* same server, whose handler takes another connection from the same pool  *)
(* (src/src/db/pg.py).  The client gives up after 30 seconds, the handler  *)
(* does not notice; the pool gives up after 30 seconds, too.  The calls    *)
(* that the model asks for in one turn may be under way at the same time.  *)
(***************************************************************************)
EXTENDS Naturals, FiniteSets

CONSTANTS
    Chats,          \* chat requests
    NoChat,         \* who makes a call that is not made yet
    Tools,          \* the kinds of tools that occur
    PoolSize,       \* connections of the pool, overflow included
    MaxCalls        \* bound: tool calls, of all chats

\* Tool calls, numbered as they are made.
Calls == 1..MaxCalls

\* Tools by what their endpoint does: "create" (create, scrape, retry) commits,
\* reads the row back and enqueues it; "cancel" commits and reads the row back, or
\* finds the job inactive and does neither; "delete" commits and answers 204;
\* "read" answers JSON; "export" answers an archive.
Writing == {"create", "cancel", "delete"}
AllTools == Writing \cup {"read", "export"}

ASSUME ChatsAssumption == NoChat \notin Chats /\ Chats \cap Calls = {}
ASSUME ToolsAssumption == Tools \subseteq AllTools
ASSUME PoolAssumption == PoolSize \in Nat \ {0}
ASSUME CallsAssumption == MaxCalls \in Nat

Requests == [tool : Tools, pc : {"waits", "works", "committed", "refreshed", "answered"},
             status : {"none", "ok", "refused", "failed"}, committed : BOOLEAN, queued : BOOLEAN]

VARIABLES
    chat,       \* where each chat is
    caller,     \* the chat that has made each call
    request,    \* the server's side of each call, while and after it is made
    told,       \* what the agent was told of it
    held        \* who holds a connection: chats and calls

chats == <<chat, caller>>
vars == <<chats, request, told, held>>

NoRequest == [tool |-> "none", pc |-> "none", status |-> "none",
              committed |-> FALSE, queued |-> FALSE]

Init ==
    /\ chat = [c \in Chats |-> "new"]
    /\ caller = [r \in Calls |-> NoChat]
    /\ request = [r \in Calls |-> NoRequest]
    /\ told = [r \in Calls |-> "none"]
    /\ held = {}

Open(c) == {r \in Calls : caller[r] = c /\ told[r] = "none"}
Goto(c, label) == chat' = [chat EXCEPT ![c] = label]

-----------------------------------------------------------------------------
(* The pool: a waiting request or chat gets a free connection or, after 30  *)
(* seconds, an error.                                                       *)

HasFree == Cardinality(held) < PoolSize

Take(x) == HasFree /\ held' = held \cup {x}

\* Mutant: never closed.
Leak(x) == UNCHANGED held

Release(x) == held' = held \ {x}

\* pool_timeout; it fires for a request that has found no connection.
PoolTimeout == ~HasFree

-----------------------------------------------------------------------------
(* A chat.  Its first statement, that of get_current_user, takes the        *)
(* connection; the first commit or the end of the request gives it back.    *)

Arrive(c) ==
    /\ chat[c] = "new"
    /\ Goto(c, "waits")
    /\ UNCHANGED <<caller, request, told, held>>

\* /chat keeps the connection it has read the history with.  A stream may run
\* without it: whether get_db is left before or after the body of the response
\* depends on FastAPI's version.
Run(c) ==
    /\ chat[c] = "waits"
    /\ Goto(c, "runs")
    /\ Take(c) \/ (HasFree /\ UNCHANGED held)
    /\ UNCHANGED <<caller, request, told>>

\* The agent failed or stopped without an answer: 502, or an error event.
Fail(c) ==
    /\ chat[c] = "runs"
    /\ Open(c) = {}
    /\ Goto(c, "ended")
    /\ Release(c)
    /\ UNCHANGED <<caller, request, told>>

Answer(c) ==
    /\ chat[c] = "runs"
    /\ Open(c) = {}
    /\ Goto(c, "records")
    /\ UNCHANGED <<caller, request, told, held>>

\* _record_turn; a chat without a connection needs one for it.
Record(c) ==
    /\ chat[c] = "records"
    /\ c \in held \/ HasFree
    /\ Goto(c, "ended")
    /\ Release(c)
    /\ UNCHANGED <<caller, request, told>>

GiveUp(c) ==
    /\ chat[c] \in {"waits", "records"}
    /\ c \notin held
    /\ PoolTimeout
    /\ Goto(c, "ended")
    /\ UNCHANGED <<caller, request, told, held>>

\* Leaving a stream cancels its run, and with it the calls in hand; whoever leaves
\* a /chat changes nothing.
Leave(c) ==
    /\ chat[c] \in {"runs", "records"}
    /\ Goto(c, "ended")
    /\ Release(c)
    /\ told' = [r \in Calls |-> IF r \in Open(c) THEN "cancelled" ELSE told[r]]
    /\ UNCHANGED <<caller, request>>

-----------------------------------------------------------------------------
(* The client of a tool call.                                               *)

\* The next number; other calls of the chat may be under way.
MayCall(c, r) ==
    /\ chat[c] = "runs"
    /\ caller[r] = NoChat
    /\ \A q \in 1..(r - 1) : caller[q] # NoChat

CallTool(c, r, tool) ==
    /\ MayCall(c, r)
    /\ caller' = [caller EXCEPT ![r] = c]
    /\ request' = [request EXCEPT ![r] = [NoRequest EXCEPT !.tool = tool, !.pc = "waits"]]
    /\ UNCHANGED <<chat, told, held>>

\* web_search asks another server, for a result or an error.
WebSearch(c, r) ==
    /\ MayCall(c, r)
    /\ caller' = [caller EXCEPT ![r] = c]
    /\ \E outcome \in {"result", "timeout"} : told' = [told EXCEPT ![r] = outcome]
    /\ UNCHANGED <<chat, request, held>>

\* Mutant: without the test for an empty body.
JsonOnly(r) ==
    CASE request[r].status \in {"refused", "failed"} -> request[r].status
      [] request[r].tool \in {"delete", "export"} -> "garbled"
      [] OTHER -> "result"

\* raise_for_status; {} for an empty body; response.json(), which fails on an archive.
Response(r) ==
    CASE request[r].status \in {"refused", "failed"} -> request[r].status
      [] request[r].tool = "export" -> "garbled"
      [] OTHER -> "result"

Waiting(r) == caller[r] # NoChat /\ told[r] = "none"

Receive(r) ==
    /\ Waiting(r)
    /\ request[r].pc = "answered"
    /\ told' = [told EXCEPT ![r] = Response(r)]
    /\ UNCHANGED <<chats, request, held>>

\* Mutant: timeout=None.
NoTimeout(r) == FALSE

\* timeout=30.0; the server goes on.
ClientTimeout(r) ==
    /\ Waiting(r)
    /\ told' = [told EXCEPT ![r] = "timeout"]
    /\ UNCHANGED <<chats, request, held>>

-----------------------------------------------------------------------------
(* The server's side of a tool call.                                        *)

Serve(r) ==
    /\ request[r].pc = "waits"
    /\ Take(r)
    /\ request' = [request EXCEPT ![r].pc = "works"]
    /\ UNCHANGED <<chats, told>>

Reply(r, status) == [request EXCEPT ![r].pc = "answered", ![r].status = status]

\* 401, 404, 409 or 422: nothing is written.
Refuse(r) ==
    /\ request[r].pc = "works"
    /\ request' = Reply(r, "refused")
    /\ Release(r)
    /\ UNCHANGED <<chats, told>>

AnswerRead(r) ==
    /\ request[r].pc = "works"
    /\ request[r].tool \notin Writing
    /\ request' = Reply(r, "ok")
    /\ Release(r)
    /\ UNCHANGED <<chats, told>>

\* Mutant: the session keeps its connection over the commit.
Kept(r) == UNCHANGED held

\* A commit gives the connection back.
AfterCommit(r) == Release(r)

\* delete_crawl answers 204 after its commit.
Delete(r) ==
    /\ request[r].pc = "works"
    /\ request[r].tool = "delete"
    /\ request' = [Reply(r, "ok") EXCEPT ![r].committed = TRUE]
    /\ Release(r)
    /\ UNCHANGED <<chats, told>>

\* create_crawl and cancel_crawl read the row back: db.refresh takes a connection anew.
Commit(r) ==
    /\ request[r].pc = "works"
    /\ request[r].tool \in {"create", "cancel"}
    /\ request' = [request EXCEPT ![r].pc = "committed", ![r].committed = TRUE]
    /\ AfterCommit(r)
    /\ UNCHANGED <<chats, told>>

\* The database refuses the commit, or the row to change is gone: 500.
CommitFails(r) ==
    /\ request[r].pc = "works"
    /\ request[r].tool \in Writing
    /\ request' = Reply(r, "failed")
    /\ Release(r)
    /\ UNCHANGED <<chats, told>>

\* cancel_crawl answers 200 for a job that is not active, and writes nothing.
CancelInactive(r) ==
    /\ request[r].pc = "works"
    /\ request[r].tool = "cancel"
    /\ request' = Reply(r, "ok")
    /\ Release(r)
    /\ UNCHANGED <<chats, told>>

Refresh(r) ==
    /\ request[r].pc = "committed"
    /\ Take(r)
    /\ request' = [request EXCEPT ![r].pc = "refreshed"]
    /\ UNCHANGED <<chats, told>>

\* A new job is enqueued, then the answer; without Redis, or with a row that was
\* deleted before it was read back, 500 for a change that stays.
Finish(r) ==
    /\ request[r].pc = "refreshed"
    /\ \/ request' = [Reply(r, "ok") EXCEPT ![r].queued = request[r].tool = "create"]
       \/ request' = Reply(r, "failed")
    /\ Release(r)
    /\ UNCHANGED <<chats, told>>

\* No connection, before the work or for the refresh: 500.
NoConnection(r) ==
    /\ request[r].pc \in {"waits", "committed"}
    /\ PoolTimeout
    /\ request' = Reply(r, "failed")
    /\ UNCHANGED <<chats, told, held>>

-----------------------------------------------------------------------------
ChatStep(c) == Run(c) \/ Fail(c) \/ Answer(c) \/ Record(c) \/ GiveUp(c)
ClientStep(r) == Receive(r) \/ ClientTimeout(r)
ServerStep(r) ==
    \/ Serve(r) \/ Refuse(r) \/ AnswerRead(r) \/ Delete(r)
    \/ Commit(r) \/ CommitFails(r) \/ CancelInactive(r)
    \/ Refresh(r) \/ Finish(r) \/ NoConnection(r)

Next ==
    \/ \E c \in Chats :
         \/ Arrive(c)
         \/ ChatStep(c)
         \/ Leave(c)
         \/ \E r \in Calls : WebSearch(c, r) \/ \E tool \in Tools : CallTool(c, r, tool)
    \/ \E r \in Calls : ClientStep(r) \/ ServerStep(r)

\* A writing handler at work may wait for a row lock, and for that nothing sets a
\* time; every other step of a handler comes.
LockWaiters == {r \in Calls : request[r].pc = "works" /\ request[r].tool \in Writing}

\* Timers fire, handlers go on, and the agent's step budget ends its run.
Fairness ==
    /\ \A c \in Chats : WF_vars(ChatStep(c))
    /\ \A r \in Calls : WF_vars(ClientStep(r)) /\ WF_vars(r \notin LockWaiters /\ ServerStep(r))

Spec == Init /\ [][Next]_vars /\ Fairness

-----------------------------------------------------------------------------
(* Properties. *)

\* Every variable has its type, and a connection is held by a chat that runs or a
\* handler that works, never by one that waits or is through.
TypeOK ==
    /\ chat \in [Chats -> {"new", "waits", "runs", "records", "ended"}]
    /\ caller \in [Calls -> Chats \cup {NoChat}]
    /\ request \in [Calls -> Requests \cup {NoRequest}]
    /\ told \in [Calls -> {"none", "result", "refused", "failed", "garbled", "timeout",
                           "cancelled"}]
    /\ held \subseteq {c \in Chats : chat[c] \in {"runs", "records"}}
                 \cup {r \in Calls : request[r].pc \in {"works", "refreshed"}}

\* What the agent is told is so, whatever else is under way: the result of a
\* create or a delete means that the change is committed, and a new job enqueued;
\* and only a timeout or an error 500 can hide a change.  An agent that repeats a
\* call it was refused, or whose answer it could not read, changes nothing twice.
\* After a timeout or a 500 it may; nothing in the code or its documents excludes that.
ToldTruth ==
    \A r \in Calls :
        /\ told[r] = "result" /\ request[r].tool \in {"create", "delete"} =>
             request[r].committed /\ (request[r].tool = "create" => request[r].queued)
        /\ told[r] \in {"refused", "garbled"} => ~request[r].committed

\* Every chat ends, however many wait for each other or for a row lock.
EveryChatEnds == \A c \in Chats : chat[c] = "waits" ~> chat[c] = "ended"

\* When the chats are through, the requests they left behind end as well and give
\* their connections back, but for those at a row lock.
PoolRecovers == (\A c \in Chats : chat[c] = "ended") ~> held \subseteq LockWaiters
=============================================================================
