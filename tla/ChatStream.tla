----------------------------- MODULE ChatStream -----------------------------
(***************************************************************************)
(* One POST /chat/stream of src/src/api/v1/agent/router.py: a task drives  *)
(* the agent run and puts its deltas on a queue, EventToolbox              *)
(* (src/src/agent/tools.py) puts tool activity on the same queue from      *)
(* inside the run, and the response generator turns the queue into         *)
(* server-sent events, records the turn and ends with done or error.  The  *)
(* client may leave at any time.                                           *)
(***************************************************************************)
EXTENDS Naturals, Sequences, FiniteSets

CONSTANTS
    MaxPuts,    \* bound: items a run puts before its last one
    MaxCalls    \* bound: tool calls of a run

ASSUME BoundsAssumption == MaxPuts \in Nat /\ MaxCalls \in Nat

VARIABLES
    run,        \* the driving task: "running", "returned" or "cancelled"
    calls,      \* tool calls started
    inflight,   \* tool calls not settled
    answered,   \* the run finished with stop_reason "answer"
    puts,       \* items put so far
    queue,      \* the asyncio.Queue
    body,       \* where the response generator is
    wire,       \* the events the client received
    gone,       \* the client has disconnected
    recorded    \* _record_turn has committed

agent == <<run, calls, inflight, answered, puts>>
response == <<body, wire, gone, recorded>>
vars == <<agent, queue, response>>

Init ==
    /\ run = "running"
    /\ calls = 0
    /\ inflight = {}
    /\ answered = FALSE
    /\ puts = 0
    /\ queue = <<>>
    /\ body = "get"
    /\ wire = <<>>
    /\ gone = FALSE
    /\ recorded = FALSE

-----------------------------------------------------------------------------
(* The run.  deepharness decides what it does next; the code decides what  *)
(* is put on the queue.                                                    *)

Item(kind, tool) == [kind |-> kind, n |-> puts + 1, tool |-> tool]

Put(item) ==
    /\ queue' = Append(queue, item)
    /\ puts' = item.n

Token ==
    /\ run = "running"
    /\ puts < MaxPuts
    /\ Put(Item("token", 0))
    /\ UNCHANGED <<run, calls, inflight, answered, response>>

CallTool ==
    /\ run = "running"
    /\ puts < MaxPuts
    /\ calls < MaxCalls
    /\ calls' = calls + 1
    /\ inflight' = inflight \cup {calls + 1}
    /\ Put(Item("tool_call", calls + 1))
    /\ UNCHANGED <<run, answered, response>>

\* Mutant: a failing tool call reports nothing before it re-raises.
SettleOnSuccess(c) ==
    /\ run = "running"
    /\ inflight' = inflight \ {c}
    /\ Put(Item("tool_result", c)) \/ UNCHANGED <<queue, puts>>
    /\ UNCHANGED <<run, calls, answered, response>>

\* Mutant: a call that is tried again reports each attempt.
SettleEachTime(c) ==
    /\ run = "running"
    /\ puts < MaxPuts
    /\ inflight' \in {inflight, inflight \ {c}}
    /\ \E kind \in {"tool_result", "tool_error"} : Put(Item(kind, c))
    /\ UNCHANGED <<run, calls, answered, response>>

\* The call's outcome; an exception is put and re-raised into deepharness.
SettleTool(c) ==
    /\ run = "running"
    /\ inflight' = inflight \ {c}
    /\ \E kind \in {"tool_result", "tool_error"} : Put(Item(kind, c))
    /\ UNCHANGED <<run, calls, answered, response>>

\* The last event of a run is Finished, with an answer or without.
Finish(a) ==
    /\ run = "running"
    /\ inflight = {}
    /\ answered' = a
    /\ Put(Item("finished", 0))
    /\ run' = "returned"
    /\ UNCHANGED <<calls, inflight, response>>

\* Mutant: an exception of the run is not put on the queue.
RaiseQuietly ==
    /\ run = "running"
    /\ inflight = {}
    /\ run' = "returned"
    /\ UNCHANGED <<calls, inflight, answered, puts, queue, response>>

Raise ==
    /\ run = "running"
    /\ inflight = {}
    /\ Put(Item("exception", 0))
    /\ run' = "returned"
    /\ UNCHANGED <<calls, inflight, answered, response>>

-----------------------------------------------------------------------------
(* The response generator. *)

Get(kinds) ==
    /\ body = "get"
    /\ queue # <<>>
    /\ Head(queue).kind \in kinds
    /\ queue' = Tail(queue)

\* What a client that has left is sent goes nowhere.
Send(event) == wire' = IF gone THEN wire ELSE Append(wire, event)

Steps == {"token", "tool_call", "tool_result", "tool_error"}

\* Mutant: tool activity is drained but only text is forwarded.
ForwardText ==
    /\ Get(Steps)
    /\ IF Head(queue).kind = "token" THEN Send(Head(queue)) ELSE UNCHANGED wire
    /\ UNCHANGED <<agent, body, gone, recorded>>

Forward ==
    /\ Get(Steps)
    /\ Send(Head(queue))
    /\ UNCHANGED <<agent, body, gone, recorded>>

\* Mutant: a finished run is recorded whether or not it has an answer.
TakeAnyFinished ==
    /\ Get({"finished"})
    /\ body' = "record"
    /\ UNCHANGED <<agent, wire, gone, recorded>>

TakeFinished ==
    /\ Get({"finished"})
    /\ body' = IF answered THEN "record" ELSE "done"
    /\ UNCHANGED <<agent, wire, gone, recorded>>

TakeException ==
    /\ Get({"exception"})
    /\ body' = "error"
    /\ UNCHANGED <<agent, wire, gone, recorded>>

Record ==
    /\ body = "record"
    /\ recorded' = TRUE
    /\ body' = "done"
    /\ UNCHANGED <<agent, queue, wire, gone>>

\* The commit raises; when the connection broke, it may have taken effect.
RecordRaises ==
    /\ body = "record"
    /\ recorded' \in BOOLEAN
    /\ body' = "error"
    /\ UNCHANGED <<agent, queue, wire, gone>>

Verdict == [kind |-> body, n |-> 0, tool |-> 0]

\* yield "done" or "error": the last event.
SendVerdict ==
    /\ body \in {"done", "error"}
    /\ Send(Verdict)
    /\ body' = "finally"
    /\ UNCHANGED <<agent, queue, gone, recorded>>

Cancelled ==
    /\ run' = IF run = "running" THEN "cancelled" ELSE run
    /\ inflight' = IF run = "running" THEN {} ELSE inflight
    /\ UNCHANGED <<calls, answered, puts>>

Close ==
    /\ body = "finally"
    /\ body' = "closed"
    /\ Cancelled
    /\ UNCHANGED <<queue, wire, gone, recorded>>

Disconnect ==
    /\ ~gone
    /\ body # "closed"
    /\ gone' = TRUE
    /\ UNCHANGED <<agent, queue, body, wire, recorded>>

\* Mutant: leaving the generator early skips the cancellation.
AbandonOnly ==
    /\ gone
    /\ body \in {"get", "record", "done", "error"}
    /\ body' = "closed"
    /\ recorded' \in IF body = "record" THEN BOOLEAN ELSE {recorded}
    /\ UNCHANGED <<agent, queue, wire, gone>>

\* The server cancels or closes the generator of a client that left, where
\* it stands; only its finally clause still runs.  A commit under way may or
\* may not have taken effect.
Abandon ==
    /\ gone
    /\ body \in {"get", "record", "done", "error"}
    /\ body' = "closed"
    /\ recorded' \in IF body = "record" THEN BOOLEAN ELSE {recorded}
    /\ Cancelled
    /\ UNCHANGED <<queue, wire, gone>>

-----------------------------------------------------------------------------
Run ==
    \/ Token
    \/ CallTool
    \/ \E c \in inflight : SettleTool(c)
    \/ \E a \in BOOLEAN : Finish(a)
    \/ Raise

Body ==
    \/ Forward \/ TakeFinished \/ TakeException
    \/ Record \/ RecordRaises \/ SendVerdict \/ Close

Next == Run \/ Body \/ Disconnect \/ Abandon

Spec == Init /\ [][Next]_vars

\* The event loop runs both tasks, and the server closes what was left.
FairSpec == Spec /\ WF_vars(Run) /\ WF_vars(Body) /\ WF_vars(Abandon)

-----------------------------------------------------------------------------
(* Properties. *)

Items(kinds) == [kind : kinds, n : Nat, tool : Nat]

\* Every variable has its type.
TypeOK ==
    /\ run \in {"running", "returned", "cancelled"}
    /\ calls \in 0..MaxCalls
    /\ inflight \subseteq 1..calls
    /\ answered \in BOOLEAN
    /\ puts \in Nat
    /\ queue \in Seq(Items(Steps \cup {"finished", "exception"}))
    /\ body \in {"get", "record", "done", "error", "finally", "closed"}
    /\ wire \in Seq(Items(Steps \cup {"done", "error"}))
    /\ gone \in BOOLEAN
    /\ recorded \in BOOLEAN

IsVerdict(e) == e.kind \in {"done", "error"}

\* The client sees the run as it happened: every step up to some point, none
\* missing and in order, and at most one verdict, at the end.  A verdict comes
\* after every step of the run.
WireIsFaithful ==
    \A i \in 1..Len(wire) :
        IF IsVerdict(wire[i])
          THEN i = Len(wire) /\ (wire[i].kind = "done" => puts = i)
          ELSE wire[i].n = i

\* What done means: the run answered and its turn is recorded, or it has no
\* answer and nothing was recorded.
DoneIsTruthful ==
    /\ recorded => answered
    /\ \A i \in 1..Len(wire) : wire[i].kind = "done" => recorded = answered

\* When the client is told done, every tool call it was shown has been shown
\* an outcome, later than the call.
CallsAreSettled ==
    \A i, k \in 1..Len(wire) :
        wire[i].kind = "tool_call" /\ wire[k].kind = "done" =>
            \E o \in i..k : /\ wire[o].kind \in {"tool_result", "tool_error"}
                            /\ wire[o].tool = wire[i].tool

Stage == CASE body = "finally" -> "told"
           [] body = "closed" -> "closed"
           [] OTHER -> "open"

View == INSTANCE StreamView WITH Tools <- 1..MaxCalls, stage <- Stage, saved <- recorded

\* The run, the queue and the generator implement what StreamView promises the
\* client: no call or outcome is shown twice or out of turn, and nothing after
\* the turn is saved but one verdict.
ImplementsStreamView == View!Spec

\* A response that has ended leaves no run behind: no further tool call, and
\* so no further crawl, is started on behalf of a client that left.
NothingAfterClose == [][body = "closed" => UNCHANGED <<calls, puts>>]_vars

\* The response always ends: neither a failing run, nor a failing commit, nor
\* a client that leaves keeps the generator waiting on its queue.
ResponseEnds == <>(body = "closed")
=============================================================================
