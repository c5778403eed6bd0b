-------------------------- MODULE ChatStreamProofs --------------------------
(***************************************************************************)
(* Safety of one streamed response, for runs of any length with any number *)
(* of tool calls: what the client is sent is the run as it happened, done  *)
(* is told truthfully, an ended response has ended its run, and the whole  *)
(* implements StreamView.                                                  *)
(***************************************************************************)
EXTENDS ChatStream, SequenceTheorems, TLAPS

USE BoundsAssumption

Ends == {"finished", "exception"}
Outcome(e, c) == e.kind \in {"tool_result", "tool_error"} /\ e.tool = c

\* The queue holds the latest items in the order they were put.
Numbered ==
    /\ Len(queue) <= puts
    /\ \A i \in 1..Len(queue) : queue[i].n = puts - Len(queue) + i

\* Where the generator is says where the run is: while it waits, the end of
\* the run is exactly the last item; after that item the queue is empty.
Phase ==
    /\ run = "returned" => inflight = {}
    /\ body = "get" =>
         /\ run # "cancelled"
         /\ run = "returned" => queue # <<>>
         /\ \A i \in 1..Len(queue) :
              queue[i].kind \in Ends <=> run = "returned" /\ i = Len(queue)
    /\ body \in {"record", "done", "error", "finally"} =>
         run = "returned" /\ queue = <<>> /\ puts > 0
    /\ body = "closed" => run # "running"

\* What is on the wire is the beginning of what was put; a client that has not
\* left has everything the generator took.
Delivered ==
    /\ \A i \in 1..Len(wire) : ~IsVerdict(wire[i]) => wire[i].n = i
    /\ \A i \in 1..Len(wire) : IsVerdict(wire[i]) =>
         /\ i = Len(wire)
         /\ body \in {"finally", "closed"}
         /\ run = "returned"
         /\ wire[i].kind = "done" => puts = i /\ recorded = answered
    /\ ~gone /\ body = "get" => Len(wire) = puts - Len(queue)
    /\ ~gone /\ body \in {"record", "done", "error"} => Len(wire) = puts - 1

\* The turn is recorded only where the run has answered.
Honest ==
    /\ recorded => answered
    /\ body \in {"get", "record"} => ~recorded
    /\ body = "record" => answered
    /\ body = "done" => recorded = answered

\* A tool call that was put is in flight, or its outcome was put after it.
Traced ==
    ~gone /\ body \in {"get", "record", "done", "error"} =>
        /\ \A i \in 1..Len(wire) : wire[i].kind = "tool_call" =>
             \/ wire[i].tool \in inflight
             \/ \E o \in i..Len(wire) : Outcome(wire[o], wire[i].tool)
             \/ \E o \in 1..Len(queue) : Outcome(queue[o], wire[i].tool)
        /\ \A i \in 1..Len(queue) : queue[i].kind = "tool_call" =>
             \/ queue[i].tool \in inflight
             \/ \E o \in i..Len(queue) : Outcome(queue[o], queue[i].tool)

IInv ==
    /\ TypeOK /\ Numbered /\ Phase /\ Delivered /\ Honest /\ Traced
    /\ CallsAreSettled

-----------------------------------------------------------------------------
Rows == Items(Steps \cup {"finished", "exception"})
Events == Items(Steps \cup {"done", "error"})

LEMMA InitInv == Init => IInv
<1> SUFFICES ASSUME Init PROVE IInv
  OBVIOUS
<1>1. queue \in Seq(Rows) /\ wire \in Seq(Events)
  BY EmptySeq DEF Init
<1>2. Len(queue) = 0 /\ Len(wire) = 0
  BY EmptySeq DEF Init
<1>3. TypeOK
  <2>1. calls \in 0..MaxCalls /\ inflight \subseteq 1..calls
    BY DEF Init
  <2>2. puts \in Nat /\ answered \in BOOLEAN /\ gone \in BOOLEAN /\ recorded \in BOOLEAN
    BY DEF Init
  <2>3. /\ run \in {"running", "returned", "cancelled"}
        /\ body \in {"get", "record", "done", "error", "finally", "closed"}
    BY DEF Init
  <2> QED
    BY <1>1, <2>1, <2>2, <2>3 DEF TypeOK, Rows, Events
<1>4. Numbered /\ Delivered
  <2>1. puts = 0 /\ body = "get"
    BY DEF Init
  <2> QED
    BY <1>2, <2>1 DEF Numbered, Delivered
<1>5. Phase /\ Honest
  BY <1>2 DEF Init, Phase, Honest
<1>6. Traced /\ CallsAreSettled
  BY <1>2 DEF Init, Traced, CallsAreSettled
<1> QED
  BY <1>3, <1>4, <1>5, <1>6 DEF IInv

\* While the generator waits, or has yet to tell its verdict, none is sent.
LEMMA NoVerdictYet ==
    ASSUME IInv, body \notin {"finally", "closed"}, NEW i \in 1..Len(wire)
    PROVE  ~IsVerdict(wire[i])
BY DEF IInv, Delivered

-----------------------------------------------------------------------------
(* Steps of the run. *)

\* A step of the run that puts item e keeps the invariant if the run ends
\* exactly with an end item, and no call is forgotten without an outcome.
LEMMA PutStep ==
    ASSUME IInv, run = "running", UNCHANGED response,
           NEW e \in Rows, e.n = puts + 1, Put(e), TypeOK',
           run' \in {"running", "returned"},
           run' = "returned" <=> e.kind \in Ends,
           run' = "returned" => inflight' = {},
           \A c \in inflight : c \in inflight' \/ Outcome(e, c),
           e.kind = "tool_call" => e.tool \in inflight'
    PROVE  IInv'
<1>1. body = "get"
  BY DEF IInv, Phase, TypeOK
<1>2. queue \in Seq(Rows) /\ wire \in Seq(Events) /\ puts \in Nat
  BY DEF IInv, TypeOK, Rows, Events
<1>3. /\ Len(queue') = Len(queue) + 1
      /\ queue'[Len(queue) + 1] = e
      /\ queue' # <<>>
      /\ puts' = puts + 1
  BY <1>2, AppendProperties DEF Put
<1>4. \A i \in 1..Len(queue) : queue'[i] = queue[i]
  BY <1>2, AppendProperties DEF Put
<1>5. Len(queue) \in Nat /\ Len(wire) \in Nat
  BY <1>2, LenProperties
<1>6. Numbered'
  <2>1. Len(queue') <= puts'
    BY <1>2, <1>3, <1>5 DEF IInv, Numbered
  <2>2. ASSUME NEW i \in 1..Len(queue') PROVE queue'[i].n = puts' - Len(queue') + i
    <3>1. CASE i = Len(queue) + 1
      BY <1>2, <1>3, <1>5, <3>1
    <3>2. CASE i \in 1..Len(queue)
      <4>1. queue'[i] = queue[i] /\ queue[i].n = puts - Len(queue) + i
        BY <1>4, <3>2 DEF IInv, Numbered
      <4> QED
        BY <1>2, <1>3, <1>5, <3>2, <4>1
    <3> QED
      BY <1>3, <1>5, <3>1, <3>2
  <2> QED
    BY <2>1, <2>2 DEF Numbered
<1>7. Phase'
  <2>1. ASSUME NEW i \in 1..Len(queue')
        PROVE  queue'[i].kind \in Ends <=> run' = "returned" /\ i = Len(queue')
    BY <1>1, <1>3, <1>4, <1>5 DEF IInv, Phase
  <2> QED
    BY <1>1, <1>3, <2>1 DEF Phase, response
<1>8. Delivered'
  BY <1>1, <1>2, <1>3, <1>5, NoVerdictYet DEF IInv, Delivered, IsVerdict, response
<1>9. Honest'
  BY <1>1 DEF IInv, Honest, response
<1>10. Traced'
  <2>1. ASSUME NEW i \in 1..Len(wire), wire[i].kind = "tool_call", ~gone
        PROVE  \/ wire[i].tool \in inflight'
               \/ \E o \in i..Len(wire) : Outcome(wire[o], wire[i].tool)
               \/ \E o \in 1..Len(queue') : Outcome(queue'[o], wire[i].tool)
    <3>1. CASE wire[i].tool \in inflight
      BY <1>3, <1>5, <3>1
    <3>2. CASE \E o \in 1..Len(queue) : Outcome(queue[o], wire[i].tool)
      BY <1>3, <1>4, <1>5, <3>2
    <3> QED
      BY <1>1, <2>1, <3>1, <3>2 DEF IInv, Traced
  <2>2. ASSUME NEW i \in 1..Len(queue'), queue'[i].kind = "tool_call", ~gone
        PROVE  \/ queue'[i].tool \in inflight'
               \/ \E o \in i..Len(queue') : Outcome(queue'[o], queue'[i].tool)
    <3>1. CASE i = Len(queue) + 1
      BY <1>3, <2>2, <3>1
    <3>2. CASE i \in 1..Len(queue) /\ queue[i].tool \in inflight
      BY <1>3, <1>4, <1>5, <3>2
    <3>3. CASE /\ i \in 1..Len(queue)
               /\ \E o \in i..Len(queue) : Outcome(queue[o], queue[i].tool)
      BY <1>3, <1>4, <1>5, <3>3
    <3>4. i = Len(queue) + 1 \/ i \in 1..Len(queue)
      BY <1>3, <1>5
    <3> QED
      BY <1>1, <1>4, <2>2, <3>1, <3>2, <3>3, <3>4 DEF IInv, Traced
  <2> QED
    BY <2>1, <2>2 DEF Traced, response
<1>11. CallsAreSettled'
  BY DEF IInv, CallsAreSettled, response
<1> QED
  BY <1>6, <1>7, <1>8, <1>9, <1>10, <1>11 DEF IInv

LEMMA ItemInRows ==
    ASSUME puts \in Nat, NEW k \in Steps \cup {"finished", "exception"}, NEW c \in Nat
    PROVE  /\ Item(k, c) \in Rows
           /\ Item(k, c).n = puts + 1
           /\ Item(k, c).kind = k
           /\ Item(k, c).tool = c
BY DEF Item, Rows, Items

\* What is put is well-typed, and the other variables keep their types.
LEMMA PutType ==
    ASSUME TypeOK, NEW e \in Rows, e.n = puts + 1, Put(e), UNCHANGED response,
           run' \in {"running", "returned", "cancelled"}, calls' \in 0..MaxCalls,
           inflight' \subseteq 1..calls', answered' \in BOOLEAN
    PROVE  TypeOK'
<1>1. queue' \in Seq(Rows)
  BY AppendProperties DEF TypeOK, Put, Rows
<1>2. puts' \in Nat
  BY DEF TypeOK, Put
<1> QED
  BY <1>1, <1>2 DEF TypeOK, Rows, response

LEMMA RunStep == IInv /\ Run => IInv'
<1> SUFFICES ASSUME IInv, Run PROVE IInv'
  OBVIOUS
<1>1. TypeOK /\ puts \in Nat /\ calls \in Nat /\ inflight \subseteq 1..calls
  BY DEF IInv, TypeOK
<1>2. CASE Token
  <2>1. TypeOK'
    BY <1>1, <1>2, PutType, ItemInRows DEF Token, TypeOK, Steps
  <2> QED
    BY <1>1, <1>2, <2>1, PutStep, ItemInRows DEF Token, Steps, Ends
<1>3. CASE CallTool
  <2>1. TypeOK'
    BY <1>1, <1>3, PutType, ItemInRows DEF CallTool, TypeOK, Steps
  <2> QED
    BY <1>1, <1>3, <2>1, PutStep, ItemInRows DEF CallTool, Steps, Ends
<1>4. ASSUME NEW c \in inflight, SettleTool(c) PROVE IInv'
  <2>1. PICK k \in {"tool_result", "tool_error"} : Put(Item(k, c))
    BY <1>4 DEF SettleTool
  <2>2. c \in Nat
    BY <1>1
  <2>3. TypeOK'
    BY <1>1, <1>4, <2>1, <2>2, PutType, ItemInRows DEF SettleTool, TypeOK, Steps
  <2>4. \A d \in inflight : d \in inflight' \/ Outcome(Item(k, c), d)
    BY <1>1, <1>4, <2>2, ItemInRows DEF SettleTool, Outcome, Steps
  <2> QED
    BY <1>1, <1>4, <2>1, <2>2, <2>3, <2>4, PutStep, ItemInRows DEF SettleTool, Steps, Ends
<1>5. ASSUME NEW a \in BOOLEAN, Finish(a) PROVE IInv'
  <2>1. TypeOK'
    BY <1>1, <1>5, PutType, ItemInRows DEF Finish, TypeOK
  <2> QED
    BY <1>1, <1>5, <2>1, PutStep, ItemInRows DEF Finish, Ends
<1>6. CASE Raise
  <2>1. TypeOK'
    BY <1>1, <1>6, PutType, ItemInRows DEF Raise, TypeOK
  <2> QED
    BY <1>1, <1>6, <2>1, PutStep, ItemInRows DEF Raise, Ends
<1> QED
  BY <1>2, <1>3, <1>4, <1>5, <1>6 DEF Run

-----------------------------------------------------------------------------
(* Steps of the generator. *)

\* Taking the first item: it is the one after those taken before, the others
\* move up, and it ends the run exactly when it is the only one left.
LEMMA GetFacts ==
    ASSUME IInv, NEW kinds, Get(kinds), UNCHANGED puts
    PROVE  /\ body = "get"
           /\ queue \in Seq(Rows) /\ wire \in Seq(Events) /\ puts \in Nat
           /\ Len(queue) \in Nat \ {0} /\ Len(wire) \in Nat
           /\ Head(queue) = queue[1] /\ Head(queue) \in Rows
           /\ Head(queue).n = puts - Len(queue) + 1
           /\ Head(queue).kind \in Ends <=> run = "returned" /\ Len(queue) = 1
           /\ queue' \in Seq(Rows)
           /\ Len(queue') = Len(queue) - 1
           /\ \A i \in 1..Len(queue') : queue'[i] = queue[i + 1]
           /\ Numbered'
<1>1. /\ body = "get" /\ queue # <<>> /\ queue' = Tail(queue)
      /\ queue \in Seq(Rows) /\ wire \in Seq(Events) /\ puts \in Nat
  BY DEF IInv, TypeOK, Rows, Events, Get
<1>2. Len(queue) \in Nat \ {0} /\ Len(wire) \in Nat
  BY <1>1, EmptySeq, LenProperties
<1>3. /\ queue' \in Seq(Rows)
      /\ Len(queue') = Len(queue) - 1
      /\ \A i \in 1..Len(queue') : queue'[i] = queue[i + 1]
  BY <1>1, HeadTailProperties
<1>4. Head(queue) = queue[1] /\ Head(queue) \in Rows
  BY <1>1, <1>2, HeadTailProperties, ElementOfSeq
<1>5. 1 \in 1..Len(queue)
  BY <1>2
<1>6. Head(queue).n = puts - Len(queue) + 1
  BY <1>4, <1>5 DEF IInv, Numbered
<1>7. Head(queue).kind \in Ends <=> run = "returned" /\ Len(queue) = 1
  BY <1>1, <1>4, <1>5 DEF IInv, Phase
<1>8. Numbered'
  <2>1. Len(queue') <= puts'
    BY <1>1, <1>2, <1>3 DEF IInv, Numbered
  <2>2. ASSUME NEW i \in 1..Len(queue') PROVE queue'[i].n = puts' - Len(queue') + i
    <3>1. i + 1 \in 1..Len(queue)
      BY <1>2, <1>3
    <3>2. queue[i + 1].n = puts - Len(queue) + (i + 1)
      BY <3>1 DEF IInv, Numbered
    <3> QED
      BY <1>1, <1>2, <1>3, <3>2
  <2> QED
    BY <2>1, <2>2 DEF Numbered
<1> QED
  BY <1>1, <1>2, <1>3, <1>4, <1>6, <1>7, <1>8

\* A step of the run is passed on to a client that is still there.
LEMMA ForwardStep == IInv /\ Forward => IInv'
<1> SUFFICES ASSUME IInv, Forward PROVE IInv'
  OBVIOUS
<1> DEFINE h == Head(queue)
<1>1. /\ Get(Steps) /\ Send(h) /\ h.kind \in Steps
      /\ UNCHANGED agent /\ UNCHANGED puts
      /\ body' = body /\ gone' = gone /\ recorded' = recorded
  BY DEF Forward, Get, agent
<1>2. /\ body = "get" /\ Numbered'
      /\ queue \in Seq(Rows) /\ wire \in Seq(Events) /\ puts \in Nat
      /\ Len(queue) \in Nat \ {0} /\ Len(wire) \in Nat
      /\ h = queue[1] /\ h \in Rows /\ h.n = puts - Len(queue) + 1
      /\ h.kind \in Ends <=> run = "returned" /\ Len(queue) = 1
      /\ queue' \in Seq(Rows)
      /\ Len(queue') = Len(queue) - 1
      /\ \A i \in 1..Len(queue') : queue'[i] = queue[i + 1]
  BY <1>1, GetFacts
<1>3. h \in Events /\ h.kind \notin Ends /\ ~IsVerdict(h)
  BY <1>1, <1>2 DEF Rows, Events, Items, Steps, Ends, IsVerdict
<1>4. Phase'
  <2>1. run = "returned" => queue' # <<>>
    BY <1>2, <1>3, EmptySeq
  <2>2. ASSUME NEW i \in 1..Len(queue')
        PROVE  queue'[i].kind \in Ends <=> run = "returned" /\ i = Len(queue')
    <3>1. i + 1 \in 1..Len(queue) /\ (i + 1 = Len(queue) <=> i = Len(queue'))
      BY <1>2
    <3> QED
      BY <1>2, <3>1 DEF IInv, Phase
  <2> QED
    BY <1>1, <1>2, <2>1, <2>2 DEF IInv, Phase, agent
<1>5. CASE gone
  <2>1. wire' = wire
    BY <1>1, <1>5 DEF Send
  <2>2. TypeOK'
    BY <1>1, <1>2, <2>1 DEF IInv, TypeOK, agent, Rows
  <2>3. Delivered' /\ Honest' /\ Traced' /\ CallsAreSettled'
    BY <1>1, <1>2, <1>5, <2>1 DEF IInv, Delivered, Honest, Traced, CallsAreSettled, agent
  <2> QED
    BY <1>2, <1>4, <2>2, <2>3 DEF IInv
<1>6. CASE ~gone
  <2>1. /\ wire' = Append(wire, h)
        /\ wire' \in Seq(Events)
        /\ Len(wire') = Len(wire) + 1
        /\ \A i \in 1..Len(wire) : wire'[i] = wire[i]
        /\ wire'[Len(wire) + 1] = h
    BY <1>1, <1>2, <1>3, <1>6, AppendProperties DEF Send
  <2>2. TypeOK'
    BY <1>1, <1>2, <2>1 DEF IInv, TypeOK, agent, Rows, Events
  <2>3. Len(wire) = puts - Len(queue) /\ h.n = Len(wire) + 1
    BY <1>2, <1>6 DEF IInv, Delivered
  <2>4. \A i \in 1..Len(wire') : i = Len(wire) + 1 \/ i \in 1..Len(wire)
    BY <1>2, <2>1
  <2>5. \A i \in 1..Len(wire') : ~IsVerdict(wire'[i]) /\ wire'[i].n = i
    BY <1>2, <1>3, <2>1, <2>3, <2>4, NoVerdictYet DEF IInv, Delivered
  <2>6. Delivered'
    <3>1. Len(wire') = puts' - Len(queue')
      BY <1>1, <1>2, <2>1, <2>3
    <3> QED
      BY <1>1, <1>2, <2>5, <3>1 DEF Delivered, IsVerdict
  <2>7. Honest'
    BY <1>1, <1>2 DEF IInv, Honest, agent
  <2>8. Traced'
    <3>1. ASSUME NEW c, \E o \in 1..Len(queue) : Outcome(queue[o], c)
          PROVE  \/ Outcome(wire'[Len(wire) + 1], c)
                 \/ \E o \in 1..Len(queue') : Outcome(queue'[o], c)
      <4>1. PICK o \in 1..Len(queue) : Outcome(queue[o], c)
        BY <3>1
      <4>2. CASE o = 1
        BY <1>2, <2>1, <4>1, <4>2
      <4>3. CASE o # 1
        <5>1. o - 1 \in 1..Len(queue') /\ (o - 1) + 1 = o
          BY <1>2, <4>3
        <5>2. queue'[o - 1] = queue[o]
          BY <1>2, <5>1
        <5> QED
          BY <4>1, <5>1, <5>2
      <4> QED
        BY <4>2, <4>3
    <3>2. ASSUME NEW i \in 1..Len(wire'), wire'[i].kind = "tool_call"
          PROVE  \/ wire'[i].tool \in inflight
                 \/ \E o \in i..Len(wire') : Outcome(wire'[o], wire'[i].tool)
                 \/ \E o \in 1..Len(queue') : Outcome(queue'[o], wire'[i].tool)
      <4>1. CASE i \in 1..Len(wire)
        <5>1. wire'[i] = wire[i]
          BY <2>1, <4>1
        <5>2. CASE wire[i].tool \in inflight
          BY <5>1, <5>2
        <5>3. CASE \E o \in i..Len(wire) : Outcome(wire[o], wire[i].tool)
          <6>1. PICK o \in i..Len(wire) : Outcome(wire[o], wire[i].tool)
            BY <5>3
          <6>2. o \in 1..Len(wire) /\ o \in i..Len(wire')
            BY <1>2, <2>1, <4>1
          <6>3. wire'[o] = wire[o]
            BY <2>1, <6>2
          <6> QED
            BY <5>1, <6>1, <6>2, <6>3
        <5>4. CASE \E o \in 1..Len(queue) : Outcome(queue[o], wire[i].tool)
          <6>1. Len(wire) + 1 \in i..Len(wire')
            BY <1>2, <2>1, <4>1
          <6> QED
            BY <3>1, <5>1, <5>4, <6>1
        <5> QED
          BY <1>2, <1>6, <3>2, <4>1, <5>1, <5>2, <5>3, <5>4 DEF IInv, Traced
      <4>2. CASE i = Len(wire) + 1
        <5>1. wire'[i] = queue[1] /\ queue[1].kind = "tool_call" /\ 1 \in 1..Len(queue)
          BY <1>2, <2>1, <3>2, <4>2
        <5>2. CASE queue[1].tool \in inflight
          BY <5>1, <5>2
        <5>3. CASE \E o \in 1..Len(queue) : Outcome(queue[o], queue[1].tool)
          <6>1. i \in i..Len(wire')
            BY <1>2, <2>1, <4>2
          <6> QED
            BY <3>1, <4>2, <5>1, <5>3, <6>1
        <5> QED
          BY <1>2, <1>6, <5>1, <5>2, <5>3 DEF IInv, Traced
      <4> QED
        BY <2>4, <4>1, <4>2
    <3>3. ASSUME NEW i \in 1..Len(queue'), queue'[i].kind = "tool_call"
          PROVE  \/ queue'[i].tool \in inflight
                 \/ \E o \in i..Len(queue') : Outcome(queue'[o], queue'[i].tool)
      <4>1. i + 1 \in 1..Len(queue) /\ queue'[i] = queue[i + 1]
        BY <1>2
      <4>2. CASE queue[i + 1].tool \in inflight
        BY <4>1, <4>2
      <4>3. ASSUME NEW o \in i + 1..Len(queue), Outcome(queue[o], queue[i + 1].tool)
            PROVE  \E n \in i..Len(queue') : Outcome(queue'[n], queue'[i].tool)
        <5>1. o - 1 \in i..Len(queue') /\ o - 1 \in 1..Len(queue') /\ (o - 1) + 1 = o
          BY <1>2, <4>3
        <5>2. queue'[o - 1] = queue[o]
          BY <1>2, <5>1
        <5> QED
          BY <4>1, <4>3, <5>1, <5>2
      <4> QED
        BY <1>2, <1>6, <3>3, <4>1, <4>2, <4>3 DEF IInv, Traced
    <3> QED
      BY <1>1, <3>2, <3>3 DEF Traced, agent
  <2>9. CallsAreSettled'
    BY <2>5 DEF CallsAreSettled, IsVerdict
  <2> QED
    BY <1>2, <1>4, <2>2, <2>6, <2>7, <2>8, <2>9 DEF IInv
<1> QED
  BY <1>5, <1>6

\* The last item ends the run: the queue is empty and a verdict is to come.
LEMMA TakeStep == IInv /\ (TakeFinished \/ TakeException) => IInv'
<1> SUFFICES ASSUME IInv, TakeFinished \/ TakeException PROVE IInv'
  OBVIOUS
<1>1. answered \in BOOLEAN /\ recorded \in BOOLEAN
  BY DEF IInv, TypeOK
<1>2. /\ UNCHANGED <<agent, wire, gone, recorded>> /\ UNCHANGED puts
      /\ \/ body' = "record" /\ answered
         \/ body' = "done" /\ ~answered
         \/ body' = "error"
  <2>1. CASE TakeFinished
    BY <1>1, <2>1 DEF TakeFinished, agent
  <2>2. CASE TakeException
    BY <2>2 DEF TakeException, agent
  <2> QED
    BY <2>1, <2>2
<1>3. Get({"finished"}) \/ Get({"exception"})
  BY DEF TakeFinished, TakeException
<1>4. Head(queue).kind \in Ends
  BY <1>3 DEF Get, Ends
<1>5. /\ body = "get" /\ run = "returned" /\ Numbered' /\ puts \in Nat
      /\ Len(queue) = 1 /\ Len(queue') = 0 /\ queue' \in Seq(Rows)
      /\ Head(queue) = queue[1] /\ Len(wire) \in Nat
  BY <1>2, <1>3, <1>4, GetFacts
<1>6. queue' = <<>>
  BY <1>5, EmptySeq
<1>7. puts > 0
  BY <1>5 DEF IInv, Numbered
<1>8. TypeOK'
  BY <1>2, <1>5 DEF IInv, TypeOK, agent, Rows
<1>9. Phase'
  BY <1>2, <1>5, <1>6, <1>7 DEF IInv, Phase, agent
<1>10. Delivered'
  BY <1>2, <1>5, NoVerdictYet DEF IInv, Delivered, agent, IsVerdict
<1>11. Honest'
  <2>1. ~recorded /\ recorded' = recorded /\ answered' = answered
    BY <1>2, <1>5 DEF IInv, Honest, agent
  <2> QED
    BY <1>1, <1>2, <2>1 DEF Honest
<1>12. Traced'
  <2>1. ASSUME NEW i \in 1..Len(wire), wire[i].kind = "tool_call", ~gone
        PROVE  \/ wire[i].tool \in inflight
               \/ \E o \in i..Len(wire) : Outcome(wire[o], wire[i].tool)
    <3>1. \A o \in 1..Len(queue) : ~Outcome(queue[o], wire[i].tool)
      BY <1>4, <1>5 DEF Outcome, Ends
    <3> QED
      BY <1>5, <2>1, <3>1 DEF IInv, Traced
  <2> QED
    BY <1>2, <1>5, <2>1 DEF Traced, agent
<1>13. CallsAreSettled'
  BY <1>2 DEF IInv, CallsAreSettled
<1> QED
  BY <1>5, <1>8, <1>9, <1>10, <1>11, <1>12, <1>13 DEF IInv

\* A commit that raises may have taken effect; the verdict is then an error.
LEMMA RecordStep == IInv /\ (Record \/ RecordRaises) => IInv'
<1> SUFFICES ASSUME IInv, Record \/ RecordRaises PROVE IInv'
  OBVIOUS
<1>1. /\ body = "record" /\ UNCHANGED <<agent, queue, wire, gone>>
      /\ \/ body' = "done" /\ recorded' = TRUE
         \/ body' = "error" /\ recorded' \in BOOLEAN
  BY DEF Record, RecordRaises
<1>2. TypeOK' /\ Numbered' /\ Phase'
  BY <1>1 DEF IInv, TypeOK, Numbered, Phase, agent
<1>3. Delivered'
  BY <1>1, NoVerdictYet DEF IInv, Delivered, agent, IsVerdict
<1>4. Honest'
  BY <1>1 DEF IInv, Honest, agent, TypeOK
<1>5. Traced' /\ CallsAreSettled'
  BY <1>1 DEF IInv, Traced, CallsAreSettled, agent
<1> QED
  BY <1>2, <1>3, <1>4, <1>5 DEF IInv

\* The verdict comes after every step of the run, and done after the outcome
\* of every call the client was shown.
LEMMA SendVerdictStep == IInv /\ SendVerdict => IInv'
<1> SUFFICES ASSUME IInv, SendVerdict PROVE IInv'
  OBVIOUS
<1>1. /\ body \in {"done", "error"} /\ body' = "finally" /\ Send(Verdict)
      /\ UNCHANGED <<agent, queue, gone, recorded>>
  BY DEF SendVerdict
<1>2. run = "returned" /\ queue = <<>> /\ Len(queue) = 0 /\ inflight = {}
  BY <1>1, EmptySeq DEF IInv, Phase
<1>3. wire \in Seq(Events) /\ Len(wire) \in Nat /\ puts \in Nat
  BY LenProperties DEF IInv, TypeOK, Events
<1>4. Numbered' /\ Phase' /\ Honest' /\ Traced'
  BY <1>1, <1>2 DEF IInv, Numbered, Phase, Honest, Traced, agent
<1>5. CASE gone
  <2>1. wire' = wire
    BY <1>1, <1>5 DEF Send
  <2>2. TypeOK' /\ CallsAreSettled'
    BY <1>1, <2>1 DEF IInv, TypeOK, CallsAreSettled, agent
  <2>3. Delivered'
    BY <1>1, <2>1, NoVerdictYet DEF IInv, Delivered, IsVerdict
  <2> QED
    BY <1>4, <2>2, <2>3 DEF IInv
<1>6. CASE ~gone
  <2>1. Verdict \in Events /\ Verdict.kind = body
    BY <1>1 DEF Verdict, Events, Items
  <2>2. /\ wire' \in Seq(Events)
        /\ Len(wire') = Len(wire) + 1
        /\ \A i \in 1..Len(wire) : wire'[i] = wire[i]
        /\ wire'[Len(wire) + 1] = Verdict
    BY <1>1, <1>3, <1>6, <2>1, AppendProperties DEF Send
  <2>3. TypeOK'
    BY <1>1, <2>2 DEF IInv, TypeOK, agent, Events
  <2>4. Len(wire) = puts - 1
    BY <1>1, <1>6 DEF IInv, Delivered
  <2>5. \A i \in 1..Len(wire') : i = Len(wire) + 1 \/ i \in 1..Len(wire)
    BY <1>3, <2>2
  <2>6. \A i \in 1..Len(wire) : ~IsVerdict(wire'[i]) /\ wire'[i].n = i
    BY <1>1, <2>2, NoVerdictYet DEF IInv, Delivered
  <2>7. Delivered'
    <3>1. ASSUME NEW i \in 1..Len(wire'), ~IsVerdict(wire'[i]) PROVE wire'[i].n = i
      BY <1>1, <2>1, <2>2, <2>5, <2>6, <3>1 DEF IsVerdict
    <3>2. ASSUME NEW i \in 1..Len(wire'), IsVerdict(wire'[i])
          PROVE  /\ i = Len(wire')
                 /\ wire'[i].kind = "done" => puts = i /\ recorded = answered
      <4>1. i = Len(wire) + 1
        BY <2>5, <2>6, <3>2
      <4>2. wire'[i].kind = "done" => body = "done"
        BY <2>1, <2>2, <4>1
      <4> QED
        BY <1>3, <2>2, <2>4, <4>1, <4>2 DEF IInv, Honest
    <3>3. \A i \in 1..Len(wire') : IsVerdict(wire[i])' <=> IsVerdict(wire'[i])
      BY DEF IsVerdict
    <3>4. /\ body' = "finally" /\ run' = "returned" /\ puts' = puts
          /\ recorded' = recorded /\ answered' = answered
      BY <1>1, <1>2 DEF agent
    <3> QED
      BY <3>1, <3>2, <3>3, <3>4 DEF Delivered
  <2>8. CallsAreSettled'
    <3> SUFFICES ASSUME NEW i \in 1..Len(wire'), NEW k \in 1..Len(wire'),
                        wire'[i].kind = "tool_call", wire'[k].kind = "done"
                 PROVE  \E o \in i..k : Outcome(wire'[o], wire'[i].tool)
      BY DEF CallsAreSettled, Outcome
    <3>1. i \in 1..Len(wire) /\ k = Len(wire) + 1
      BY <1>1, <2>1, <2>2, <2>5, <2>6 DEF IsVerdict
    <3>2. PICK o \in i..Len(wire) : Outcome(wire[o], wire[i].tool)
      BY <1>1, <1>2, <1>6, <2>2, <3>1 DEF IInv, Traced
    <3>3. o \in i..k /\ o \in 1..Len(wire)
      BY <1>3, <3>1, <3>2
    <3> QED
      BY <2>2, <3>1, <3>2, <3>3
  <2> QED
    BY <1>4, <2>3, <2>7, <2>8 DEF IInv
<1> QED
  BY <1>5, <1>6

\* Closing the generator, at its end or early, ends the run.
LEMMA CloseStep == IInv /\ (Close \/ Abandon) => IInv'
<1> SUFFICES ASSUME IInv, Close \/ Abandon PROVE IInv'
  OBVIOUS
<1>1. /\ body' = "closed" /\ body # "closed" /\ Cancelled /\ UNCHANGED <<queue, wire, gone>>
      /\ recorded' = recorded \/ (body = "record" /\ recorded' \in BOOLEAN)
  <2>1. CASE Close
    BY <2>1 DEF Close
  <2>2. CASE Abandon
    BY <2>2 DEF Abandon
  <2> QED
    BY <2>1, <2>2
<1>2. /\ run' # "running" /\ puts' = puts /\ answered' = answered /\ calls' = calls
      /\ run = "returned" => run' = "returned" /\ inflight' = inflight
      /\ run' = "returned" => run = "returned"
      /\ inflight' \subseteq inflight
      /\ run' \in {"running", "returned", "cancelled"}
  BY <1>1 DEF Cancelled, IInv, TypeOK
<1>3. TypeOK'
  BY <1>1, <1>2 DEF IInv, TypeOK
<1>4. Numbered' /\ Phase'
  BY <1>1, <1>2 DEF IInv, Numbered, Phase
<1>5. Delivered'
  BY <1>1, <1>2 DEF IInv, Delivered, IsVerdict
<1>6. Honest' /\ Traced' /\ CallsAreSettled'
  BY <1>1, <1>2 DEF IInv, Honest, Traced, CallsAreSettled
<1> QED
  BY <1>3, <1>4, <1>5, <1>6 DEF IInv

LEMMA DisconnectStep == IInv /\ Disconnect => IInv'
BY DEF IInv, Disconnect, TypeOK, Numbered, Phase, Delivered, Honest, Traced,
       CallsAreSettled, IsVerdict, agent

LEMMA NextInv == IInv /\ [Next]_vars => IInv'
<1>1. IInv /\ UNCHANGED vars => IInv'
  BY DEF IInv, TypeOK, Numbered, Phase, Delivered, Honest, Traced, CallsAreSettled,
         IsVerdict, vars, agent, response
<1> QED
  BY <1>1, RunStep, ForwardStep, TakeStep, RecordStep, SendVerdictStep, CloseStep,
     DisconnectStep DEF Next, Body

-----------------------------------------------------------------------------
(* Theorems. *)

\* The inductive invariant holds in every reachable state.
THEOREM Invariance == Spec => []IInv
BY InitInv, NextInv, PTL DEF Spec

\* Every variable keeps its type.
THEOREM TypeCorrect == Spec => []TypeOK
<1>1. IInv => TypeOK
  BY DEF IInv
<1> QED
  BY <1>1, Invariance, PTL

\* The client sees the run as it happened, in order and without a gap, and a
\* done only after all of it (chat_stream's queue and generator).
THEOREM FaithfulWire == Spec => []WireIsFaithful
<1>1. IInv => WireIsFaithful
  BY DEF IInv, Delivered, WireIsFaithful
<1> QED
  BY <1>1, Invariance, PTL

\* done means recorded if the run answered, and only an answer is recorded.
THEOREM TruthfulDone == Spec => []DoneIsTruthful
<1>1. IInv => DoneIsTruthful
  BY DEF IInv, Delivered, Honest, DoneIsTruthful, IsVerdict
<1> QED
  BY <1>1, Invariance, PTL

\* Before done, the client has been shown the outcome of every call it was
\* shown (EventToolbox.call puts one on either path).
THEOREM SettledCalls == Spec => []CallsAreSettled
<1>1. IInv => CallsAreSettled
  BY DEF IInv
<1> QED
  BY <1>1, Invariance, PTL

\* A response that has ended starts nothing more (chat_stream's finally).
THEOREM SilentAfterClose == Spec => NothingAfterClose
<1>1. ASSUME IInv, [Next]_vars, body = "closed" PROVE UNCHANGED <<calls, puts>>
  <2>1. run # "running"
    BY <1>1 DEF IInv, Phase
  <2>2. ~Run
    BY <2>1 DEF Run, Token, CallTool, SettleTool, Finish, Raise
  <2>3. CASE UNCHANGED vars
    BY <2>3 DEF vars, agent
  <2>4. CASE Body \/ Disconnect \/ Abandon
    BY <1>1, <2>4 DEF Body, Forward, TakeFinished, TakeException, Get, Record, RecordRaises,
                      SendVerdict, Close, Disconnect, Abandon, agent
  <2> QED
    BY <1>1, <2>2, <2>3, <2>4 DEF Next
<1>2. IInv /\ [Next]_vars => [body = "closed" => UNCHANGED <<calls, puts>>]_vars
  BY <1>1
<1> QED
  BY <1>2, Invariance, PTL DEF Spec, NothingAfterClose

-----------------------------------------------------------------------------
(* What the client may see. *)

IsCall(e, c) == e.kind = "tool_call" /\ e.tool = c

\* Calls that wait in the queue are new to the client and differ; an outcome that
\* waits is its call's only one and comes after it; a call in flight has none yet.
Once ==
    /\ View!Settled \subseteq View!Called /\ View!Called \subseteq 1..calls
    /\ \A i \in 1..Len(queue) : queue[i].kind = "token" => queue[i].tool = 0
    /\ ~gone /\ body = "get" =>
         /\ \A i \in 1..Len(queue) : queue[i].kind = "tool_call" =>
              queue[i].tool \in 1..calls /\ queue[i].tool \notin View!Called
         /\ \A i, k \in 1..Len(queue), c \in 1..calls :
              IsCall(queue[i], c) /\ IsCall(queue[k], c) => i = k
         /\ \A i \in 1..Len(queue), c \in Nat : Outcome(queue[i], c) =>
              /\ c \notin View!Settled /\ c \notin inflight
              /\ c \in View!Called \/ \E k \in 1..i - 1 : IsCall(queue[k], c)
         /\ \A i, k \in 1..Len(queue), c \in Nat :
              Outcome(queue[i], c) /\ Outcome(queue[k], c) => i = k
         /\ \A c \in inflight :
              /\ c \notin View!Settled
              /\ c \in View!Called \/ \E k \in 1..Len(queue) : IsCall(queue[k], c)

\* What one more event shows.
LEMMA OneMoreShown ==
    ASSUME wire \in Seq(Events), NEW e \in Events, wire' = Append(wire, e)
    PROVE  /\ View!Called' = View!Called \cup (IF e.kind = "tool_call" THEN {e.tool} ELSE {})
           /\ View!Settled' = View!Settled \cup
                (IF e.kind \in {"tool_result", "tool_error"} THEN {e.tool} ELSE {})
<1>1. /\ Len(wire) \in Nat /\ Len(wire') = Len(wire) + 1 /\ wire' \in Seq(Events)
      /\ \A i \in 1..Len(wire) : wire'[i] = wire[i]
      /\ wire'[Len(wire) + 1] = e
  BY LenProperties, AppendProperties
<1>2. /\ DOMAIN wire = 1..Len(wire) /\ DOMAIN wire' = 1..Len(wire) + 1
  BY <1>1, LenProperties
<1>3. ASSUME NEW kinds
      PROVE  View!Shown(kinds)' = View!Shown(kinds) \cup (IF e.kind \in kinds THEN {e.tool} ELSE {})
  <2> DEFINE old == {k \in DOMAIN wire : wire[k].kind \in kinds}
             new == {k \in DOMAIN wire' : wire'[k].kind \in kinds}
  <2>1. new = old \cup (IF e.kind \in kinds THEN {Len(wire) + 1} ELSE {})
    BY <1>1, <1>2
  <2>2. \A k \in old : wire'[k] = wire[k]
    BY <1>1, <1>2
  <2>3. {wire'[i].tool : i \in new} = {wire[i].tool : i \in old} \cup
                                     (IF e.kind \in kinds THEN {e.tool} ELSE {})
    <3> HIDE DEF old, new
    <3> QED
      BY <1>1, <2>1, <2>2
  <2> QED
    BY <2>3 DEF View!Shown
<1>4. View!Called' = View!Shown({"tool_call"})' /\ View!Called = View!Shown({"tool_call"})
  BY DEF View!Called
<1>5. /\ View!Settled' = View!Shown({"tool_result", "tool_error"})'
      /\ View!Settled = View!Shown({"tool_result", "tool_error"})
  BY DEF View!Settled
<1>6. View!Called' = View!Called \cup (IF e.kind = "tool_call" THEN {e.tool} ELSE {})
  BY <1>3, <1>4
<1>7. View!Settled' = View!Settled \cup
                        (IF e.kind \in {"tool_result", "tool_error"} THEN {e.tool} ELSE {})
  BY <1>3, <1>5
<1> QED
  BY <1>6, <1>7

LEMMA SameShown ==
    ASSUME wire' = wire
    PROVE  View!Called' = View!Called /\ View!Settled' = View!Settled
BY DEF View!Called, View!Settled, View!Shown

\* An item the run puts: a new call, the outcome of one in flight, or neither.
LEMMA PutOnce ==
    ASSUME IInv, Once, run = "running", UNCHANGED response,
           NEW e \in Rows, Put(e), e.kind = "token" => e.tool = 0,
           \/ e.kind = "tool_call" /\ e.tool = calls + 1
              /\ calls' = calls + 1 /\ inflight' = inflight \cup {calls + 1}
           \/ e.kind \in {"tool_result", "tool_error"} /\ e.tool \in inflight
              /\ calls' = calls /\ inflight' = inflight \ {e.tool}
           \/ e.kind \in {"token", "finished", "exception"}
              /\ calls' = calls /\ inflight' = inflight
    PROVE  Once'
<1>1. /\ queue \in Seq(Rows) /\ calls \in Nat /\ inflight \subseteq 1..calls
      /\ body = "get" /\ body' = body /\ gone' = gone /\ wire' = wire
  BY DEF IInv, TypeOK, Phase, Rows, response
<1>2. /\ Len(queue) \in Nat /\ Len(queue') = Len(queue) + 1
      /\ \A i \in 1..Len(queue) : queue'[i] = queue[i]
      /\ queue'[Len(queue) + 1] = e
  BY <1>1, LenProperties, AppendProperties DEF Put
<1>3. View!Called' = View!Called /\ View!Settled' = View!Settled
  BY <1>1, SameShown
<1> DEFINE L == Len(queue)
           C == View!Called
           S == View!Settled
<1>4. S \subseteq C /\ C \subseteq 1..calls /\ calls' \in Nat /\ calls <= calls'
  BY <1>1 DEF Once
<1>5. ASSUME ~gone
      PROVE  /\ \A i \in 1..L : queue[i].kind = "tool_call" =>
                  queue[i].tool \in 1..calls /\ queue[i].tool \notin C
             /\ \A i, k \in 1..L, c \in 1..calls : IsCall(queue[i], c) /\ IsCall(queue[k], c) => i = k
             /\ \A i \in 1..L, c \in Nat : Outcome(queue[i], c) =>
                  /\ c \notin S /\ c \notin inflight
                  /\ c \in C \/ \E k \in 1..i - 1 : IsCall(queue[k], c)
             /\ \A i, k \in 1..L, c \in Nat : Outcome(queue[i], c) /\ Outcome(queue[k], c) => i = k
             /\ \A c \in inflight : c \notin S /\ (c \in C \/ \E k \in 1..L : IsCall(queue[k], c))
  BY <1>1, <1>5 DEF Once
<1> HIDE DEF C, S
<1>6. \A i \in 1..L + 1 : i \in 1..L \/ i = L + 1
  BY <1>2
\* An outcome in the queue is one of a call there has been.
<1>7. ASSUME ~gone, NEW i \in 1..L, NEW c \in Nat, Outcome(queue[i], c) PROVE c \in 1..calls
  <2>1. CASE c \in C
    BY <1>4, <2>1
  <2>2. CASE \E k \in 1..i - 1 : IsCall(queue[k], c)
    <3>1. PICK k \in 1..i - 1 : IsCall(queue[k], c)
      BY <2>2
    <3>2. k \in 1..L
      BY <1>2
    <3> QED
      BY <1>5, <1>7, <3>1, <3>2 DEF IsCall
  <2> QED
    BY <1>5, <1>7, <2>1, <2>2
<1>8. ASSUME ~gone, NEW i \in 1..L + 1, queue'[i].kind = "tool_call"
      PROVE  queue'[i].tool \in 1..calls' /\ queue'[i].tool \notin C
  BY <1>1, <1>2, <1>4, <1>5, <1>6, <1>8
<1>9. ASSUME ~gone, NEW i \in 1..L + 1, NEW k \in 1..L + 1, NEW c \in 1..calls',
             IsCall(queue'[i], c), IsCall(queue'[k], c)
      PROVE  i = k
  <2>1. CASE i \in 1..L /\ k \in 1..L
    <3>1. IsCall(queue[i], c) /\ IsCall(queue[k], c)
      BY <1>2, <1>9, <2>1
    <3>2. c \in 1..calls
      BY <1>5, <1>9, <2>1, <3>1 DEF IsCall
    <3> QED
      BY <1>5, <1>9, <2>1, <3>1, <3>2
  <2>2. \A m \in 1..L : IsCall(queue'[m], c) => c \in 1..calls
    BY <1>2, <1>5, <1>9 DEF IsCall
  <2>3. IsCall(e, c) => c = calls + 1
    BY <1>1 DEF IsCall
  <2>4. ~(IsCall(e, c) /\ c \in 1..calls)
    BY <1>1, <2>3
  <2> QED
    BY <1>2, <1>6, <1>9, <2>1, <2>2, <2>4
<1>10. ASSUME ~gone, NEW i \in 1..L + 1, NEW c \in Nat, Outcome(queue'[i], c)
       PROVE  /\ c \notin S /\ c \notin inflight'
              /\ c \in C \/ \E k \in 1..i - 1 : IsCall(queue'[k], c)
  <2>1. CASE i \in 1..L
    <3>1. Outcome(queue[i], c) /\ c \in 1..calls
      BY <1>2, <1>7, <1>10, <2>1
    <3>2. /\ c \notin S /\ c \notin inflight
          /\ c \in C \/ \E k \in 1..i - 1 : IsCall(queue[k], c)
      BY <1>5, <1>10, <2>1, <3>1
    <3>3. \A k \in 1..i - 1 : queue'[k] = queue[k]
      BY <1>2, <2>1
    <3>4. c \notin inflight'
      BY <1>1, <3>1, <3>2
    <3> QED
      BY <3>2, <3>3, <3>4
  <2>2. CASE i = L + 1
    <3>1. Outcome(e, c)
      BY <1>2, <1>10, <2>2
    <3>2. c \in inflight /\ c \notin inflight'
      BY <3>1 DEF Outcome
    <3>3. c \notin S /\ (c \in C \/ \E k \in 1..L : IsCall(queue[k], c))
      BY <1>5, <1>10, <3>2
    <3>4. (i - 1) = L
      BY <1>2, <2>2
    <3> QED
      BY <1>2, <3>2, <3>3, <3>4
  <2> QED
    BY <1>6, <2>1, <2>2
<1>11. ASSUME ~gone, NEW i \in 1..L + 1, NEW k \in 1..L + 1, NEW c \in Nat,
              Outcome(queue'[i], c), Outcome(queue'[k], c)
       PROVE  i = k
  <2>1. CASE i \in 1..L /\ k \in 1..L
    BY <1>2, <1>5, <1>11, <2>1
  <2>2. \A m \in 1..L : Outcome(queue'[m], c) => c \notin inflight
    BY <1>2, <1>5, <1>11
  <2>3. Outcome(e, c) => c \in inflight
    BY DEF Outcome
  <2> QED
    BY <1>2, <1>6, <1>11, <2>1, <2>2, <2>3
<1>12. ASSUME ~gone, NEW c \in inflight'
       PROVE  c \notin S /\ (c \in C \/ \E k \in 1..L + 1 : IsCall(queue'[k], c))
  <2>1. CASE c \in inflight
    BY <1>2, <1>5, <1>12, <2>1
  <2>2. CASE c \notin inflight
    <3>1. c = calls + 1 /\ IsCall(e, c)
      BY <1>12, <2>2 DEF IsCall
    <3>2. c \notin S
      BY <1>1, <1>4, <3>1
    <3> QED
      BY <1>2, <3>1, <3>2
  <2> QED
    BY <2>1, <2>2
<1>13. C \subseteq 1..calls'
  BY <1>1, <1>4
<1>14. \A i \in 1..L + 1 : queue'[i].kind = "token" => queue'[i].tool = 0
  <2>1. \A i \in 1..L : queue[i].kind = "token" => queue[i].tool = 0
    BY DEF Once
  <2> QED
    BY <1>2, <1>6, <2>1
<1> QED
  BY <1>1, <1>2, <1>3, <1>4, <1>8, <1>9, <1>10, <1>11, <1>12, <1>13, <1>14 DEF Once, C, S

LEMMA InitOnce == Init => Once
<1> SUFFICES ASSUME Init PROVE Once
  OBVIOUS
<1>1. queue = <<>> /\ wire = <<>> /\ inflight = {}
  BY DEF Init
<1>2. Len(queue) = 0 /\ DOMAIN wire = {}
  BY <1>1, EmptySeq
<1>3. View!Called = {} /\ View!Settled = {}
  BY <1>2 DEF View!Called, View!Settled, View!Shown
<1> QED
  BY <1>1, <1>2, <1>3 DEF Once

LEMMA RunOnce == IInv /\ Once /\ Run => Once'
<1> SUFFICES ASSUME IInv, Once, Run PROVE Once'
  OBVIOUS
<1>1. /\ puts \in Nat /\ calls \in Nat /\ inflight \subseteq 1..calls
      /\ 0 \in Nat /\ calls + 1 \in Nat
  BY DEF IInv, TypeOK
<1>2. CASE Token
  <2>1. /\ Item("token", 0) \in Rows /\ Item("token", 0).kind = "token"
        /\ Item("token", 0).tool = 0
    BY <1>1, ItemInRows DEF Steps
  <2> QED
    BY <1>2, <2>1, PutOnce DEF Token
<1>3. CASE CallTool
  <2> DEFINE e == Item("tool_call", calls + 1)
  <2>1. e \in Rows /\ e.kind = "tool_call" /\ e.tool = calls + 1
    BY <1>1, ItemInRows DEF Steps
  <2>2. /\ Put(e) /\ run = "running" /\ UNCHANGED response
        /\ calls' = calls + 1 /\ inflight' = inflight \cup {calls + 1}
    BY <1>3 DEF CallTool
  <2> HIDE DEF e
  <2> QED
    BY <2>1, <2>2, PutOnce
<1>4. ASSUME NEW c \in inflight, SettleTool(c) PROVE Once'
  <2>1. PICK kind \in {"tool_result", "tool_error"} : Put(Item(kind, c))
    BY <1>4 DEF SettleTool
  <2> DEFINE e == Item(kind, c)
  <2>2. e \in Rows /\ e.kind = kind /\ e.tool = c
    BY <1>1, ItemInRows DEF Steps
  <2>3. /\ Put(e) /\ run = "running" /\ UNCHANGED response
        /\ calls' = calls /\ inflight' = inflight \ {e.tool}
    BY <1>4, <2>1, <2>2 DEF SettleTool
  <2> HIDE DEF e
  <2> QED
    BY <2>2, <2>3, PutOnce
<1>5. CASE (\E a \in BOOLEAN : Finish(a)) \/ Raise
  <2>1. PICK kind \in Ends : Put(Item(kind, 0))
    BY <1>5 DEF Finish, Raise, Ends
  <2> DEFINE e == Item(kind, 0)
  <2>2. e \in Rows /\ e.kind = kind /\ e.tool = 0
    BY <1>1, ItemInRows DEF Ends
  <2>3. /\ Put(e) /\ run = "running" /\ UNCHANGED response
        /\ calls' = calls /\ inflight' = inflight
    BY <1>5, <2>1 DEF Finish, Raise
  <2> HIDE DEF e
  <2> QED
    BY <2>2, <2>3, PutOnce DEF Ends
<1> QED
  BY <1>2, <1>3, <1>4, <1>5 DEF Run

\* The first item of the queue, to a client still there: a call that is new to
\* it, or the only outcome of one it was shown.
LEMMA HeadIsNew ==
    ASSUME IInv, Once, Get(Steps), UNCHANGED puts, ~gone
    PROVE  LET h == Head(queue)
           IN  /\ h.kind = "token" => h.tool = 0
               /\ h.kind = "tool_call" => h.tool \in 1..calls /\ h.tool \notin View!Called
               /\ h.kind \in {"tool_result", "tool_error"} =>
                    /\ h.tool \in View!Called /\ h.tool \notin View!Settled
                    /\ h.tool \notin inflight
<1> DEFINE h == Head(queue)
<1>1. /\ body = "get" /\ h = queue[1] /\ h \in Rows /\ Len(queue) \in Nat \ {0}
  BY GetFacts
<1>2. h.tool \in Nat /\ 1 \in 1..Len(queue) /\ (1 - 1) = 0 /\ 1..0 = {}
  BY <1>1 DEF Rows, Items
<1> HIDE DEF h
<1>3. h.kind = "token" => h.tool = 0
  BY <1>1, <1>2 DEF Once
<1>4. h.kind = "tool_call" => h.tool \in 1..calls /\ h.tool \notin View!Called
  BY <1>1, <1>2 DEF Once
<1>5. ASSUME h.kind \in {"tool_result", "tool_error"}
      PROVE  h.tool \in View!Called /\ h.tool \notin View!Settled /\ h.tool \notin inflight
  <2>1. Outcome(queue[1], h.tool)
    BY <1>1, <1>5 DEF Outcome
  <2>2. /\ h.tool \notin View!Settled /\ h.tool \notin inflight
        /\ h.tool \in View!Called \/ \E k \in 1..1 - 1 : IsCall(queue[k], h.tool)
    BY <1>1, <1>2, <2>1 DEF Once
  <2> QED
    BY <1>2, <2>2
<1> QED
  BY <1>3, <1>4, <1>5 DEF h

LEMMA ForwardOnce == IInv /\ Once /\ Forward => Once'
<1> SUFFICES ASSUME IInv, Once, Forward PROVE Once'
  OBVIOUS
<1> DEFINE h == Head(queue)
           L == Len(queue)
           C == View!Called
           S == View!Settled
<1>1. /\ Get(Steps) /\ Send(h) /\ h.kind \in Steps /\ UNCHANGED puts
      /\ calls' = calls /\ inflight' = inflight /\ body' = body /\ gone' = gone
  BY DEF Forward, Get, agent
<1>2. /\ body = "get" /\ wire \in Seq(Events) /\ calls \in Nat
      /\ L \in Nat \ {0} /\ h = queue[1] /\ h \in Rows
      /\ Len(queue') = L - 1
      /\ \A i \in 1..L - 1 : queue'[i] = queue[i + 1]
  BY <1>1, GetFacts DEF IInv, TypeOK
<1>3. S \subseteq C /\ C \subseteq 1..calls
      /\ \A i \in 1..L : queue[i].kind = "token" => queue[i].tool = 0
  BY DEF Once
<1>4. \A i \in 1..L - 1 : i + 1 \in 1..L /\ i + 1 # 1
  BY <1>2
<1>5. \A i \in 1..L - 1 : queue'[i].kind = "token" => queue'[i].tool = 0
  BY <1>2, <1>3, <1>4
<1>6. CASE gone
  <2>1. wire' = wire
    BY <1>1, <1>6 DEF Send
  <2>2. C' = C /\ S' = S
    BY <2>1, SameShown
  <2> HIDE DEF C, S, L, h
  <2> QED
    BY <1>1, <1>2, <1>3, <1>5, <1>6, <2>2 DEF Once, C, S
<1>7. CASE ~gone
  <2> DEFINE newC == IF h.kind = "tool_call" THEN {h.tool} ELSE {}
             newS == IF h.kind \in {"tool_result", "tool_error"} THEN {h.tool} ELSE {}
  <2>1. h \in Events /\ wire' = Append(wire, h)
    BY <1>1, <1>2, <1>7 DEF Send, Rows, Events, Items
  <2>2. C' = C \cup newC /\ S' = S \cup newS
    <3> HIDE DEF h
    <3> QED
      BY <1>2, <2>1, OneMoreShown
  <2>3. /\ h.kind = "tool_call" => h.tool \in 1..calls /\ h.tool \notin C
        /\ h.kind \in {"tool_result", "tool_error"} =>
             h.tool \in C /\ h.tool \notin S /\ h.tool \notin inflight
    BY <1>1, <1>7, HeadIsNew
  <2>4. /\ \A i \in 1..L : queue[i].kind = "tool_call" =>
             queue[i].tool \in 1..calls /\ queue[i].tool \notin C
        /\ \A i, k \in 1..L, c \in 1..calls : IsCall(queue[i], c) /\ IsCall(queue[k], c) => i = k
        /\ \A i \in 1..L, c \in Nat : Outcome(queue[i], c) =>
             /\ c \notin S /\ c \notin inflight
             /\ c \in C \/ \E k \in 1..i - 1 : IsCall(queue[k], c)
        /\ \A i, k \in 1..L, c \in Nat : Outcome(queue[i], c) /\ Outcome(queue[k], c) => i = k
        /\ \A c \in inflight : c \notin S /\ (c \in C \/ \E k \in 1..L : IsCall(queue[k], c))
    BY <1>2, <1>7 DEF Once
  <2> HIDE DEF C, S, L, h
  <2>5. 1 \in 1..L /\ newC \subseteq 1..calls /\ newS \subseteq C
    BY <1>2, <2>3
  <2>6. /\ \A c : c \in newC => IsCall(queue[1], c)
        /\ \A c : IsCall(queue[1], c) => c \in newC
        /\ \A c : c \in newS => Outcome(queue[1], c) /\ c \notin inflight
    BY <1>2, <2>3 DEF IsCall, Outcome
  <2> HIDE DEF newC, newS
  <2>7. \A n \in 1..L : \A c : IsCall(queue[n], c) =>
          c \in newC \/ \E k \in 1..L - 1 : k + 1 = n /\ IsCall(queue'[k], c)
    <3> SUFFICES ASSUME NEW n \in 1..L, NEW c, IsCall(queue[n], c), c \notin newC
                 PROVE  \E k \in 1..L - 1 : k + 1 = n /\ IsCall(queue'[k], c)
      OBVIOUS
    <3>1. n # 1
      BY <2>6
    <3>2. n - 1 \in 1..L - 1 /\ (n - 1) + 1 = n
      BY <1>2, <3>1
    <3> QED
      BY <1>2, <3>2
  <2>8. ASSUME NEW i \in 1..L - 1, queue'[i].kind = "tool_call"
        PROVE  queue'[i].tool \in 1..calls /\ queue'[i].tool \notin C'
    <3>1. i + 1 \in 1..L /\ i + 1 # 1 /\ queue'[i] = queue[i + 1]
      BY <1>2, <1>4
    <3>2. queue'[i].tool \in 1..calls /\ queue'[i].tool \notin C
      BY <2>4, <2>8, <3>1
    <3>3. IsCall(queue[i + 1], queue'[i].tool)
      BY <2>8, <3>1 DEF IsCall
    <3>4. queue'[i].tool \notin newC
      BY <2>4, <2>5, <2>6, <3>1, <3>2, <3>3
    <3> QED
      BY <2>2, <3>2, <3>4
  <2>9. ASSUME NEW i \in 1..L - 1, NEW k \in 1..L - 1, NEW c \in 1..calls,
               IsCall(queue'[i], c), IsCall(queue'[k], c)
        PROVE  i = k
    <3>1. i + 1 \in 1..L /\ k + 1 \in 1..L /\ queue'[i] = queue[i + 1] /\ queue'[k] = queue[k + 1]
      BY <1>2, <1>4
    <3>2. i + 1 = k + 1
      BY <2>4, <2>9, <3>1
    <3> QED
      BY <3>2
  <2>10. ASSUME NEW i \in 1..L - 1, NEW c \in Nat, Outcome(queue'[i], c)
         PROVE  /\ c \notin S' /\ c \notin inflight
                /\ c \in C' \/ \E k \in 1..i - 1 : IsCall(queue'[k], c)
    <3>1. i + 1 \in 1..L /\ i + 1 # 1 /\ Outcome(queue[i + 1], c) /\ (i + 1) - 1 = i
      BY <1>2, <1>4, <2>10
    <3>2. /\ c \notin S /\ c \notin inflight
          /\ c \in C \/ \E k \in 1..(i + 1) - 1 : IsCall(queue[k], c)
      BY <2>4, <3>1
    <3>3. c \notin newS
      BY <2>4, <2>5, <2>6, <3>1
    <3>4. ASSUME NEW n \in 1..i, IsCall(queue[n], c)
          PROVE  c \in C' \/ \E k \in 1..i - 1 : IsCall(queue'[k], c)
      <4>1. n \in 1..L
        BY <1>2, <3>4
      <4>2. CASE \E k \in 1..L - 1 : k + 1 = n /\ IsCall(queue'[k], c)
        <5>1. PICK k \in 1..L - 1 : k + 1 = n /\ IsCall(queue'[k], c)
          BY <4>2
        <5>2. k \in 1..i - 1
          BY <1>2, <5>1, <3>4
        <5> QED
          BY <5>1, <5>2
      <4> QED
        BY <2>2, <2>7, <3>4, <4>1, <4>2
    <3> QED
      BY <2>2, <3>1, <3>2, <3>3, <3>4
  <2>11. ASSUME NEW i \in 1..L - 1, NEW k \in 1..L - 1, NEW c \in Nat,
                Outcome(queue'[i], c), Outcome(queue'[k], c)
         PROVE  i = k
    <3>1. i + 1 \in 1..L /\ k + 1 \in 1..L /\ queue'[i] = queue[i + 1] /\ queue'[k] = queue[k + 1]
      BY <1>2, <1>4
    <3>2. i + 1 = k + 1
      BY <2>4, <2>11, <3>1
    <3> QED
      BY <3>2
  <2>12. ASSUME NEW c \in inflight
         PROVE  c \notin S' /\ (c \in C' \/ \E k \in 1..L - 1 : IsCall(queue'[k], c))
    BY <2>2, <2>4, <2>6, <2>7, <2>12
  <2>13. S' \subseteq C' /\ C' \subseteq 1..calls
    BY <1>3, <2>2, <2>5
  <2> QED
    BY <1>1, <1>2, <1>5, <2>8, <2>9, <2>10, <2>11, <2>12, <2>13 DEF Once, C, S
<1> QED
  BY <1>6, <1>7

\* Once the generator has the last item, or the client has left, only what has
\* been shown matters.
LEMMA SameOnce ==
    ASSUME Once, View!Called' = View!Called, View!Settled' = View!Settled, calls' = calls,
           \A i \in 1..Len(queue') : queue'[i].kind = "token" => queue'[i].tool = 0,
           gone' \/ body' # "get"
    PROVE  Once'
BY DEF Once

LEMMA VerdictShown ==
    ASSUME IInv, SendVerdict
    PROVE  View!Called' = View!Called /\ View!Settled' = View!Settled
<1>1. /\ body \in {"done", "error"} /\ Send(Verdict) /\ wire \in Seq(Events)
  BY DEF SendVerdict, IInv, TypeOK, Events
<1>2. CASE gone
  BY <1>1, <1>2, SameShown DEF Send
<1>3. CASE ~gone
  <2>1. Verdict \in Events /\ Verdict.kind \in {"done", "error"}
    BY <1>1 DEF Verdict, Events, Items
  <2>2. wire' = Append(wire, Verdict)
    BY <1>1, <1>3 DEF Send
  <2> QED
    BY <1>1, <2>1, <2>2, OneMoreShown
<1> QED
  BY <1>2, <1>3

LEMMA NextOnce == IInv /\ Once /\ [Next]_vars => Once'
<1> SUFFICES ASSUME IInv, Once, [Next]_vars PROVE Once'
  OBVIOUS
<1>1. \A i \in 1..Len(queue) : queue[i].kind = "token" => queue[i].tool = 0
  BY DEF Once
<1>2. CASE TakeFinished \/ TakeException
  <2>1. /\ UNCHANGED <<agent, wire, gone>> /\ body' # "get"
        /\ Get({"finished"}) \/ Get({"exception"})
    BY <1>2 DEF TakeFinished, TakeException
  <2>2. /\ UNCHANGED puts /\ calls' = calls
    BY <2>1 DEF agent
  <2>3. \A i \in 1..Len(queue') : i + 1 \in 1..Len(queue) /\ queue'[i] = queue[i + 1]
    BY <2>1, <2>2, GetFacts
  <2>4. \A i \in 1..Len(queue') : queue'[i].kind = "token" => queue'[i].tool = 0
    BY <1>1, <2>3
  <2> QED
    BY <2>1, <2>2, <2>4, SameOnce, SameShown
<1>3. CASE Record \/ RecordRaises \/ Close \/ Abandon
  <2>1. UNCHANGED <<queue, wire, calls>> /\ body' # "get"
    BY <1>3 DEF Record, RecordRaises, Close, Abandon, Cancelled, agent
  <2> QED
    BY <1>1, <2>1, SameOnce, SameShown
<1>4. CASE SendVerdict
  <2>1. UNCHANGED <<queue, calls>> /\ body' # "get"
    BY <1>4 DEF SendVerdict, agent
  <2> QED
    BY <1>1, <1>4, <2>1, SameOnce, VerdictShown
<1>5. CASE Disconnect
  <2>1. UNCHANGED <<queue, wire, calls>> /\ gone'
    BY <1>5 DEF Disconnect, agent
  <2> QED
    BY <1>1, <2>1, SameOnce, SameShown
<1>6. CASE UNCHANGED vars
  <2>1. UNCHANGED <<queue, wire, calls, body, gone, inflight>>
    BY <1>6 DEF vars, agent, response
  <2>2. View!Called' = View!Called /\ View!Settled' = View!Settled
    BY <2>1, SameShown
  <2> QED
    BY <2>1, <2>2 DEF Once
<1> QED
  BY <1>2, <1>3, <1>4, <1>5, <1>6, RunOnce, ForwardOnce DEF Next, Body

\* With every item taken and no call in flight, each call shown has its outcome.
LEMMA AllAreSettled ==
    ASSUME IInv, body \in {"record", "done", "error"}
    PROVE  View!AllSettled
<1> SUFFICES ASSUME ~gone, NEW c \in View!Called PROVE c \in View!Settled
  BY DEF View!AllSettled
<1>1. wire \in Seq(Events) /\ queue = <<>> /\ run = "returned" /\ inflight = {}
  BY DEF IInv, TypeOK, Phase, Events
<1>2. DOMAIN wire = 1..Len(wire) /\ Len(queue) = 0 /\ Len(wire) \in Nat
  BY <1>1, LenProperties, EmptySeq
<1>3. PICK i \in 1..Len(wire) : wire[i].kind = "tool_call" /\ wire[i].tool = c
  BY <1>2 DEF View!Called, View!Shown
<1>4. PICK o \in i..Len(wire) : Outcome(wire[o], c)
  BY <1>1, <1>2, <1>3 DEF IInv, Traced
<1>5. o \in DOMAIN wire
  BY <1>2, <1>3, <1>4
<1> QED
  BY <1>4, <1>5 DEF View!Settled, View!Shown, Outcome

LEMMA StageFacts ==
    /\ body \in {"get", "record", "done", "error"} => Stage = "open"
    /\ body = "finally" => Stage = "told"
    /\ body = "closed" => Stage = "closed"
BY DEF Stage

LEMMA StageFactsNext ==
    /\ body' \in {"get", "record", "done", "error"} => Stage' = "open"
    /\ body' = "finally" => Stage' = "told"
    /\ body' = "closed" => Stage' = "closed"
BY DEF Stage

\* An item passed on shows text, a new call or the one outcome of a call shown.
LEMMA ForwardShows == IInv /\ Once /\ Forward => [View!Next]_(View!vars)
<1> SUFFICES ASSUME IInv, Once, Forward PROVE [View!Next]_(View!vars)
  OBVIOUS
<1> DEFINE h == Head(queue)
<1>1. /\ Get(Steps) /\ Send(h) /\ h.kind \in Steps /\ UNCHANGED puts
      /\ body' = body /\ gone' = gone /\ recorded' = recorded
  BY DEF Forward, Get, agent
<1>2. /\ body = "get" /\ wire \in Seq(Events) /\ h \in Rows
      /\ h.n = puts - Len(queue) + 1 /\ Len(queue) \in Nat /\ puts \in Nat
  BY <1>1, GetFacts
<1>3. Stage = "open" /\ Stage' = "open" /\ ~recorded
  BY <1>1, <1>2, StageFacts, StageFactsNext DEF IInv, Honest
<1>4. CASE gone
  <2>1. wire' = wire
    BY <1>1, <1>4 DEF Send
  <2> QED
    BY <1>1, <1>3, <2>1 DEF View!vars
<1>5. CASE ~gone
  <2>1. Len(wire) = puts - Len(queue)
    BY <1>2, <1>5 DEF IInv, Delivered
  <2>2. h = [kind |-> h.kind, n |-> Len(wire) + 1, tool |-> h.tool]
    <3> HIDE DEF h
    <3> QED
      BY <1>2, <2>1 DEF Rows, Items
  <2>3. View!Event(h.kind, h.tool)
    BY <1>1, <1>3, <1>5, <2>2 DEF View!Event, Send
  <2>4. /\ h.kind = "token" => h.tool = 0
        /\ h.kind = "tool_call" => h.tool \in 1..calls /\ h.tool \notin View!Called
        /\ h.kind \in {"tool_result", "tool_error"} =>
             h.tool \in View!Called /\ h.tool \notin View!Settled
    BY <1>1, <1>5, HeadIsNew
  <2>5. 1..calls \subseteq 1..MaxCalls
    BY DEF IInv, TypeOK
  <2> HIDE DEF h
  <2>6. CASE h.kind = "token"
    BY <2>3, <2>4, <2>6 DEF View!Next, View!ShowText
  <2>7. CASE h.kind = "tool_call"
    <3>1. h.tool \in 1..MaxCalls \ View!Called /\ View!Event("tool_call", h.tool)
      BY <2>3, <2>4, <2>5, <2>7
    <3> QED
      BY <3>1 DEF View!Next, View!ShowCall
  <2>8. CASE h.kind \in {"tool_result", "tool_error"}
    <3>1. h.tool \in View!Called \ View!Settled
      BY <2>4, <2>8
    <3>2. View!ShowOutcome
      BY <2>3, <2>8, <3>1 DEF View!ShowOutcome
    <3> QED
      BY <3>2 DEF View!Next
  <2> QED
    BY <1>1, <2>6, <2>7, <2>8 DEF Steps
<1> QED
  BY <1>4, <1>5

\* Every step of the run, the generator and the client is one of StreamView's
\* or changes nothing the client sees.
LEMMA StepRefines == IInv /\ Once /\ [Next]_vars => [View!Next]_(View!vars)
<1> SUFFICES ASSUME IInv, Once, [Next]_vars PROVE [View!Next]_(View!vars)
  OBVIOUS
<1>1. CASE Run
  <2>1. UNCHANGED response
    BY <1>1 DEF Run, Token, CallTool, SettleTool, Finish, Raise
  <2> QED
    BY <2>1 DEF View!vars, Stage, response
<1>2. CASE TakeFinished \/ TakeException
  <2>1. /\ UNCHANGED <<wire, gone, recorded>>
        /\ body = "get" /\ body' \in {"record", "done", "error"}
    BY <1>2 DEF TakeFinished, TakeException, Get
  <2> QED
    BY <2>1, StageFacts, StageFactsNext DEF View!vars
<1>3. CASE Record \/ RecordRaises
  <2>1. /\ UNCHANGED <<wire, gone>> /\ recorded' \in BOOLEAN
        /\ body = "record" /\ body' \in {"done", "error"}
    BY <1>3 DEF Record, RecordRaises
  <2>2. ~recorded /\ Stage = "open" /\ Stage' = "open" /\ recorded \in BOOLEAN
    BY <2>1, StageFacts, StageFactsNext DEF IInv, Honest, TypeOK
  <2>3. CASE recorded'
    <3>1. View!Save
      BY <2>1, <2>2, <2>3, AllAreSettled DEF View!Save
    <3> QED
      BY <3>1 DEF View!Next
  <2>4. CASE ~recorded'
    BY <2>1, <2>2, <2>4 DEF View!vars
  <2> QED
    BY <2>3, <2>4
<1>4. CASE SendVerdict
  <2>1. /\ UNCHANGED <<gone, recorded>> /\ Send(Verdict)
        /\ body \in {"done", "error"} /\ body' = "finally"
    BY <1>4 DEF SendVerdict
  <2>2. Stage = "open" /\ Stage' = "told"
    BY <2>1, StageFacts, StageFactsNext
  <2>3. View!Tell(body)
    BY <2>1, <2>2, AllAreSettled DEF View!Tell, Send, Verdict
  <2> QED
    BY <2>1, <2>3 DEF View!Next
<1>5. CASE Close
  <2>1. UNCHANGED <<wire, gone, recorded>> /\ Stage = "told" /\ Stage' = "closed"
    BY <1>5, StageFacts, StageFactsNext DEF Close
  <2> QED
    BY <2>1 DEF View!Next, View!Close
<1>6. CASE Abandon
  <2>1. /\ UNCHANGED <<wire, gone>> /\ gone
        /\ body \in {"get", "record", "done", "error"} /\ body' = "closed"
        /\ recorded' \in IF body = "record" THEN BOOLEAN ELSE {recorded}
    BY <1>6 DEF Abandon
  <2>2. recorded' \in {recorded, TRUE}
    BY <2>1 DEF IInv, Honest, TypeOK
  <2>3. Stage = "open" /\ Stage' = "closed"
    BY <2>1, StageFacts, StageFactsNext
  <2> QED
    BY <2>1, <2>2, <2>3 DEF View!Next, View!Close
<1>7. CASE Disconnect
  <2>1. ~gone /\ gone' = TRUE /\ body # "closed" /\ UNCHANGED <<body, wire, recorded>>
    BY <1>7 DEF Disconnect
  <2>2. Stage # "closed" /\ Stage' = Stage
    BY <2>1 DEF Stage
  <2> QED
    BY <2>1, <2>2 DEF View!Next, View!Leave
<1>8. CASE UNCHANGED vars
  BY <1>8 DEF vars, response, View!vars, Stage
<1> QED
  BY <1>1, <1>2, <1>3, <1>4, <1>5, <1>6, <1>7, <1>8, ForwardShows DEF Next, Body

\* The driving task, the queue and the generator implement StreamView: nothing
\* is shown twice or out of turn, and after the turn is saved only its verdict.
THEOREM Refinement == Spec => ImplementsStreamView
<1>1. Init => View!Init
  BY StageFacts DEF Init, View!Init
<1> QED
  BY <1>1, InitInv, NextInv, InitOnce, NextOnce, StepRefines,
     PTL DEF Spec, ImplementsStreamView, View!Spec
=============================================================================
