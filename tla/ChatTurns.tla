----------------------------- MODULE ChatTurns -----------------------------
(***************************************************************************)
(* Conversations of the agent: POST /chat and POST /chat/stream of         *)
(* src/src/api/v1/agent/router.py over the conversations and chat_messages *)
(* tables.  A turn opens a transaction, replays the stored history to the  *)
(* agent, and records its two messages when the agent has answered; turns  *)
(* of one conversation may overlap.                                        *)
(***************************************************************************)
EXTENDS Naturals, FiniteSets, SequencesExt

CONSTANTS
    Turns,          \* chat requests, named after their one human message
    Conversations,  \* conversation ids, chosen by the client
    Kinds           \* endpoints in use, among "chat" and "stream"

ASSUME TurnsAssumption == IsFiniteSet(Turns)
ASSUME KindsAssumption == Kinds \subseteq {"chat", "stream"}

NoRow == [title |-> "none", updated |-> 0]

VARIABLES
    clock,      \* transactions begun so far: now() of the latest
    pc,         \* where each turn is
    kind,       \* its endpoint
    conv,       \* its conversation
    began,      \* now() of its transaction
    seen,       \* the history its run was given
    chats,      \* conversations: title and updated_at
    messages,   \* chat_messages
    before      \* ghost: the turns recorded when it opened, of every conversation

request == <<pc, kind, conv, began, seen, before>>
tables == <<chats, messages>>
vars == <<clock, request, tables>>

Init ==
    /\ clock = 0
    /\ pc = [t \in Turns |-> "new"]
    /\ kind = [t \in Turns |-> "none"]
    /\ conv = [t \in Turns |-> "none"]
    /\ began = [t \in Turns |-> 0]
    /\ seen = [t \in Turns |-> <<>>]
    /\ before = [t \in Turns |-> {}]
    /\ chats = [c \in Conversations |-> NoRow]
    /\ messages = {}

Of(c) == {m \in messages : m.conversation = c}
Said(t) == {m \in messages : m.turn = t}
Goto(t, label) == pc' = [pc EXCEPT ![t] = label]

\* Mutant: the history query has no ORDER BY.
AnyOrder(c) == SetToSeqs(Of(c))

\* SELECT ... ORDER BY created_at.  The two messages of a turn carry the same
\* created_at, and the database may return equal keys in either order.
Replays(c) ==
    {h \in SetToSeqs(Of(c)) :
        \A i, k \in 1..Len(h) : i < k => h[i].at <= h[k].at}

-----------------------------------------------------------------------------
\* id is the order of recording; the row lock makes the ids of one
\* conversation follow it.
Message(n, t, role, now) ==
    [id |-> n, conversation |-> conv[t], turn |-> t, role |-> role, at |-> now]

\* Both messages are inserted in one flush, in this order.
Both(t, now) ==
    LET n == Cardinality(messages) IN
    {Message(n + 1, t, "human", now), Message(n + 2, t, "ai", now)}

\* Mutant: ON CONFLICT DO NOTHING.
InsertOnly(t, now) ==
    chats' = [chats EXCEPT ![conv[t]] =
                IF @ = NoRow THEN [title |-> t, updated |-> now] ELSE @]

\* INSERT ... ON CONFLICT DO UPDATE SET updated_at = now().
Upsert(t, now) ==
    chats' = [chats EXCEPT ![conv[t]] =
                [title |-> IF @ = NoRow THEN t ELSE @.title, updated |-> now]]

\* get_current_user reads the user row, which begins the transaction that the
\* request keeps; now() is its start from then on.
Open(t, c, k) ==
    /\ pc[t] = "new"
    /\ clock' = clock + 1
    /\ began' = [began EXCEPT ![t] = clock + 1]
    /\ conv' = [conv EXCEPT ![t] = c]
    /\ kind' = [kind EXCEPT ![t] = k]
    /\ before' = [before EXCEPT ![t] = {m.turn : m \in messages}]
    /\ Goto(t, "open")
    /\ UNCHANGED <<seen, tables>>

\* 422: the user has no usable LLM settings.
Unconfigured(t) ==
    /\ pc[t] = "open"
    /\ Goto(t, "rejected")
    /\ UNCHANGED <<clock, kind, conv, began, seen, before, tables>>

\* Mutant: the human message is committed before the run, the reply after.
RecordEarly(t) ==
    /\ pc[t] = "open"
    /\ \E h \in Replays(conv[t]) : seen' = [seen EXCEPT ![t] = h]
    /\ Upsert(t, began[t])
    /\ messages' = messages \cup
         {Message(Cardinality(messages) + 1, t, "human", began[t])}
    /\ Goto(t, "run")
    /\ UNCHANGED <<clock, kind, conv, began, before>>

\* Mutant: only messages of the last few turns are replayed.
ReadRecent(t) ==
    /\ pc[t] = "open"
    /\ \E h \in Replays(conv[t]) :
         seen' = [seen EXCEPT ![t] = SubSeq(h, 3, Len(h))]
    /\ Goto(t, "run")
    /\ UNCHANGED <<clock, kind, conv, began, before, tables>>

ReadHistory(t) ==
    /\ pc[t] = "open"
    /\ \E h \in Replays(conv[t]) : seen' = [seen EXCEPT ![t] = h]
    /\ Goto(t, "run")
    /\ UNCHANGED <<clock, kind, conv, began, before, tables>>

\* 502 or an error event: the run raised, or stopped without an answer.
Fail(t) ==
    /\ pc[t] = "run"
    /\ Goto(t, "failed")
    /\ UNCHANGED <<clock, kind, conv, began, seen, before, tables>>

Answer(t) ==
    /\ pc[t] = "run"
    /\ Goto(t, "answered")
    /\ UNCHANGED <<clock, kind, conv, began, seen, before, tables>>

\* A streamed turn may find its session closed with the endpoint's
\* dependencies, before the body runs, and then begins a transaction anew.
Begins(t, now) ==
    \/ now = began[t] /\ UNCHANGED clock
    \/ kind[t] = "stream" /\ now = clock + 1 /\ clock' = clock + 1

\* _record_turn; the upsert's row lock orders the turns of a conversation.
Record(t) ==
    /\ pc[t] = "answered"
    /\ \E now \in {began[t], clock + 1} :
         /\ Begins(t, now)
         /\ Upsert(t, now)
         /\ messages' = messages \cup Both(t, now)
    /\ Goto(t, "recorded")
    /\ UNCHANGED <<kind, conv, began, seen, before>>

\* The process stops, the client of a stream leaves, or the commit raises:
\* the transaction is rolled back.
Drop(t) ==
    /\ pc[t] \in {"open", "run", "answered"}
    /\ Goto(t, "failed")
    /\ UNCHANGED <<clock, kind, conv, began, seen, before, tables>>

Next ==
    \E t \in Turns :
        \/ \E c \in Conversations, k \in Kinds : Open(t, c, k)
        \/ Unconfigured(t) \/ ReadHistory(t) \/ Fail(t) \/ Answer(t)
        \/ Record(t) \/ Drop(t)

Spec == Init /\ [][Next]_vars

-----------------------------------------------------------------------------
(* Properties. *)

Labels == {"new", "open", "run", "answered", "recorded", "rejected", "failed"}

MessageRows ==
    [id : Nat, conversation : Conversations, turn : Turns,
     role : {"human", "ai"}, at : Nat]

\* Every variable has its type.
TypeOK ==
    /\ clock \in Nat
    /\ pc \in [Turns -> Labels]
    /\ kind \in [Turns -> Kinds \cup {"none"}]
    /\ conv \in [Turns -> Conversations \cup {"none"}]
    /\ began \in [Turns -> Nat]
    /\ seen \in [Turns -> Seq(MessageRows)]
    /\ before \in [Turns -> SUBSET Turns]
    /\ chats \in [Conversations -> [title : Turns \cup {"none"}, updated : Nat]]
    /\ messages \in SUBSET MessageRows

\* The message of turn t, then its reply, in its conversation and at one time.
Pair(t) ==
    \E m, r \in Said(t) :
        /\ Said(t) = {m, r}
        /\ m.role = "human" /\ r.role = "ai"
        /\ m.conversation = conv[t] /\ r.conversation = conv[t]
        /\ r.id = m.id + 1 /\ r.at = m.at

\* No half-written turn: a recorded turn has its message and its reply, once,
\* and any other turn has nothing.
TurnsWhole ==
    \A t \in Turns : IF pc[t] = "recorded" THEN Pair(t) ELSE Said(t) = {}

Earliest(c, m) == \A n \in Of(c) : m.id <= n.id
Latest(c, m) == \A n \in Of(c) : n.id <= m.id

\* The sidebar row of a conversation exists exactly when it has messages, its
\* title is the message recorded first, and a conversation is listed above
\* those whose last turn was recorded before its own last turn came in.
\* list_chats' docstring promises more, "most recently active first": updated_at
\* is now() of a turn's transaction, which begins with the request, so a long
\* turn recorded last is dated before a short one that came in after it and was
\* recorded sooner.  Of turns that overlap this property therefore says nothing.
SidebarMatches ==
    \A c \in Conversations :
        /\ chats[c] = NoRow <=> Of(c) = {}
        /\ \A m \in Of(c) : Earliest(c, m) => chats[c].title = m.turn
        /\ \A d \in Conversations : \A m \in Of(c), n \in Of(d) :
             /\ Latest(c, m) /\ Latest(d, n)
             /\ n.turn \in before[m.turn]
             => chats[d].updated < chats[c].updated

Position(h, t) == {i \in 1..Len(h) : h[i].turn = t}

\* The agent's memory: a run is given every turn that was recorded in its
\* conversation before the request came in, each of them whole.
ReplaysWholeTurns ==
    \A t \in Turns :
        pc[t] \in {"run", "answered", "recorded"} =>
            /\ \A i \in 1..Len(seen[t]) : Cardinality(Position(seen[t], seen[t][i].turn)) = 2
            /\ \A s \in before[t] : conv[s] = conv[t] => Position(seen[t], s) # {}

\* Turns of which one was recorded before the other came in are replayed in
\* that order.
ReplaysInOrder ==
    \A t \in Turns : \A i, k \in 1..Len(seen[t]) :
        seen[t][i].turn \in before[seen[t][k].turn] => i < k

-----------------------------------------------------------------------------
(* What a comment says and the code does not keep. *)

\* _conversation_history: "stored turns, oldest first".  Both messages of a
\* turn have the same created_at, so a reply may be replayed before the
\* message it answers.
HumanBeforeReply ==
    \A t \in Turns : \A i, k \in 1..Len(seen[t]) :
        /\ seen[t][i].turn = seen[t][k].turn
        /\ seen[t][i].role = "human" /\ seen[t][k].role = "ai"
        => i < k
=============================================================================
