-------------------------- MODULE ChatTurnsProofs --------------------------
(***************************************************************************)
(* Safety of conversations, for any turns, conversations and endpoints:    *)
(* turns are stored whole, the sidebar agrees with the messages, and every *)
(* run is given the turns that were recorded before it, whole and in order.*)
(***************************************************************************)
EXTENDS ChatTurns, FiniteSetTheorems, SequenceTheorems, TLAPS

\* Ids count the messages, and a message is dated after its request came in
\* and not later than now.
Stored ==
    /\ IsFiniteSet(messages)
    /\ \A m \in messages :
         /\ m.id \in 1..Cardinality(messages)
         /\ began[m.turn] <= m.at /\ m.at <= clock

\* A turn that has come in has a conversation and a date.
Opened ==
    \A t \in Turns :
        /\ began[t] <= clock
        /\ pc[t] # "new" => began[t] > 0 /\ conv[t] \in Conversations

\* The turns recorded before a request came in are older than it.
Preceding ==
    \A t \in Turns :
        /\ pc[t] = "new" => before[t] = {}
        /\ \A s \in before[t] :
             /\ pc[s] = "recorded"
             /\ \A m \in Said(s) : m.at < began[t]

\* What a run was given is still stored, each message once, by date, and
\* together with the other message of its turn.
Remembered(t) ==
    LET h == seen[t] IN
    /\ \A i \in 1..Len(h) : h[i] \in messages
    /\ \A i, k \in 1..Len(h) : i # k => h[i] # h[k]
    /\ \A i, k \in 1..Len(h) : i < k => h[i].at <= h[k].at
    /\ \A i \in 1..Len(h) : \E k \in 1..Len(h) : k # i /\ h[k].turn = h[i].turn

\* A run was given every turn of its conversation that preceded its request.
Complete(t) ==
    pc[t] \in {"run", "answered", "recorded"} =>
        \A s \in before[t] : conv[s] = conv[t] => \E i \in 1..Len(seen[t]) : seen[t][i].turn = s

\* A conversation is titled by its first message and dated by its last.
Listed ==
    \A c \in Conversations :
        /\ chats[c] = NoRow <=> Of(c) = {}
        /\ \A m \in Of(c) :
             /\ Earliest(c, m) => chats[c].title = m.turn
             /\ Latest(c, m) => chats[c].updated = m.at

IInv ==
    /\ TypeOK /\ Stored /\ Opened /\ Preceding
    /\ \A t \in Turns : Remembered(t) /\ Complete(t)
    /\ TurnsWhole /\ Listed

-----------------------------------------------------------------------------
(* What the tables hold. *)

\* A stored message belongs to a recorded turn, together with one other.
LEMMA StoredPair ==
    ASSUME IInv, NEW m \in messages
    PROVE  /\ m.turn \in Turns /\ pc[m.turn] = "recorded"
           /\ m.conversation = conv[m.turn]
           /\ \E n \in messages :
                /\ n # m /\ n.turn = m.turn /\ n.conversation = m.conversation
                /\ Said(m.turn) = {m, n}
<1>1. m \in MessageRows /\ m.turn \in Turns
  BY DEF IInv, TypeOK, MessageRows
<1>2. m \in Said(m.turn)
  BY DEF Said
<1>3. pc[m.turn] = "recorded"
  BY <1>1, <1>2 DEF IInv, TurnsWhole
<1>4. PICK h \in Said(m.turn), r \in Said(m.turn) :
        /\ Said(m.turn) = {h, r} /\ h.role = "human" /\ r.role = "ai"
        /\ h.conversation = conv[m.turn] /\ r.conversation = conv[m.turn]
  BY <1>1, <1>3 DEF IInv, TurnsWhole, Pair
<1>5. h \in messages /\ r \in messages
  BY <1>4 DEF Said
<1>6. r # h
  BY <1>4
<1>7. h.turn = m.turn /\ r.turn = m.turn
  BY <1>4 DEF Said
<1>8. m = h \/ m = r
  BY <1>2, <1>4
<1> QED
  BY <1>1, <1>3, <1>4, <1>5, <1>6, <1>7, <1>8

\* What ORDER BY created_at may return: every message of the conversation,
\* each once, by date.
LEMMA ReplayFacts ==
    ASSUME IInv, NEW c \in Conversations, NEW h \in Replays(c)
    PROVE  /\ h \in Seq(MessageRows)
           /\ \A i \in 1..Len(h) : h[i] \in Of(c)
           /\ \A i, k \in 1..Len(h) : i # k => h[i] # h[k]
           /\ \A i, k \in 1..Len(h) : i < k => h[i].at <= h[k].at
           /\ \A m \in Of(c) : \E i \in 1..Len(h) : h[i] = m
<1> DEFINE n == Cardinality(Of(c))
<1>1. IsFiniteSet(Of(c)) /\ n \in Nat /\ Of(c) \subseteq MessageRows
  BY FS_Subset, FS_CardinalityType DEF IInv, Stored, TypeOK, Of
<1>2. h \in [1..n -> Of(c)] /\ \A i, k \in 1..n : i # k => h[i] # h[k]
  BY DEF Replays, SetToSeqs
<1> HIDE DEF n
<1>3. h \in Seq(Of(c)) /\ Len(h) = n
  BY <1>1, <1>2, SeqDef, LenProperties
<1>4. h \in Seq(MessageRows)
  BY <1>1, <1>3, SeqMonotonic
<1>5. h \in Injection(1..n, Of(c))
  BY <1>2 DEF Injection, IsInjective
<1>6. IsFiniteSet(1..n) /\ Cardinality(1..n) = n
  BY <1>1, FS_Interval
<1>7. h \in Surjection(1..n, Of(c))
  BY <1>1, <1>5, <1>6, FS_Injection DEF n
<1>8. \A m \in Of(c) : \E i \in 1..n : h[i] = m
  BY <1>7 DEF Surjection
<1>9. \A i, k \in 1..Len(h) : i < k => h[i].at <= h[k].at
  BY DEF Replays
<1> QED
  BY <1>2, <1>3, <1>4, <1>8, <1>9

-----------------------------------------------------------------------------
(* Steps. *)

LEMMA InitInv == Init => IInv
<1> SUFFICES ASSUME Init PROVE IInv
  OBVIOUS
<1>1. messages = {} /\ \A t \in Turns : Said(t) = {}
  BY DEF Init, Said
<1>2. \A t \in Turns : seen[t] = <<>> /\ Len(seen[t]) = 0
  BY EmptySeq DEF Init
<1>3. TypeOK
  <2>1. seen \in [Turns -> Seq(MessageRows)]
    BY EmptySeq DEF Init
  <2>2. chats \in [Conversations -> [title : Turns \cup {"none"}, updated : Nat]]
    BY DEF Init, NoRow
  <2> QED
    BY <1>1, <2>1, <2>2 DEF Init, TypeOK, Labels
<1>4. Stored /\ Opened /\ Preceding
  BY <1>1, FS_EmptySet DEF Init, Stored, Opened, Preceding
<1>5. \A t \in Turns : Remembered(t) /\ Complete(t)
  BY <1>2 DEF Init, Remembered, Complete
<1>6. TurnsWhole /\ Listed
  BY <1>1 DEF Init, TurnsWhole, Listed, Of
<1> QED
  BY <1>3, <1>4, <1>5, <1>6 DEF IInv

\* A turn remembers what it was given while no message is removed.
LEMMA RememberedFrame ==
    ASSUME NEW t \in Turns, Remembered(t), seen'[t] = seen[t], messages \subseteq messages'
    PROVE  Remembered(t)'
<1> DEFINE h == seen[t]
<1>1. h' = h
  OBVIOUS
<1> QED
  BY <1>1 DEF Remembered

LEMMA CompleteFrame ==
    ASSUME NEW t \in Turns, Complete(t), seen'[t] = seen[t], before'[t] = before[t],
           conv'[t] = conv[t], \A s \in before[t] : conv'[s] = conv[s],
           pc'[t] \in {"run", "answered", "recorded"} => pc[t] \in {"run", "answered", "recorded"}
    PROVE  Complete(t)'
BY DEF Complete

\* Turns stay whole while their messages and the recorded ones stay the same.
LEMMA WholeFrame ==
    ASSUME TurnsWhole, NEW t \in Turns, Said(t)' = Said(t), conv'[t] = conv[t],
           pc'[t] = "recorded" <=> pc[t] = "recorded"
    PROVE  (IF pc[t] = "recorded" THEN Pair(t) ELSE Said(t) = {})'
BY DEF TurnsWhole, Pair

\* A step that only moves a turn between labels, none of them recorded and
\* none with a run to come, keeps the invariant.
LEMMA LabelStep ==
    ASSUME IInv, NEW t \in Turns, NEW l \in Labels, Goto(t, l),
           pc[t] \notin {"new", "recorded"}, l \notin {"new", "recorded"},
           l \in {"run", "answered"} => pc[t] \in {"run", "answered"},
           UNCHANGED <<clock, kind, conv, began, seen, before, tables>>
    PROVE  IInv'
<1>1. pc' = [pc EXCEPT ![t] = l] /\ pc \in [Turns -> Labels]
  BY DEF Goto, IInv, TypeOK
<1>2. TypeOK' /\ Stored' /\ Opened' /\ Preceding'
  BY <1>1 DEF IInv, TypeOK, Stored, Opened, Preceding, Said, tables
<1>3. \A s \in Turns : Remembered(s)' /\ Complete(s)'
  <2>1. \A s \in Turns : pc'[s] \in {"run", "answered", "recorded"}
                            => pc[s] \in {"run", "answered", "recorded"}
    BY <1>1
  <2> QED
    BY <2>1, RememberedFrame, CompleteFrame DEF IInv, tables
<1>4. TurnsWhole'
  <2>1. \A s \in Turns : pc'[s] = "recorded" <=> pc[s] = "recorded"
    BY <1>1
  <2>2. \A s \in Turns : Said(s)' = Said(s) /\ conv'[s] = conv[s]
    BY DEF Said, tables
  <2> QED
    BY <2>1, <2>2, WholeFrame DEF IInv, TurnsWhole
<1>5. Listed'
  BY DEF IInv, Listed, Of, Earliest, Latest, tables
<1> QED
  BY <1>2, <1>3, <1>4, <1>5 DEF IInv

LEMMA QuietStep ==
    ASSUME IInv, NEW t \in Turns, Unconfigured(t) \/ Fail(t) \/ Answer(t) \/ Drop(t)
    PROVE  IInv'
<1>1. CASE Unconfigured(t)
  BY <1>1, LabelStep DEF Unconfigured, Labels
<1>2. CASE Fail(t)
  BY <1>2, LabelStep DEF Fail, Labels
<1>3. CASE Answer(t)
  BY <1>3, LabelStep DEF Answer, Labels
<1>4. CASE Drop(t)
  BY <1>4, LabelStep DEF Drop, Labels
<1> QED
  BY <1>1, <1>2, <1>3, <1>4

\* Whatever is stored when a request comes in is older than the request.
LEMMA OpenStep ==
    ASSUME IInv, NEW t \in Turns, NEW c \in Conversations, NEW k \in Kinds, Open(t, c, k)
    PROVE  IInv'
<1>1. /\ pc[t] = "new" /\ clock' = clock + 1 /\ clock \in Nat
      /\ pc' = [pc EXCEPT ![t] = "open"] /\ began' = [began EXCEPT ![t] = clock + 1]
      /\ conv' = [conv EXCEPT ![t] = c] /\ kind' = [kind EXCEPT ![t] = k]
      /\ before' = [before EXCEPT ![t] = {m.turn : m \in messages}]
      /\ seen' = seen /\ chats' = chats /\ messages' = messages
  BY DEF Open, Goto, IInv, TypeOK, tables
<1>2. \A m \in messages : m.turn \in Turns /\ m.turn # t /\ pc[m.turn] = "recorded"
                          /\ m.conversation = conv[m.turn]
  BY <1>1, StoredPair
<1>3. TypeOK'
  BY <1>1, <1>2 DEF IInv, TypeOK, Labels, Of
<1>4. Stored'
  BY <1>1, <1>2 DEF IInv, Stored, TypeOK, MessageRows
<1>5. Opened'
  BY <1>1 DEF IInv, Opened, TypeOK
<1>6. Preceding'
  <2>1. ASSUME NEW s \in before'[t]
        PROVE  /\ s # t /\ pc'[s] = "recorded"
               /\ \A m \in Said(s) : m.at < clock + 1
    <3>1. PICK n \in messages : n.turn = s
      BY <1>1 DEF IInv, TypeOK
    <3>2. s \in Turns /\ s # t /\ pc[s] = "recorded"
      BY <1>2, <3>1
    <3>3. \A m \in Said(s) : m.at < clock + 1
      BY <1>1 DEF Said, IInv, Stored, TypeOK, MessageRows
    <3> QED
      BY <1>1, <3>2, <3>3 DEF IInv, TypeOK
  <2>2. ASSUME NEW u \in Turns \ {t}, NEW s \in before'[u]
        PROVE  /\ s # t /\ pc'[s] = "recorded"
               /\ \A m \in Said(s) : m.at < began'[u]
    BY <1>1 DEF IInv, Preceding, TypeOK
  <2>3. \A s : Said(s)' = Said(s)
    BY <1>1 DEF Said
  <2>4. began'[t] = clock + 1 /\ conv'[t] = c /\ pc'[t] = "open"
    BY <1>1 DEF IInv, TypeOK
  <2>5. \A u \in Turns \ {t} : pc'[u] = pc[u] /\ before'[u] = before[u]
    BY <1>1 DEF IInv, TypeOK
  <2> QED
    BY <2>1, <2>2, <2>3, <2>4, <2>5 DEF IInv, Preceding
<1>7. \A s \in Turns : Remembered(s)' /\ Complete(s)'
  <2>1. \A s \in Turns : Remembered(s)'
    BY <1>1 DEF IInv, Remembered
  <2>2. Complete(t)'
    BY <1>1 DEF IInv, Complete, TypeOK
  <2>3. ASSUME NEW u \in Turns \ {t} PROVE Complete(u)'
    <3>1. /\ pc'[u] = pc[u] /\ before'[u] = before[u] /\ conv'[u] = conv[u]
          /\ seen'[u] = seen[u]
      BY <1>1 DEF IInv, TypeOK
    <3>2. \A s \in before[u] : s \in Turns \ {t}
      BY <1>1 DEF IInv, Preceding, TypeOK
    <3>3. \A s \in before[u] : conv'[s] = conv[s]
      BY <1>1, <3>2 DEF IInv, TypeOK
    <3> QED
      BY <3>1, <3>3, CompleteFrame DEF IInv
  <2> QED
    BY <2>1, <2>2, <2>3
<1>8. TurnsWhole'
  <2>1. \A s \in Turns : Said(s)' = Said(s)
    BY <1>1 DEF Said
  <2>2. Said(t) = {} /\ pc'[t] # "recorded"
    BY <1>1 DEF IInv, TurnsWhole, TypeOK
  <2>3. \A s \in Turns \ {t} : pc'[s] = pc[s] /\ conv'[s] = conv[s]
    BY <1>1 DEF IInv, TypeOK
  <2>4. \A s \in Turns \ {t} : Pair(s)' <=> Pair(s)
    BY <2>1, <2>3 DEF Pair
  <2> QED
    BY <2>1, <2>2, <2>3, <2>4 DEF IInv, TurnsWhole
<1>9. Listed'
  BY <1>1 DEF IInv, Listed, Of, Earliest, Latest
<1> QED
  BY <1>3, <1>4, <1>5, <1>6, <1>7, <1>8, <1>9 DEF IInv

\* The history is all of the conversation at that moment.
LEMMA ReadStep ==
    ASSUME IInv, NEW t \in Turns, ReadHistory(t)
    PROVE  IInv'
<1>1. PICK h \in Replays(conv[t]) : seen' = [seen EXCEPT ![t] = h]
  BY DEF ReadHistory
<1>2. /\ pc[t] = "open" /\ pc' = [pc EXCEPT ![t] = "run"]
      /\ UNCHANGED <<clock, kind, conv, began, before>> /\ chats' = chats /\ messages' = messages
      /\ conv[t] \in Conversations
  BY DEF ReadHistory, Goto, tables, IInv, Opened
<1>3. /\ h \in Seq(MessageRows)
      /\ \A i \in 1..Len(h) : h[i] \in Of(conv[t])
      /\ \A i, k \in 1..Len(h) : i # k => h[i] # h[k]
      /\ \A i, k \in 1..Len(h) : i < k => h[i].at <= h[k].at
      /\ \A m \in Of(conv[t]) : \E i \in 1..Len(h) : h[i] = m
  BY <1>1, <1>2, ReplayFacts
<1>4. TypeOK'
  BY <1>1, <1>2, <1>3 DEF IInv, TypeOK, Labels
<1>5. Stored' /\ Opened' /\ Preceding'
  BY <1>2 DEF IInv, Stored, Opened, Preceding, Said, TypeOK
<1>6. seen'[t] = h /\ \A s \in Turns \ {t} : seen'[s] = seen[s] /\ pc'[s] = pc[s]
  BY <1>1, <1>2 DEF IInv, TypeOK
<1>7. Remembered(t)'
  <2>1. ASSUME NEW i \in 1..Len(h)
        PROVE  \E k \in 1..Len(h) : k # i /\ h[k].turn = h[i].turn
    <3>1. PICK n \in messages : n # h[i] /\ n.turn = h[i].turn /\ n.conversation = conv[t]
      BY <1>3, StoredPair DEF Of
    <3> QED
      BY <1>3, <3>1 DEF Of
  <2>2. \A i \in 1..Len(h) : h[i] \in messages
    BY <1>3 DEF Of
  <2> QED
    BY <1>2, <1>3, <1>6, <2>1, <2>2 DEF Remembered
<1>8. Complete(t)'
  <2>1. ASSUME NEW s \in before[t], conv[s] = conv[t]
        PROVE  \E i \in 1..Len(h) : h[i].turn = s
    <3>1. s \in Turns /\ pc[s] = "recorded"
      BY DEF IInv, Preceding, TypeOK
    <3>2. PICK m \in Said(s) : m.conversation = conv[t]
      BY <2>1, <3>1 DEF IInv, TurnsWhole, Pair
    <3>3. m \in Of(conv[t]) /\ m.turn = s
      BY <3>2 DEF Of, Said
    <3> QED
      BY <1>3, <3>3
  <2> QED
    BY <1>2, <1>6, <2>1 DEF Complete
<1>9. \A s \in Turns \ {t} : Remembered(s)' /\ Complete(s)'
  BY <1>2, <1>6, RememberedFrame, CompleteFrame DEF IInv
<1>10. TurnsWhole'
  <2>1. \A s \in Turns : pc'[s] = "recorded" <=> pc[s] = "recorded"
    BY <1>2 DEF IInv, TypeOK
  <2> QED
    BY <1>2, <2>1, WholeFrame DEF IInv, TurnsWhole, Said
<1>11. Listed'
  BY <1>2 DEF IInv, Listed, Of, Earliest, Latest
<1> QED
  BY <1>4, <1>5, <1>7, <1>8, <1>9, <1>10, <1>11 DEF IInv

\* Recording adds one pair, after every message there is: the earliest message
\* of a conversation stays and its latest is the new reply.
LEMMA RecordStep ==
    ASSUME IInv, NEW t \in Turns, Record(t)
    PROVE  IInv'
<1>0. PICK c \in Conversations : c = conv[t]
  BY DEF Record, IInv, Opened
<1> DEFINE n == Cardinality(messages)
<1>1. PICK now \in {began[t], clock + 1} :
        Begins(t, now) /\ Upsert(t, now) /\ messages' = messages \cup Both(t, now)
  BY DEF Record
<1> DEFINE h == Message(n + 1, t, "human", now)
           r == Message(n + 2, t, "ai", now)
<1>2. /\ pc[t] = "answered" /\ pc' = [pc EXCEPT ![t] = "recorded"]
      /\ UNCHANGED <<kind, conv, began, seen, before>>
      /\ conv[t] = c /\ began[t] > 0 /\ began[t] <= clock
      /\ clock \in Nat /\ began[t] \in Nat
  BY <1>0 DEF Record, Goto, IInv, Opened, TypeOK
<1>3. now \in Nat /\ now > 0 /\ began[t] <= now /\ now <= clock' /\ clock' \in Nat /\ clock <= clock'
  BY <1>1, <1>2 DEF Begins
<1>4. IsFiniteSet(messages) /\ n \in Nat /\ \A m \in messages : m.id \in 1..n
  BY FS_CardinalityType DEF IInv, Stored
<1>5. /\ h \in MessageRows /\ r \in MessageRows /\ messages' = messages \cup {h, r}
      /\ h.id = n + 1 /\ r.id = n + 2 /\ h.turn = t /\ r.turn = t /\ h.at = now /\ r.at = now
      /\ h.conversation = c /\ r.conversation = c /\ h.role = "human" /\ r.role = "ai"
  BY <1>1, <1>2, <1>3, <1>4 DEF Both, Message, MessageRows
<1>6. r.id = h.id + 1
  BY <1>4, <1>5
<1> HIDE DEF n, h, r
<1>7. Cardinality(messages') = n + 2 /\ IsFiniteSet(messages')
  <2>1. h \notin messages /\ r \notin messages \cup {h}
    BY <1>4, <1>5
  <2>2. IsFiniteSet(messages \cup {h}) /\ Cardinality(messages \cup {h}) = n + 1
    BY <1>4, <2>1, FS_AddElement DEF n
  <2>3. messages' = (messages \cup {h}) \cup {r}
    BY <1>5
  <2>4. Cardinality(messages') = (n + 1) + 1 /\ IsFiniteSet(messages')
    BY <2>1, <2>2, <2>3, FS_AddElement
  <2> QED
    BY <1>4, <2>4
<1>8. chats' = [chats EXCEPT ![c] = [title |-> IF chats[c] = NoRow THEN t ELSE chats[c].title,
                                     updated |-> now]]
  BY <1>0, <1>1 DEF Upsert
<1>9. TypeOK'
  <2>1. messages' \in SUBSET MessageRows
    BY <1>5 DEF IInv, TypeOK
  <2>2. chats' \in [Conversations -> [title : Turns \cup {"none"}, updated : Nat]]
    BY <1>2, <1>3, <1>8 DEF IInv, TypeOK
  <2> QED
    BY <1>2, <1>3, <2>1, <2>2 DEF IInv, TypeOK, Labels
<1>10. Stored'
  <2>1. ASSUME NEW m \in messages'
        PROVE  m.id \in 1..(n + 2) /\ began[m.turn] <= m.at /\ m.at <= clock'
    <3>1. CASE m \in messages
      <4>1. m.id \in 1..n /\ began[m.turn] <= m.at /\ m.at <= clock /\ m.at \in Nat
        BY <1>4, <3>1 DEF IInv, Stored, TypeOK, MessageRows
      <4> QED
        BY <1>2, <1>3, <1>4, <4>1
    <3>2. CASE m \in {h, r}
      BY <1>2, <1>3, <1>4, <1>5, <3>2
    <3> QED
      BY <1>5, <3>1, <3>2
  <2> QED
    BY <1>2, <1>7, <2>1 DEF Stored
<1>11. Opened'
  BY <1>2, <1>3 DEF IInv, Opened, TypeOK
<1>12. \A s \in Turns \ {t} : Said(s)' = Said(s) /\ pc'[s] = pc[s]
  BY <1>2, <1>5 DEF Said, IInv, TypeOK
<1>13. Preceding'
  BY <1>2, <1>12 DEF IInv, Preceding, TypeOK
<1>14. \A s \in Turns : Remembered(s)' /\ Complete(s)'
  BY <1>2, <1>5, RememberedFrame, CompleteFrame DEF IInv, TypeOK
<1>15. TurnsWhole'
  <2>1. Said(t)' = {h, r}
    BY <1>2, <1>5 DEF IInv, TurnsWhole, Said
  <2>2. Pair(t)'
    BY <1>2, <1>5, <1>6, <2>1 DEF Pair
  <2>3. pc'[t] = "recorded"
    BY <1>2 DEF IInv, TypeOK
  <2>4. ASSUME NEW s \in Turns
        PROVE  (IF pc[s] = "recorded" THEN Pair(s) ELSE Said(s) = {})'
    <3>1. CASE s = t
      BY <2>2, <2>3, <3>1
    <3>2. CASE s # t
      BY <1>2, <1>12, <3>2, WholeFrame DEF IInv
    <3> QED
      BY <3>1, <3>2
  <2> QED
    BY <2>4 DEF TurnsWhole
<1>16. Listed'
  <2>1. ASSUME NEW d \in Conversations \ {c}
        PROVE  Of(d)' = Of(d) /\ chats'[d] = chats[d]
    BY <1>2, <1>5, <1>8 DEF Of, IInv, TypeOK
  <2>2. Of(c)' = Of(c) \cup {h, r}
    BY <1>5 DEF Of
  <2>3. chats'[c] = [title |-> IF chats[c] = NoRow THEN t ELSE chats[c].title, updated |-> now]
    BY <1>2, <1>8 DEF IInv, TypeOK
  <2>4. chats'[c] # NoRow
    BY <1>3, <2>3 DEF NoRow
  <2>5. ASSUME NEW m \in Of(c)', \A k \in Of(c)' : m.id <= k.id
        PROVE  chats'[c].title = m.turn
    <3>1. CASE Of(c) = {}
      BY <1>2, <1>5, <2>2, <2>3, <2>5, <3>1 DEF IInv, Listed
    <3>2. CASE Of(c) # {}
      <4>1. PICK k \in Of(c) : TRUE
        BY <3>2
      <4>2. k.id \in 1..n /\ m.id <= k.id
        BY <1>4, <2>2, <2>5, <4>1 DEF Of
      <4>3. m \in Of(c)
        BY <1>4, <1>5, <2>2, <4>2
      <4>4. Earliest(c, m)
        BY <2>2, <2>5 DEF Earliest
      <4>5. chats[c] # NoRow /\ chats[c].title = m.turn
        BY <1>2, <3>2, <4>3, <4>4 DEF IInv, Listed
      <4> QED
        BY <2>3, <4>5
    <3> QED
      BY <3>1, <3>2
  <2>6. ASSUME NEW m \in Of(c)', \A k \in Of(c)' : k.id <= m.id
        PROVE  chats'[c].updated = m.at
    <3>1. r.id <= m.id
      BY <2>2, <2>6
    <3>2. m \notin Of(c)
      BY <1>4, <1>5, <3>1 DEF Of
    <3>3. m.at = now
      BY <1>5, <2>2, <3>2
    <3> QED
      BY <2>3, <3>3
  <2>7. ASSUME NEW d \in Conversations
        PROVE  (/\ chats[d] = NoRow <=> Of(d) = {}
                /\ \A m \in Of(d) :
                     /\ Earliest(d, m) => chats[d].title = m.turn
                     /\ Latest(d, m) => chats[d].updated = m.at)'
    <3>1. CASE d = c
      BY <2>2, <2>4, <2>5, <2>6, <3>1 DEF Earliest, Latest
    <3>2. CASE d # c
      BY <2>1, <3>2 DEF IInv, Listed, Earliest, Latest
    <3> QED
      BY <3>1, <3>2
  <2> QED
    BY <2>7 DEF Listed
<1> QED
  BY <1>9, <1>10, <1>11, <1>13, <1>14, <1>15, <1>16 DEF IInv

LEMMA NextInv == IInv /\ [Next]_vars => IInv'
<1>1. ASSUME IInv, UNCHANGED vars PROVE IInv'
  <2>1. TypeOK' /\ Stored' /\ Opened' /\ Preceding' /\ Listed'
    BY <1>1 DEF IInv, TypeOK, Stored, Opened, Preceding, Listed, Said, Of, Earliest,
                Latest, vars, request, tables
  <2>2. \A t \in Turns : Remembered(t)' /\ Complete(t)'
    BY <1>1, RememberedFrame, CompleteFrame DEF IInv, vars, request, tables
  <2>3. TurnsWhole'
    BY <1>1, WholeFrame DEF IInv, TurnsWhole, Said, vars, request, tables
  <2> QED
    BY <2>1, <2>2, <2>3 DEF IInv
<1> QED
  BY <1>1, QuietStep, OpenStep, ReadStep, RecordStep DEF Next

-----------------------------------------------------------------------------
(* Theorems. *)

\* The inductive invariant holds in every reachable state.
THEOREM Invariance == Spec => []IInv
BY InitInv, NextInv, PTL DEF Spec

\* Every variable keeps its type.
THEOREM TypeCorrect == Spec => []TypeOK
<1>1. IInv => TypeOK
  BY DEF IInv
<1> QED
  BY <1>1, Invariance, PTL

\* A turn is stored whole or not at all (_record_turn's single commit).
THEOREM WholeTurns == Spec => []TurnsWhole
<1>1. IInv => TurnsWhole
  BY DEF IInv
<1> QED
  BY <1>1, Invariance, PTL

\* The sidebar agrees with the messages, and lists turns that did not overlap
\* newest first (_record_turn's upsert).
THEOREM SidebarAgrees == Spec => []SidebarMatches
<1>1. ASSUME IInv PROVE SidebarMatches
  <2>1. ASSUME NEW c \in Conversations, NEW d \in Conversations,
               NEW m \in Of(c), NEW n \in Of(d), Latest(c, m), Latest(d, n),
               n.turn \in before[m.turn]
        PROVE  chats[d].updated < chats[c].updated
    <3>1. /\ m \in messages /\ n \in messages /\ m.at \in Nat /\ n.at \in Nat
          /\ m.turn \in Turns /\ n.turn \in Turns /\ began[m.turn] \in Nat
      BY <1>1 DEF Of, IInv, TypeOK, MessageRows
    <3>2. n.at < began[m.turn]
      BY <1>1, <2>1, <3>1 DEF IInv, Preceding, Said
    <3>3. began[m.turn] <= m.at
      BY <1>1, <3>1 DEF IInv, Stored
    <3>4. chats[c].updated = m.at /\ chats[d].updated = n.at
      BY <1>1, <2>1 DEF IInv, Listed
    <3> QED
      BY <3>1, <3>2, <3>3, <3>4
  <2> QED
    BY <1>1, <2>1 DEF IInv, Listed, SidebarMatches
<1> QED
  BY <1>1, Invariance, PTL

\* A run is given every turn recorded before its request, each of them whole.
THEOREM WholeMemory == Spec => []ReplaysWholeTurns
<1>1. ASSUME IInv PROVE ReplaysWholeTurns
  <2>1. ASSUME NEW t \in Turns, NEW i \in 1..Len(seen[t])
        PROVE  Cardinality(Position(seen[t], seen[t][i].turn)) = 2
    <3> DEFINE h == seen[t]
    <3>1. Remembered(t) /\ h[i] \in messages
      BY <1>1, <2>1 DEF IInv, Remembered
    <3>2. PICK k \in 1..Len(h) : k # i /\ h[k].turn = h[i].turn
      BY <3>1 DEF Remembered
    <3>3. PICK m \in messages : m # h[i] /\ Said(h[i].turn) = {h[i], m}
      BY <1>1, <3>1, StoredPair
    <3>4. ASSUME NEW j \in 1..Len(h), h[j].turn = h[i].turn PROVE j \in {i, k}
      <4>1. h[j] \in Said(h[i].turn) /\ h[k] \in Said(h[i].turn)
        BY <3>1, <3>2, <3>4 DEF Remembered, Said
      <4>2. h[k] # h[i] /\ (j # i => h[j] # h[i]) /\ (j # k => h[j] # h[k])
        BY <3>1, <3>2 DEF Remembered
      <4> QED
        BY <3>3, <4>1, <4>2
    <3>5. Position(h, h[i].turn) = {i} \cup {k}
      BY <3>2, <3>4 DEF Position
    <3>6. Cardinality({i} \cup {k}) = 2
      <4>1. IsFiniteSet({i}) /\ Cardinality({i}) = 1 /\ k \notin {i}
        BY <3>2, FS_Singleton
      <4>2. Cardinality({i} \cup {k}) = Cardinality({i}) + 1
        BY <4>1, FS_AddElement
      <4> QED
        BY <4>1, <4>2
    <3> QED
      BY <3>5, <3>6
  <2>2. ASSUME NEW t \in Turns, pc[t] \in {"run", "answered", "recorded"}, NEW s \in before[t],
               conv[s] = conv[t]
        PROVE  Position(seen[t], s) # {}
    BY <1>1, <2>2 DEF IInv, Complete, Position
  <2> QED
    BY <2>1, <2>2 DEF ReplaysWholeTurns
<1> QED
  BY <1>1, Invariance, PTL

\* Turns that did not overlap are replayed in the order they were made
\* (_conversation_history's ORDER BY).
THEOREM OrderedMemory == Spec => []ReplaysInOrder
<1>1. ASSUME IInv PROVE ReplaysInOrder
  <2> SUFFICES ASSUME NEW t \in Turns, NEW i \in 1..Len(seen[t]), NEW k \in 1..Len(seen[t]),
                      seen[t][i].turn \in before[seen[t][k].turn]
               PROVE  i < k
    BY DEF ReplaysInOrder
  <2> DEFINE m == seen[t][i]
             u == seen[t][k]
  <2>1. /\ m \in messages /\ u \in messages /\ m.at \in Nat /\ u.at \in Nat
        /\ m.turn \in Turns /\ u.turn \in Turns /\ began[u.turn] \in Nat
    <3>1. m \in messages /\ u \in messages
      BY <1>1 DEF IInv, Remembered
    <3>2. m \in MessageRows /\ u \in MessageRows
      BY <1>1, <3>1 DEF IInv, TypeOK
    <3>3. \A x \in MessageRows : x.at \in Nat /\ x.turn \in Turns
      BY DEF MessageRows
    <3> QED
      BY <1>1, <3>1, <3>2, <3>3 DEF IInv, TypeOK
  <2>2. m.at < began[u.turn]
    BY <1>1, <2>1 DEF IInv, Preceding, Said
  <2>3. began[u.turn] <= u.at
    BY <1>1, <2>1 DEF IInv, Stored
  <2>4. ~(u.at <= m.at)
    BY <2>1, <2>2, <2>3
  <2>5. seen[t] \in Seq(MessageRows) /\ Len(seen[t]) \in Nat
    BY <1>1, LenProperties DEF IInv, TypeOK
  <2>6. ~(k < i) /\ k # i
    BY <1>1, <2>1, <2>4 DEF IInv, Remembered
  <2> QED
    BY <2>5, <2>6
<1> QED
  BY <1>1, Invariance, PTL
=============================================================================
