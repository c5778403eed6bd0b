------------------------- MODULE AgentSettingsProofs -------------------------
(***************************************************************************)
(* Safety of one user's agent configuration, for any number of saves,      *)
(* clears and chats and any size of the cache: no chat runs with a key or  *)
(* an endpoint of another save or provider, each is served by an agent     *)
(* built for its own settings, and a partial clear stays partial.          *)
(***************************************************************************)
EXTENDS AgentSettings, FiniteSetTheorems, SequenceTheorems, TLAPS

USE NullAssumption, CacheAssumption

Secrets == {"key", "url"}
Past == Saves \ todo

\* Whatever clears have taken away, what is left of a key and an endpoint is of
\* one save, and so is the provider.
OneSave(llm) ==
    /\ llm.key # Null /\ llm.url # Null => llm.key = llm.url
    /\ \A f \in Secrets : llm[f] # Null =>
          llm[f] \in Past /\ llm.provider \in {Null, saved[llm[f]].provider}

\* A chat's call is as one save left it, and names a provider.
OneCall(c) ==
    /\ c.key # Null /\ c.url # Null => c.key = c.url
    /\ \A f \in Secrets : c[f] # Null => c[f] \in Past /\ saved[c[f]].provider = c.provider

\* The n-th use in u is the last one of k, and what was used since.
IsLast(u, n, k) == u[n] = k /\ \A m \in n + 1..Len(u) : u[m] # k
After(u, n) == {u[m] : m \in n + 1..Len(u)}
KeysFrom(c, n) == {c[j].key : j \in n..Len(c)}

\* A cache c after uses u: what was used after the last use of an entry's key are the
\* keys of the entries behind it, and a used key that is not cached has MaxCached
\* others used after it.
Recent(c, u) ==
    /\ Len(c) <= MaxCached
    /\ \A i, j \in 1..Len(c) : c[i].key = c[j].key => i = j
    /\ \A m \in 1..Len(u) : \E n \in 1..Len(u) : IsLast(u, n, u[m])
    /\ \A i \in 1..Len(c) : \E n \in 1..Len(u) :
          IsLast(u, n, c[i].key) /\ After(u, n) = KeysFrom(c, i + 1)
    /\ \A n \in 1..Len(u) : IsLast(u, n, u[n]) =>
          u[n] \in KeysFrom(c, 1) \/ Cardinality(After(u, n)) >= MaxCached

IInv ==
    /\ TypeOK
    /\ OneSave(row.llm)
    /\ \A r \in Requests : OneCall(req[r].call)
    /\ \A i \in 1..Len(cache) : cache[i].agent = cache[i].key
    /\ ServesOwnSettings
    /\ Recent(cache, used)

-----------------------------------------------------------------------------
(* Types of what the handlers build. *)

LEMMA NoLLMType == NoLLM \in LLMs /\ NoLLM \in Calls /\ NoRow \in Rows
BY DEF NoLLM, NoRow, LLMs, Calls, Rows, Values

LEMMA FreshType ==
    Fresh \in [op : {"new", "clear", "resolved", "served", "done"},
               scope : Scopes \cup {"none"}, copy : Rows, call : Calls, agent : Calls]
BY NoLLMType DEF Fresh

LEMMA ValidLLMType ==
    ASSUME NEW s \in Saves, NEW llm \in ValidLLM(s)
    PROVE  /\ llm \in LLMs
           /\ llm.key \in {s, Null} /\ llm.url \in {s, Null}
BY DEF ValidLLM, LLMs, Values

LEMMA ResolvedType ==
    ASSUME TypeOK, NEW p \in Providers \cup {Null}, NEW m \in Overrides \cup {Null},
           Configured(Resolved(p, m))
    PROVE  Resolved(p, m) \in Calls
<1> DEFINE c == Resolved(p, m)
<1>1. row.llm \in LLMs
  BY DEF TypeOK, Rows
<1>2. c.provider \in Providers \cup {Null} /\ c.key \in Values /\ c.url \in Values
  BY <1>1 DEF Resolved, Or, LLMs, Values
<1>3. Or(m, row.llm.model) \in Values \cup {Blank} \cup Overrides
  BY <1>1 DEF Or, LLMs, Values
<1>4. c.model \in Values \cup Overrides \cup {DefaultModel}
  <2>1. c.model = Model(c.provider, Or(m, row.llm.model))
    BY DEF Resolved
  <2>2. CASE c.provider = Compatible
    BY <1>3, <2>1, <2>2 DEF Model
  <2>3. CASE c.provider # Compatible
    BY <1>3, <2>1, <2>3 DEF Model, Configured
  <2> QED
    BY <2>2, <2>3
<1>5. c = [provider |-> c.provider, model |-> c.model, key |-> c.key, url |-> c.url]
  BY DEF Resolved
<1> QED
  BY <1>2, <1>4, <1>5 DEF Calls

\* Where the entries are after a hit.
LEMMA TouchPlaces ==
    ASSUME NEW E, cache \in Seq(E), NEW k, Cached(k)
    PROVE  /\ Place(k) \in 1..Len(cache) /\ Entry(k) \in E /\ Entry(k).key = k
           /\ Touch(k) \in Seq(E) /\ Len(Touch(k)) = Len(cache)
           /\ \A i \in 1..Len(cache) :
                Touch(k)[i] = IF i = Len(cache) THEN Entry(k)
                              ELSE IF i < Place(k) THEN cache[i] ELSE cache[i + 1]
<1>0. Len(cache) \in Nat
  OBVIOUS
<1>1. Place(k) \in 1..Len(cache) /\ cache[Place(k)].key = k
  BY DEF Place, Cached
<1> DEFINE n == Place(k)
           before == SubSeq(cache, 1, n - 1)
           after == SubSeq(cache, n + 1, Len(cache))
<1>2. /\ before \in Seq(E) /\ Len(before) = n - 1
      /\ \A i \in 1..n - 1 : before[i] = cache[i]
  BY <1>0, <1>1
<1>3. /\ after \in Seq(E) /\ Len(after) = Len(cache) - n
      /\ \A i \in 1..Len(cache) - n : after[i] = cache[n + i]
  BY <1>0, <1>1
<1> DEFINE rest == before \o after
<1> HIDE DEF before, after
<1>4. /\ rest \in Seq(E) /\ Len(rest) = Len(before) + Len(after)
      /\ \A i \in 1..Len(before) + Len(after) :
           rest[i] = IF i <= Len(before) THEN before[i] ELSE after[i - Len(before)]
  <2>1. before \in Seq(E) /\ after \in Seq(E)
    BY <1>2, <1>3
  <2> QED
    BY <2>1, ConcatProperties, Zenon
<1> HIDE DEF rest
<1>5. Len(rest) = Len(cache) - 1
  BY <1>0, <1>1, <1>2, <1>3, <1>4
<1>6. ASSUME NEW i \in 1..Len(rest)
      PROVE  rest[i] = IF i < n THEN cache[i] ELSE cache[i + 1]
  <2>1. CASE i <= n - 1
    BY <1>0, <1>1, <1>2, <1>4, <1>5, <2>1
  <2>2. CASE ~(i <= n - 1)
    <3>1. i - (n - 1) \in 1..Len(cache) - n /\ n + (i - (n - 1)) = i + 1
      BY <1>0, <1>1, <1>5, <2>2
    <3>2. rest[i] = after[i - (n - 1)]
      BY <1>0, <1>1, <1>2, <1>3, <1>4, <1>5, <2>2
    <3> QED
      BY <1>1, <1>3, <2>2, <3>1, <3>2
  <2> QED
    BY <2>1, <2>2
<1>7. Touch(k) = Append(rest, cache[n])
  BY DEF Touch, RemoveAt, Entry, rest, before, after
<1> HIDE DEF n
<1>8. cache[n] \in E
  BY <1>1 DEF n
<1>9. /\ Touch(k) \in Seq(E) /\ Len(Touch(k)) = Len(rest) + 1
      /\ \A i \in 1..Len(rest) : Touch(k)[i] = rest[i]
      /\ Touch(k)[Len(rest) + 1] = cache[n]
  BY <1>4, <1>7, <1>8, AppendProperties
<1>10. ASSUME NEW i \in 1..Len(cache)
       PROVE  Touch(k)[i] = IF i = Len(cache) THEN cache[n]
                            ELSE IF i < n THEN cache[i] ELSE cache[i + 1]
  <2>1. CASE i = Len(cache)
    BY <1>0, <1>5, <1>9, <2>1
  <2>2. CASE i # Len(cache)
    <3>1. i \in 1..Len(rest)
      BY <1>0, <1>5, <2>2
    <3> QED
      BY <1>6, <1>9, <2>2, <3>1
  <2> QED
    BY <2>1, <2>2
<1>11. Len(Touch(k)) = Len(cache)
  BY <1>0, <1>5, <1>9
<1> QED
  BY <1>1, <1>8, <1>9, <1>10, <1>11 DEF Entry, n

\* Moving an entry to the end loses none and makes none up.
LEMMA TouchType ==
    ASSUME NEW E, cache \in Seq(E), NEW k, Cached(k)
    PROVE  /\ Entry(k) \in E /\ Entry(k).key = k
           /\ \E i \in 1..Len(cache) : Entry(k) = cache[i]
           /\ Touch(k) \in Seq(E)
           /\ \A i \in 1..Len(Touch(k)) : \E j \in 1..Len(cache) : Touch(k)[i] = cache[j]
<1>1. /\ Place(k) \in 1..Len(cache) /\ Entry(k) \in E /\ Entry(k).key = k
      /\ Touch(k) \in Seq(E) /\ Len(Touch(k)) = Len(cache)
      /\ \A i \in 1..Len(cache) :
           Touch(k)[i] = IF i = Len(cache) THEN Entry(k)
                         ELSE IF i < Place(k) THEN cache[i] ELSE cache[i + 1]
  BY TouchPlaces
<1>2. Len(cache) \in Nat /\ Entry(k) = cache[Place(k)]
  BY DEF Entry
<1>3. ASSUME NEW i \in 1..Len(cache) PROVE \E j \in 1..Len(cache) : Touch(k)[i] = cache[j]
  <2>1. CASE i = Len(cache) \/ i < Place(k)
    BY <1>1, <1>2, <2>1
  <2>2. CASE i # Len(cache) /\ ~(i < Place(k))
    <3>1. i + 1 \in 1..Len(cache) /\ Touch(k)[i] = cache[i + 1]
      BY <1>1, <1>2, <2>2
    <3> QED
      BY <3>1
  <2> QED
    BY <2>1, <2>2
<1> QED
  BY <1>1, <1>2, <1>3

\* Nor does adding one, at the limit or below it.
LEMMA AddType ==
    ASSUME NEW E, cache \in Seq(E), NEW e \in E
    PROVE  /\ Add(e) \in Seq(E)
           /\ \A i \in 1..Len(Add(e)) :
                Add(e)[i] = e \/ \E j \in 1..Len(cache) : Add(e)[i] = cache[j]
<1>0. Len(cache) \in Nat
  OBVIOUS
<1> DEFINE grown == Append(cache, e)
<1>1. /\ grown \in Seq(E) /\ Len(grown) = Len(cache) + 1
      /\ \A i \in 1..Len(grown) : grown[i] = IF i <= Len(cache) THEN cache[i] ELSE e
  BY <1>0
<1>2. \A i \in 1..Len(grown) : grown[i] = e \/ \E j \in 1..Len(cache) : grown[i] = cache[j]
  BY <1>0, <1>1
<1> HIDE DEF grown
<1>3. CASE Len(grown) > MaxCached
  <2>1. Add(e) = Tail(grown)
    BY <1>3 DEF Add, grown
  <2>2. /\ Tail(grown) \in Seq(E) /\ Len(Tail(grown)) = Len(grown) - 1
        /\ \A i \in 1..Len(grown) - 1 : Tail(grown)[i] = grown[i + 1]
    BY <1>0, <1>1, <1>3
  <2>3. \A i \in 1..Len(grown) - 1 : i + 1 \in 1..Len(grown)
    BY <1>0, <1>1
  <2> QED
    BY <1>2, <2>1, <2>2, <2>3
<1>4. CASE ~(Len(grown) > MaxCached)
  <2>1. Add(e) = grown
    BY <1>4 DEF Add, grown
  <2> QED
    BY <1>1, <1>2, <2>1
<1> QED
  BY <1>3, <1>4

-----------------------------------------------------------------------------
(* The order of the cache. *)

LEMMA AfterFinite ==
    ASSUME NEW K, NEW u \in Seq(K), NEW n \in Nat
    PROVE  IsFiniteSet(After(u, n))
<1>1. Len(u) \in Nat
  OBVIOUS
<1> DEFINE f == [m \in n + 1..Len(u) |-> u[m]]
<1>2. IsFiniteSet(n + 1..Len(u))
  BY <1>1, FS_Interval
<1>3. f \in Surjection(n + 1..Len(u), After(u, n))
  BY DEF Surjection, After
<1> HIDE DEF f
<1> QED
  BY <1>2, <1>3, FS_Surjection

\* Entries with keys of their own are counted by their keys.
LEMMA KeysCounted ==
    ASSUME NEW E, NEW c \in Seq(E), \A i, j \in 1..Len(c) : c[i].key = c[j].key => i = j,
           NEW n \in 1..Len(c) + 1
    PROVE  IsFiniteSet(KeysFrom(c, n)) /\ Cardinality(KeysFrom(c, n)) = Len(c) - n + 1
<1>1. Len(c) \in Nat /\ n \in Int
  OBVIOUS
<1> DEFINE D == n..Len(c)
           f == [j \in D |-> c[j].key]
<1>2. IsFiniteSet(D) /\ Cardinality(D) = Len(c) - n + 1
  <2>1. /\ IsFiniteSet(n..Len(c))
        /\ Cardinality(n..Len(c)) = IF n > Len(c) THEN 0 ELSE Len(c) - n + 1
    <3>1. Len(c) \in Int
      BY <1>1
    <3> QED
      BY <1>1, <3>1, FS_Interval, Zenon
  <2>2. n <= Len(c) + 1
    BY <1>1
  <2> QED
    BY <1>1, <2>1, <2>2
<1>3. f \in Surjection(D, KeysFrom(c, n))
  BY DEF Surjection, KeysFrom
<1>4. \A i, j \in D : f[i] = f[j] => i = j
  <2>1. D \subseteq 1..Len(c)
    BY <1>1
  <2> QED
    BY <2>1
<1>5. f \in Injection(D, KeysFrom(c, n))
  BY <1>3, <1>4 DEF Injection, Surjection, IsInjective
<1> HIDE DEF f, D
<1> QED
  BY <1>2, <1>3, <1>5, FS_Surjection

\* A use more: it is the last one of its key, and follows those of the others.
LEMMA UseMore ==
    ASSUME NEW K, NEW u \in Seq(K), NEW k \in K, NEW n \in 1..Len(u)
    PROVE  LET v == Append(u, k) IN
           /\ IsLast(v, Len(u) + 1, k) /\ After(v, Len(u) + 1) = {}
           /\ u[n] # k => (IsLast(v, n, u[n]) <=> IsLast(u, n, u[n]))
           /\ After(v, n) = After(u, n) \cup {k}
           /\ v[n] = u[n]
<1> DEFINE v == Append(u, k)
<1>1. Len(u) \in Nat /\ Len(v) = Len(u) + 1 /\ v[Len(u) + 1] = k
      /\ \A m \in 1..Len(u) : v[m] = u[m]
  OBVIOUS
<1> HIDE DEF v
<1>2. IsLast(v, Len(u) + 1, k) /\ After(v, Len(u) + 1) = {}
  BY <1>1 DEF IsLast, After
<1>3. n + 1..Len(v) = (n + 1..Len(u)) \cup {Len(u) + 1} /\ n + 1..Len(u) \subseteq 1..Len(u)
  BY <1>1
<1>4. u[n] # k => (IsLast(v, n, u[n]) <=> IsLast(u, n, u[n]))
  BY <1>1, <1>3 DEF IsLast
<1>5. After(v, n) = After(u, n) \cup {k}
  BY <1>1, <1>3 DEF After
<1> QED
  BY <1>1, <1>2, <1>4, <1>5 DEF v

\* A use of k that leaves its entry last in t, and before it entries of c without k in
\* their order; an entry may be gone if MaxCached keys were used since.
LEMMA MoveRecent ==
    ASSUME NEW K, NEW u \in Seq(K), NEW k \in K, NEW E, NEW c \in Seq(E), NEW t \in Seq(E),
           Recent(c, u), Len(t) # 0, Len(t) <= MaxCached, t[Len(t)].key = k,
           \A i, j \in 1..Len(t) : t[i].key = t[j].key => i = j,
           \A i \in 1..Len(t) - 1 : \E j \in 1..Len(c) :
              /\ t[i].key = c[j].key /\ c[j].key # k
              /\ KeysFrom(t, i + 1) = KeysFrom(c, j + 1) \cup {k},
           \A j \in 1..Len(c) : \/ c[j].key \in KeysFrom(t, 1)
                                \/ Cardinality(KeysFrom(c, j + 1) \cup {k}) >= MaxCached
    PROVE  Recent(t, Append(u, k))
<1> DEFINE v == Append(u, k)
<1>1. Len(u) \in Nat /\ Len(v) = Len(u) + 1 /\ Len(t) \in Nat /\ Len(c) \in Nat
  OBVIOUS
<1>2. /\ v[Len(u) + 1] = k
      /\ IsLast(v, Len(u) + 1, k) /\ After(v, Len(u) + 1) = {}
  BY <1>1 DEF IsLast, After
<1>3. ASSUME NEW n \in 1..Len(u)
      PROVE  /\ u[n] # k => (IsLast(v, n, u[n]) <=> IsLast(u, n, u[n]))
             /\ After(v, n) = After(u, n) \cup {k}
             /\ v[n] = u[n]
  BY UseMore
<1> HIDE DEF v
<1>4. ASSUME NEW m \in 1..Len(v) PROVE \E n \in 1..Len(v) : IsLast(v, n, v[m])
  <2>1. CASE m = Len(u) + 1 \/ v[m] = k
    BY <1>1, <1>2, <2>1
  <2>2. CASE m \in 1..Len(u) /\ v[m] # k
    <3>1. PICK n \in 1..Len(u) : IsLast(u, n, u[m])
      BY <2>2 DEF Recent
    <3>2. u[n] = u[m] /\ v[m] = u[m]
      BY <1>3, <2>2, <3>1 DEF IsLast
    <3>3. IsLast(v, n, u[n])
      BY <1>3, <2>2, <3>1, <3>2
    <3> QED
      BY <1>1, <3>2, <3>3
  <2> QED
    BY <1>1, <2>1, <2>2
<1>5. ASSUME NEW i \in 1..Len(t)
      PROVE  \E n \in 1..Len(v) : IsLast(v, n, t[i].key) /\ After(v, n) = KeysFrom(t, i + 1)
  <2>1. CASE i = Len(t)
    <3>1. KeysFrom(t, i + 1) = {}
      BY <1>1, <2>1 DEF KeysFrom
    <3>2. IsLast(v, Len(u) + 1, t[i].key) /\ After(v, Len(u) + 1) = KeysFrom(t, i + 1)
      BY <1>2, <2>1, <3>1
    <3> QED
      BY <1>1, <3>2
  <2>2. CASE i # Len(t)
    <3>1. i \in 1..Len(t) - 1
      BY <1>1, <2>2
    <3>2. PICK j \in 1..Len(c) : /\ t[i].key = c[j].key /\ c[j].key # k
                                 /\ KeysFrom(t, i + 1) = KeysFrom(c, j + 1) \cup {k}
      BY <3>1
    <3>3. PICK n \in 1..Len(u) : IsLast(u, n, c[j].key) /\ After(u, n) = KeysFrom(c, j + 1)
      BY DEF Recent
    <3>4. u[n] = c[j].key
      BY <3>3 DEF IsLast
    <3>5. IsLast(v, n, t[i].key) /\ After(v, n) = KeysFrom(t, i + 1)
      BY <1>3, <3>2, <3>3, <3>4
    <3> QED
      BY <1>1, <3>5
  <2> QED
    BY <2>1, <2>2
<1>6. ASSUME NEW n \in 1..Len(v), IsLast(v, n, v[n])
      PROVE  v[n] \in KeysFrom(t, 1) \/ Cardinality(After(v, n)) >= MaxCached
  <2>1. CASE v[n] = k
    BY <1>1, <2>1 DEF KeysFrom
  <2>2. CASE v[n] # k
    <3>1. n \in 1..Len(u)
      BY <1>1, <1>2, <2>2
    <3>2. v[n] = u[n] /\ IsLast(u, n, u[n]) /\ After(v, n) = After(u, n) \cup {k}
      BY <1>3, <1>6, <2>2, <3>1
    <3>3. CASE u[n] \in KeysFrom(c, 1)
      <4>1. PICK j \in 1..Len(c) : u[n] = c[j].key
        BY <3>3 DEF KeysFrom
      <4>2. PICK m \in 1..Len(u) : IsLast(u, m, u[n]) /\ After(u, m) = KeysFrom(c, j + 1)
        BY <4>1 DEF Recent
      <4>3. m = n
        BY <1>1, <3>1, <3>2, <4>2 DEF IsLast
      <4> QED
        BY <3>2, <4>1, <4>2, <4>3
    <3>4. CASE Cardinality(After(u, n)) >= MaxCached
      <4>1. IsFiniteSet(After(u, n)) /\ Cardinality(After(u, n)) \in Nat
        BY <3>1, AfterFinite, FS_CardinalityType
      <4> DEFINE A == After(u, n)
      <4>2. Cardinality(A \cup {k}) = IF k \in A THEN Cardinality(A) ELSE Cardinality(A) + 1
        BY <4>1, FS_AddElement, Zenon
      <4> QED
        BY <3>2, <3>4, <4>1, <4>2
    <3> QED
      BY <3>1, <3>2, <3>3, <3>4 DEF Recent
  <2> QED
    BY <2>1, <2>2
<1> QED
  BY <1>4, <1>5, <1>6 DEF Recent, v

LEMMA TouchRecent ==
    ASSUME NEW K, NEW u \in Seq(K), NEW k \in K, NEW E, cache \in Seq(E), Cached(k),
           Recent(cache, u)
    PROVE  Recent(Touch(k), Append(u, k))
<1> DEFINE t == Touch(k)
           L == Len(cache)
           p == Place(k)
<1>1. /\ L \in Nat /\ p \in 1..L /\ t \in Seq(E) /\ Len(t) = L /\ cache[p].key = k
      /\ \A i \in 1..L : t[i] = IF i = L THEN cache[p]
                                ELSE IF i < p THEN cache[i] ELSE cache[i + 1]
  BY TouchPlaces DEF Entry
<1>2. /\ L <= MaxCached
      /\ \A i, j \in 1..L : cache[i].key = cache[j].key => i = j
  BY DEF Recent
<1> HIDE DEF t, L, p
<1> DEFINE From(i) == IF i = L THEN p ELSE IF i < p THEN i ELSE i + 1
           To(j) == IF j = p THEN L ELSE IF j < p THEN j ELSE j - 1
<1>a. ASSUME NEW i \in 1..L
      PROVE  From(i) \in 1..L /\ t[i] = cache[From(i)] /\ To(From(i)) = i
  BY <1>1
<1>b. ASSUME NEW j \in 1..L
      PROVE  To(j) \in 1..L /\ t[To(j)] = cache[j]
  BY <1>1
<1>3. \A i, j \in 1..L : t[i].key = t[j].key => i = j
  <2> SUFFICES ASSUME NEW i \in 1..L, NEW j \in 1..L, t[i].key = t[j].key PROVE i = j
    OBVIOUS
  <2> HIDE DEF From, To
  <2>1. From(i) = From(j)
    BY <1>2, <1>a
  <2> QED
    BY <1>a, <2>1
<1>c. \A n, S : (\A j \in n..L : t[j].key \in S) => KeysFrom(t, n) \subseteq S
  BY <1>1 DEF KeysFrom
<1>d. \A n, S : (\A j \in n..L : cache[j].key \in S) => KeysFrom(cache, n) \subseteq S
  BY DEF KeysFrom, L
<1>5. ASSUME NEW i \in 1..L - 1
      PROVE  \E j \in 1..L : /\ t[i].key = cache[j].key /\ cache[j].key # k
                             /\ KeysFrom(t, i + 1) = KeysFrom(cache, j + 1) \cup {k}
  <2>1. CASE i < p
    <3>1. KeysFrom(t, i + 1) = KeysFrom(cache, i + 1) \cup {k}
      <4>1. ASSUME NEW j \in i + 1..L PROVE t[j].key \in KeysFrom(cache, i + 1) \cup {k}
        <5>1. j \in 1..L /\ From(j) \in i + 1..L
          BY <1>1, <2>1
        <5> HIDE DEF From
        <5> QED
          BY <1>a, <5>1 DEF KeysFrom, L
      <4>2. ASSUME NEW j \in i + 1..L PROVE cache[j].key \in KeysFrom(t, i + 1)
        <5>1. j \in 1..L /\ To(j) \in i + 1..L
          BY <1>1, <2>1
        <5> HIDE DEF To
        <5> QED
          BY <1>1, <1>b, <5>1 DEF KeysFrom
      <4>3. k \in KeysFrom(t, i + 1)
        BY <1>1, <2>1 DEF KeysFrom
      <4> QED
        <5>1. KeysFrom(t, i + 1) \subseteq KeysFrom(cache, i + 1) \cup {k}
          BY <1>c, <4>1
        <5>2. KeysFrom(cache, i + 1) \subseteq KeysFrom(t, i + 1)
          BY <1>d, <4>2
        <5> QED
          BY <4>3, <5>1, <5>2
    <3>2. i \in 1..L /\ t[i] = cache[i] /\ cache[i].key # k
      BY <1>1, <1>2, <2>1
    <3> QED
      BY <3>1, <3>2
  <2>2. CASE ~(i < p)
    <3>1. KeysFrom(t, i + 1) = KeysFrom(cache, i + 2) \cup {k}
      <4>1. ASSUME NEW j \in i + 1..L PROVE t[j].key \in KeysFrom(cache, i + 2) \cup {k}
        <5>1. CASE j = L
          BY <1>1, <5>1
        <5>2. CASE j # L
          <6>1. t[j] = cache[j + 1] /\ j + 1 \in i + 2..L
            BY <1>1, <2>2, <5>2
          <6> QED
            BY <6>1 DEF KeysFrom, L
        <5> QED
          BY <5>1, <5>2
      <4>2. ASSUME NEW j \in i + 2..L PROVE cache[j].key \in KeysFrom(t, i + 1)
        <5>1. j - 1 \in i + 1..L /\ t[j - 1] = cache[j]
          BY <1>1, <2>2
        <5> QED
          BY <1>1, <5>1 DEF KeysFrom
      <4>3. k \in KeysFrom(t, i + 1)
        BY <1>1 DEF KeysFrom
      <4> QED
        <5>1. KeysFrom(t, i + 1) \subseteq KeysFrom(cache, i + 2) \cup {k}
          BY <1>c, <4>1
        <5>2. KeysFrom(cache, i + 2) \subseteq KeysFrom(t, i + 1)
          BY <1>d, <4>2
        <5> QED
          BY <4>3, <5>1, <5>2
    <3>2. i + 1 \in 1..L /\ t[i] = cache[i + 1] /\ cache[i + 1].key # k
      BY <1>1, <1>2, <2>2
    <3>3. (i + 1) + 1 = i + 2
      OBVIOUS
    <3> QED
      BY <3>1, <3>2, <3>3
  <2> QED
    BY <2>1, <2>2
<1>6. \A j \in 1..L : cache[j].key \in KeysFrom(t, 1)
  BY <1>1, <1>b DEF KeysFrom
<1>7. L # 0 /\ t[L].key = k
  BY <1>1
<1>8. cache \in Seq(E) /\ Recent(cache, u)
  OBVIOUS
<1>9. /\ Len(t) # 0 /\ Len(t) <= MaxCached /\ t[Len(t)].key = k
      /\ \A i, j \in 1..Len(t) : t[i].key = t[j].key => i = j
      /\ \A i \in 1..Len(t) - 1 : \E j \in 1..Len(cache) :
            /\ t[i].key = cache[j].key /\ cache[j].key # k
            /\ KeysFrom(t, i + 1) = KeysFrom(cache, j + 1) \cup {k}
      /\ \A j \in 1..Len(cache) : cache[j].key \in KeysFrom(t, 1)
  BY <1>1, <1>2, <1>3, <1>5, <1>6, <1>7 DEF L
<1>10. Recent(t, Append(u, k))
  BY <1>1, <1>8, <1>9, MoveRecent
<1> QED
  BY <1>10 DEF t

\* An insertion, and at the limit the entry it drops.
LEMMA AddRecent ==
    ASSUME NEW K, NEW u \in Seq(K), NEW E, cache \in Seq(E), NEW e \in E, e.key \in K,
           ~Cached(e.key), Recent(cache, u)
    PROVE  Recent(Add(e), Append(u, e.key))
<1> DEFINE g == Append(cache, e)
           t == Add(e)
           L == Len(cache)
           k == e.key
           d == IF L + 1 > MaxCached THEN 1 ELSE 0
<1>0. L \in Nat /\ d \in {0, 1}
  OBVIOUS
<1>1. /\ L <= MaxCached
      /\ \A i, j \in 1..L : cache[i].key = cache[j].key => i = j
      /\ \A i \in 1..L : cache[i].key # k
  BY DEF Recent, Cached
<1>2. /\ g \in Seq(E) /\ Len(g) = L + 1 /\ g[L + 1] = e
      /\ \A i \in 1..L : g[i] = cache[i]
  BY <1>0
<1>3. t = IF Len(g) > MaxCached THEN Tail(g) ELSE g
  BY DEF Add
<1> HIDE DEF g, t, L
<1>4. t \in Seq(E) /\ Len(t) = L + 1 - d /\ \A i \in 1..Len(t) : t[i] = g[i + d]
  <2>1. CASE Len(g) > MaxCached
    <3>1. t = Tail(g) /\ g # <<>> /\ d = 1
      BY <1>0, <1>2, <1>3, <2>1
    <3>2. /\ Tail(g) \in Seq(E) /\ Len(Tail(g)) = Len(g) - 1
          /\ \A i \in 1..Len(Tail(g)) : Tail(g)[i] = g[i + 1]
      BY <1>2, <3>1, HeadTailProperties
    <3>3. L + 1 - d = Len(g) - 1
      BY <1>0, <1>2, <3>1
    <3> HIDE DEF d
    <3> QED
      BY <3>1, <3>2, <3>3
  <2>2. CASE ~(Len(g) > MaxCached)
    <3>1. t = g /\ d = 0
      BY <1>0, <1>2, <1>3, <2>2
    <3> QED
      BY <1>0, <1>2, <3>1
  <2> QED
    BY <2>1, <2>2
<1>5. d = 1 <=> L = MaxCached
  BY <1>0, <1>1
<1> HIDE DEF d
<1>6. /\ Len(t) # 0 /\ Len(t) <= MaxCached /\ t[Len(t)] = e
      /\ \A i \in 1..Len(t) - 1 : i + d \in 1..L /\ t[i] = cache[i + d]
  BY <1>0, <1>1, <1>2, <1>4, <1>5
<1>7. \A i, j \in 1..Len(t) : t[i].key = t[j].key => i = j
  <2>1. \A i \in 1..Len(t) : i = Len(t) \/ i \in 1..Len(t) - 1
    BY <1>0, <1>4
  <2>2. ASSUME NEW i \in 1..Len(t) - 1, NEW j \in 1..Len(t) - 1, t[i].key = t[j].key
        PROVE  i = j
    <3>1. i + d = j + d
      BY <1>1, <1>6, <2>2
    <3> QED
      BY <1>0, <3>1
  <2>3. \A i \in 1..Len(t) - 1 : t[i].key # t[Len(t)].key
    BY <1>1, <1>6
  <2> QED
    BY <2>1, <2>2, <2>3
<1>8. ASSUME NEW n \in 1..L PROVE KeysFrom(g, n + 1) = KeysFrom(cache, n + 1) \cup {k}
  <2>1. \A j \in n + 1..L + 1 : j = L + 1 \/ (j \in n + 1..L /\ j \in 1..L)
    BY <1>0
  <2>2. \A j \in n + 1..L : j \in n + 1..L + 1 /\ g[j] = cache[j]
    BY <1>0, <1>2
  <2>3. L + 1 \in n + 1..L + 1
    BY <1>0
  <2>4. KeysFrom(g, n + 1) = {g[j].key : j \in n + 1..L + 1}
    BY <1>2 DEF KeysFrom
  <2>5. KeysFrom(cache, n + 1) = {cache[j].key : j \in n + 1..L}
    BY DEF KeysFrom, L
  <2>6. ASSUME NEW x \in KeysFrom(g, n + 1) PROVE x \in KeysFrom(cache, n + 1) \cup {k}
    BY <1>2, <2>1, <2>2, <2>4, <2>5
  <2>7. ASSUME NEW x \in KeysFrom(cache, n + 1) \cup {k} PROVE x \in KeysFrom(g, n + 1)
    BY <1>2, <2>2, <2>3, <2>4, <2>5
  <2> QED
    BY <2>6, <2>7
<1>9. ASSUME NEW n \in 1..Len(t) PROVE KeysFrom(t, n) = KeysFrom(g, n + d)
  <2>1. \A j \in n..Len(t) : j \in 1..Len(t) /\ j + d \in n + d..L + 1
    BY <1>0, <1>4
  <2>2. \A j \in n + d..L + 1 : j - d \in n..Len(t) /\ j - d \in 1..Len(t) /\ (j - d) + d = j
    BY <1>0, <1>4
  <2>3. KeysFrom(t, n) = {t[j].key : j \in n..Len(t)}
    BY DEF KeysFrom
  <2>4. KeysFrom(g, n + d) = {g[j].key : j \in n + d..L + 1}
    BY <1>2 DEF KeysFrom
  <2>5. ASSUME NEW x \in KeysFrom(t, n) PROVE x \in KeysFrom(g, n + d)
    BY <1>4, <2>1, <2>3, <2>4
  <2>6. ASSUME NEW x \in KeysFrom(g, n + d) PROVE x \in KeysFrom(t, n)
    BY <1>4, <2>2, <2>3, <2>4
  <2> QED
    BY <2>5, <2>6
<1>10. ASSUME NEW i \in 1..Len(t) - 1
       PROVE  \E j \in 1..L : /\ t[i].key = cache[j].key /\ cache[j].key # k
                              /\ KeysFrom(t, i + 1) = KeysFrom(cache, j + 1) \cup {k}
  <2>1. i + 1 \in 1..Len(t) /\ (i + 1) + d = (i + d) + 1
    BY <1>0, <1>4
  <2>2. KeysFrom(t, i + 1) = KeysFrom(cache, (i + d) + 1) \cup {k}
    BY <1>6, <1>8, <1>9, <2>1
  <2> QED
    BY <1>1, <1>6, <2>2
<1>11. ASSUME NEW j \in 1..L
       PROVE  \/ cache[j].key \in KeysFrom(t, 1)
              \/ Cardinality(KeysFrom(cache, j + 1) \cup {k}) >= MaxCached
  <2>1. CASE j - d \in 1..Len(t) - 1
    <3>1. t[j - d] = cache[j] /\ j - d \in 1..Len(t)
      BY <1>0, <1>4, <1>6, <2>1
    <3> QED
      BY <3>1 DEF KeysFrom
  <2>2. CASE ~(j - d \in 1..Len(t) - 1)
    <3>1. j = 1 /\ d = 1 /\ L = MaxCached
      BY <1>0, <1>4, <1>5, <2>2
    <3>2. IsFiniteSet(KeysFrom(cache, 2)) /\ Cardinality(KeysFrom(cache, 2)) = L - 1
      <4>1. 2 \in 1..L + 1 /\ (L - 2) + 1 = L - 1
        BY <1>0
      <4> QED
        BY <1>1, <4>1, KeysCounted DEF L
    <3>3. k \notin KeysFrom(cache, 2)
      BY <1>1 DEF KeysFrom, L
    <3>4. Cardinality(KeysFrom(cache, 2) \cup {k}) = L - 1 + 1
      BY <3>2, <3>3, FS_AddElement
    <3> QED
      BY <1>0, <3>1, <3>4
  <2> QED
    BY <2>1, <2>2
<1>12. /\ cache \in Seq(E) /\ Recent(cache, u) /\ k \in K /\ t[Len(t)].key = k
       /\ \A j \in 1..Len(cache) : \/ cache[j].key \in KeysFrom(t, 1)
                                   \/ Cardinality(KeysFrom(cache, j + 1) \cup {k}) >= MaxCached
       /\ \A i \in 1..Len(t) - 1 : \E j \in 1..Len(cache) :
              /\ t[i].key = cache[j].key /\ cache[j].key # k
              /\ KeysFrom(t, i + 1) = KeysFrom(cache, j + 1) \cup {k}
  BY <1>6, <1>10, <1>11 DEF L
<1> HIDE DEF k
<1>13. Recent(t, Append(u, k))
  BY <1>4, <1>6, <1>7, <1>12, MoveRecent
<1> QED
  BY <1>13 DEF t, k

\* What Recent says of a cache is CacheIsRecent.
LEMMA RecentIsRecent ==
    ASSUME NEW K, NEW E, used \in Seq(K), cache \in Seq(E), Recent(cache, used)
    PROVE  CacheIsRecent
<1> DEFINE keys == {cache[i].key : i \in 1..Len(cache)}
<1>1. Len(used) \in Nat /\ Len(cache) \in Nat /\ DOMAIN cache = 1..Len(cache)
  OBVIOUS
<1>2. ASSUME NEW n \in 1..Len(used), NEW k, IsLast(used, n, k)
      PROVE  LastUse(k) = n /\ UsedAfter(k) = After(used, n)
  <2>1. \A m \in 1..Len(used) : IsLast(used, m, k) => m = n
    BY <1>1, <1>2 DEF IsLast
  <2>2. LastUse(k) = CHOOSE i \in 1..Len(used) : IsLast(used, i, k)
    BY DEF LastUse, IsLast
  <2>3. LastUse(k) = n
    BY <1>2, <2>1, <2>2
  <2> QED
    BY <2>3 DEF UsedAfter, After
<1>3. \A i, j \in 1..Len(cache) : cache[i].key = cache[j].key => i = j
  BY DEF Recent
<1>4. ASSUME NEW n \in 1..Len(cache) + 1
      PROVE  Cardinality(KeysFrom(cache, n)) = Len(cache) - n + 1
  BY <1>3, KeysCounted
<1>5. keys = KeysFrom(cache, 1) /\ Cardinality(keys) = Len(cache)
  <2>1. 1 \in 1..Len(cache) + 1 /\ Len(cache) - 1 + 1 = Len(cache)
    BY <1>1
  <2> QED
    BY <1>4, <2>1 DEF KeysFrom
<1>6. ASSUME NEW i \in 1..Len(cache)
      PROVE  /\ LastUse(cache[i].key) \in 1..Len(used)
             /\ IsLast(used, LastUse(cache[i].key), cache[i].key)
             /\ UsedAfter(cache[i].key) = KeysFrom(cache, i + 1)
             /\ UsedAfter(cache[i].key) = After(used, LastUse(cache[i].key))
  BY <1>2 DEF Recent
<1> DEFINE S == {k \in {used[i] : i \in 1..Len(used)} : Cardinality(UsedAfter(k)) < MaxCached}
<1>7. keys = S
  <2>1. ASSUME NEW i \in 1..Len(cache) PROVE cache[i].key \in S
    <3>1. Cardinality(UsedAfter(cache[i].key)) = Len(cache) - i
      <4>1. i + 1 \in 1..Len(cache) + 1 /\ Len(cache) - (i + 1) + 1 = Len(cache) - i
        BY <1>1
      <4> QED
        BY <1>4, <1>6, <4>1
    <3>2. Len(cache) - i < MaxCached
      BY <1>1 DEF Recent
    <3>3. cache[i].key \in {used[n] : n \in 1..Len(used)}
      BY <1>6 DEF IsLast
    <3> QED
      BY <3>1, <3>2, <3>3
  <2>2. ASSUME NEW k \in S PROVE k \in keys
    <3>1. PICK m \in 1..Len(used) : k = used[m]
      OBVIOUS
    <3>2. PICK n \in 1..Len(used) : IsLast(used, n, k)
      BY <3>1 DEF Recent
    <3>3. used[n] = k /\ UsedAfter(k) = After(used, n)
      BY <1>2, <3>2 DEF IsLast
    <3>4. Cardinality(UsedAfter(k)) < MaxCached
      OBVIOUS
    <3>5. k \in KeysFrom(cache, 1) \/ Cardinality(UsedAfter(k)) >= MaxCached
      BY <3>2, <3>3 DEF Recent
    <3>6. Cardinality(UsedAfter(k)) \in Nat
      BY <3>3, AfterFinite, FS_CardinalityType
    <3> QED
      <4> HIDE DEF S, keys
      <4>1. k \in KeysFrom(cache, 1)
        BY <3>4, <3>5, <3>6
      <4> QED
        BY <1>5, <4>1
  <2> QED
    BY <2>1, <2>2
<1>8. ASSUME NEW m \in 1..Len(cache), NEW n \in 1..Len(cache), m < n
      PROVE  LastUse(cache[m].key) < LastUse(cache[n].key)
  <2>1. cache[n].key \in KeysFrom(cache, m + 1)
    BY <1>1, <1>8 DEF KeysFrom
  <2>2. cache[n].key \in After(used, LastUse(cache[m].key))
    BY <1>6, <2>1
  <2>3. PICK p \in LastUse(cache[m].key) + 1..Len(used) : used[p] = cache[n].key
    BY <2>2 DEF After
  <2>4. /\ LastUse(cache[m].key) \in 1..Len(used) /\ LastUse(cache[n].key) \in 1..Len(used)
        /\ \A q \in LastUse(cache[n].key) + 1..Len(used) : used[q] # cache[n].key
    BY <1>6 DEF IsLast
  <2> QED
    BY <1>1, <2>3, <2>4
<1> QED
  BY <1>1, <1>5, <1>7, <1>8 DEF CacheIsRecent
-----------------------------------------------------------------------------
(* The invariant. *)

LEMMA InitInv == Init => IInv
<1> SUFFICES ASSUME Init PROVE IInv
  OBVIOUS
<1>1. TypeOK
  <2>1. cache \in Seq([key : Calls, agent : Calls]) /\ used \in Seq(Calls)
    BY EmptySeq DEF Init
  <2>2. row \in Rows /\ saved \in [Saves -> LLMs]
    BY NoLLMType DEF Init
  <2> QED
    BY <2>1, <2>2, FreshType DEF Init, TypeOK
<1>2. OneSave(row.llm) /\ \A r \in Requests : OneCall(req[r].call)
  BY DEF Init, OneSave, OneCall, NoRow, NoLLM, Fresh, Secrets
<1>3. \A i \in 1..Len(cache) : cache[i].agent = cache[i].key
  BY EmptySeq DEF Init
<1>4. ServesOwnSettings
  BY DEF Init, ServesOwnSettings, Fresh
<1>5. Recent(cache, used)
  BY EmptySeq DEF Init, Recent
<1> QED
  BY <1>1, <1>2, <1>3, <1>4, <1>5 DEF IInv

LEMMA SaveInv ==
    ASSUME IInv, NEW s \in Saves, NEW llm \in ValidLLM(s) \cup {NoLLM}, NEW search \in BOOLEAN,
           SetAgentSettings(s, llm, search)
    PROVE  IInv'
<1> USE DEF SetAgentSettings
<1>1. /\ s \in todo /\ todo \subseteq Saves /\ todo' = todo \ {s}
      /\ saved \in [Saves -> LLMs] /\ saved' = [saved EXCEPT ![s] = llm]
      /\ row \in Rows /\ row.llm \in LLMs /\ row.search \in Values
  BY DEF IInv, TypeOK, Rows
<1>2. llm \in LLMs
  BY ValidLLMType, NoLLMType
<1>3. \A t \in Past : t \in Past' /\ saved'[t] = saved[t]
  BY <1>1 DEF Past
<1>4. s \in Past' /\ saved'[s] = llm
  BY <1>1, <1>2 DEF Past
<1>5. TypeOK'
  <2>1. row' \in Rows
    BY <1>1, <1>2 DEF IInv, TypeOK, Rows, NewLLM, Values
  <2>2. saved' \in [Saves -> LLMs]
    BY <1>1, <1>2
  <2> QED
    BY <1>1, <2>1, <2>2 DEF IInv, TypeOK
<1>6. OneSave(row.llm)'
  <2>1. CASE llm = NoLLM
    <3>1. row'.llm = row.llm
      BY <2>1 DEF NewLLM
    <3> QED
      BY <1>3, <3>1 DEF IInv, OneSave, Secrets
  <2>2. CASE llm # NoLLM
    <3>1. row'.llm = llm
      BY <2>2 DEF NewLLM
    <3>2. llm.key \in {s, Null} /\ llm.url \in {s, Null}
      BY <2>2, ValidLLMType
    <3> QED
      BY <1>4, <3>1, <3>2 DEF OneSave, Secrets
  <2> QED
    BY <2>1, <2>2
<1>7. (\A r \in Requests : OneCall(req[r].call))'
  BY <1>3 DEF IInv, OneCall, Secrets
<1> QED
  BY <1>5, <1>6, <1>7 DEF IInv, ServesOwnSettings

\* What a clear leaves of one save is still of one save.
LEMMA ClearedIsOneSave ==
    ASSUME TypeOK, OneSave(row.llm), NEW copy \in Rows, NEW scope \in Scopes
    PROVE  OneSave(NullOut(copy, scope).llm) /\ NullOut(copy, scope) \in Rows
<1> DEFINE new == NullOut(copy, scope)
<1>1. row \in Rows /\ row.llm \in LLMs /\ clock \in Nat
  BY DEF TypeOK, Rows
<1>2. new.llm \in LLMs /\ \A f \in {"provider", "key", "url"} : new.llm[f] \in {Null, row.llm[f]}
  <2>1. CASE scope # "llm"
    BY <1>1, <2>1 DEF NullOut, Rows
  <2>2. CASE scope = "llm"
    <3>1. new.llm = [f \in DOMAIN row.llm |-> IF copy.llm[f] # Null THEN Null ELSE row.llm[f]]
      BY <1>1, <2>2 DEF NullOut, Rows
    <3>2. DOMAIN row.llm = {"provider", "model", "key", "url"}
      BY <1>1 DEF LLMs
    <3> HIDE DEF new
    <3>3. \A f \in {"provider", "model", "key", "url"} : new.llm[f] \in {Null, row.llm[f]}
      BY <3>1, <3>2
    <3>4. new.llm = [provider |-> new.llm.provider, model |-> new.llm.model,
                     key |-> new.llm.key, url |-> new.llm.url]
      BY <3>1, <3>2
    <3>5. new.llm.provider \in Providers \cup {Null} /\ new.llm.model \in Values \cup {Blank}
          /\ new.llm.key \in Values /\ new.llm.url \in Values
      BY <1>1, <3>3 DEF LLMs, Values
    <3> QED
      BY <3>3, <3>4, <3>5 DEF LLMs
  <2> QED
    BY <2>1, <2>2
<1>3. OneSave(new.llm)
  BY <1>2 DEF OneSave, Secrets
<1>4. new \in Rows
  <2>1. new = [llm |-> new.llm, search |-> new.search, updated |-> clock + 1]
    <3> DEFINE llm == IF scope # "llm" THEN row.llm
                      ELSE [f \in DOMAIN row.llm |->
                              IF copy.llm[f] # Null THEN Null ELSE row.llm[f]]
               search == IF scope # "search" \/ copy.search = Null THEN row.search ELSE Null
    <3>1. new = [row EXCEPT !.llm = llm, !.search = search, !.updated = clock + 1]
      BY DEF NullOut
    <3> HIDE DEF llm, search, new
    <3>2. new = [llm |-> llm, search |-> search, updated |-> clock + 1]
      BY <1>1, <3>1 DEF Rows
    <3> QED
      BY <3>2
  <2>2. new.search \in Values
    BY <1>1 DEF NullOut, Rows, Values
  <2> QED
    BY <1>1, <1>2, <2>1, <2>2 DEF Rows
<1> QED
  BY <1>3, <1>4

\* A request that moves on changes nothing else of the invariant.
LEMMA StepInv ==
    ASSUME IInv, NEW r \in Requests,
           NEW new \in [op : {"new", "clear", "resolved", "served", "done"},
                        scope : Scopes \cup {"none"}, copy : Rows, call : Calls, agent : Calls],
           Step(r, new), OneCall(new.call), new.op = "served" => new.agent = new.call,
           UNCHANGED <<row, clock, todo, saved, cache, used>>
    PROVE  IInv'
<1>1. /\ DOMAIN req = Requests /\ req' = [req EXCEPT ![r] = new]
      /\ \A q \in Requests : req'[q] = IF q = r THEN new ELSE req[q]
  BY DEF IInv, TypeOK, Step
<1>2. TypeOK'
  BY <1>1 DEF IInv, TypeOK
<1>3. \A q \in Requests : OneCall(req'[q].call)
  BY <1>1 DEF IInv
<1>4. ServesOwnSettings'
  BY <1>1 DEF IInv, ServesOwnSettings
<1> QED
  BY <1>2, <1>3, <1>4 DEF IInv, OneSave, OneCall, Past

LEMMA ReadForClearInv ==
    ASSUME IInv, NEW r \in Requests, NEW scope \in Scopes, ReadForClear(r, scope)
    PROVE  IInv'
<1> DEFINE new == [Fresh EXCEPT !.op = IF Exists THEN "clear" ELSE "done",
                                !.scope = scope, !.copy = row]
<1>1. new = [op |-> IF Exists THEN "clear" ELSE "done", scope |-> scope, copy |-> row,
             call |-> NoLLM, agent |-> NoLLM]
  <2> DEFINE op == IF Exists THEN "clear" ELSE "done"
  <2>1. new = [Fresh EXCEPT !.op = op, !.scope = scope, !.copy = row]
    OBVIOUS
  <2> HIDE DEF op, new
  <2>2. new = [op |-> op, scope |-> scope, copy |-> row, call |-> NoLLM, agent |-> NoLLM]
    BY <2>1 DEF Fresh
  <2> QED
    BY <2>2 DEF op
<1>2. row \in Rows
  BY DEF IInv, TypeOK
<1> HIDE DEF new
<1>3. new \in [op : {"new", "clear", "resolved", "served", "done"},
               scope : Scopes \cup {"none"}, copy : Rows, call : Calls, agent : Calls]
  BY <1>1, <1>2, NoLLMType
<1>4. OneCall(new.call) /\ new.op # "served"
  BY <1>1 DEF OneCall, NoLLM, Secrets
<1> QED
  BY <1>3, <1>4, StepInv DEF ReadForClear, new

LEMMA CommitClearInv ==
    ASSUME IInv, NEW r \in Requests, CommitClear(r)
    PROVE  IInv'
<1> DEFINE copy == req[r].copy
           scope == req[r].scope
<1> USE DEF CommitClear
<1>1. copy \in Rows /\ req[r] \in [op : {"new", "clear", "resolved", "served", "done"},
               scope : Scopes \cup {"none"}, copy : Rows, call : Calls, agent : Calls]
  BY DEF IInv, TypeOK
<1>2. /\ \A q \in Requests : req'[q].call = req[q].call /\ req'[q].agent = req[q].agent
      /\ \A q \in Requests : req'[q].op = "served" => req[q].op = "served"
      /\ req' \in [Requests -> [op : {"new", "clear", "resolved", "served", "done"},
               scope : Scopes \cup {"none"}, copy : Rows, call : Calls, agent : Calls]]
  BY <1>1 DEF IInv, TypeOK, Step
<1>3. row' \in Rows /\ clock' \in Nat /\ OneSave(row'.llm)
  <2>1. CASE UNCHANGED <<row, clock>>
    BY <2>1 DEF IInv, TypeOK
  <2>2. CASE row' = NoRow /\ clock' = clock + 1
    BY <2>2, NoLLMType DEF IInv, TypeOK, OneSave, NoRow, NoLLM, Secrets
  <2>3. CASE /\ row' = NullOut(copy, scope) /\ clock' = clock + 1
             /\ Dirty(copy, scope)
    <3>1. scope \in Scopes
      BY <2>3 DEF Dirty, Scopes
    <3> QED
      BY <1>1, <2>3, <3>1, ClearedIsOneSave DEF IInv, TypeOK
  <2> QED
    BY <2>1, <2>2, <2>3
<1>4. TypeOK'
  BY <1>2, <1>3 DEF IInv, TypeOK
<1>5. \A q \in Requests : OneCall(req'[q].call)
  BY <1>2 DEF IInv
<1>6. ServesOwnSettings'
  BY <1>2 DEF IInv, ServesOwnSettings
<1> QED
  BY <1>3, <1>4, <1>5, <1>6 DEF IInv, OneSave, OneCall, Past

LEMMA ResolveInv ==
    ASSUME IInv, NEW r \in Requests, NEW p \in Providers \cup {Null},
           NEW m \in Overrides \cup {Null}, Resolve(r, p, m)
    PROVE  IInv'
<1> DEFINE c == Resolved(p, m)
           new == IF Configured(c) THEN [Fresh EXCEPT !.op = "resolved", !.call = c]
                  ELSE [Fresh EXCEPT !.op = "done"]
<1>1. CASE Configured(c)
  <2>1. new = [op |-> "resolved", scope |-> "none", copy |-> NoRow, call |-> c, agent |-> NoLLM]
    BY <1>1 DEF Fresh
  <2>2. c \in Calls
    BY <1>1, ResolvedType DEF IInv
  <2>3. c.provider # Null
    BY <1>1 DEF Configured, Supported
  <2>4. OneCall(c)
    <3>1. CASE Exists /\ row.llm.provider = c.provider
      BY <2>3, <3>1 DEF IInv, OneSave, OneCall, Resolved, Secrets
    <3>2. CASE ~(Exists /\ row.llm.provider = c.provider)
      <4>1. c.key = Null /\ c.url = Null
        BY <3>2 DEF Resolved
      <4> QED
        BY <4>1 DEF OneCall, Secrets
    <3> QED
      BY <3>1, <3>2
  <2> HIDE DEF new, c
  <2>5. new \in [op : {"new", "clear", "resolved", "served", "done"},
                 scope : Scopes \cup {"none"}, copy : Rows, call : Calls, agent : Calls]
    BY <2>1, <2>2, NoLLMType
  <2> QED
    BY <2>1, <2>4, <2>5, StepInv DEF Resolve, new, c
<1>2. CASE ~Configured(c)
  <2>1. new = [op |-> "done", scope |-> "none", copy |-> NoRow, call |-> NoLLM, agent |-> NoLLM]
    BY <1>2 DEF Fresh
  <2>2. OneCall(NoLLM)
    BY DEF OneCall, NoLLM, Secrets
  <2> HIDE DEF new, c
  <2>3. new \in [op : {"new", "clear", "resolved", "served", "done"},
                 scope : Scopes \cup {"none"}, copy : Rows, call : Calls, agent : Calls]
    BY <2>1, NoLLMType
  <2> QED
    BY <2>1, <2>2, <2>3, StepInv DEF Resolve, new, c
<1> QED
  BY <1>1, <1>2

LEMMA GetAgentInv ==
    ASSUME IInv, NEW r \in Requests, GetAgent(r)
    PROVE  IInv'
<1> DEFINE c == req[r].call
           E == [key : Calls, agent : Calls]
           Req == [op : {"new", "clear", "resolved", "served", "done"},
                   scope : Scopes \cup {"none"}, copy : Rows, call : Calls, agent : Calls]
<1>1. /\ cache \in Seq(E) /\ used \in Seq(Calls)
      /\ req \in [Requests -> Req] /\ req[r] \in Req /\ c \in Calls
      /\ UNCHANGED <<row, clock, todo, saved>>
  BY DEF IInv, TypeOK, GetAgent
<1> HIDE DEF E
<1>7. \A x : x \in E <=> x \in [key : Calls, agent : Calls]
  BY DEF E
<1>2. CASE ~(Cached(c) \/ c.provider \in Supported)
  <2> DEFINE new == [req[r] EXCEPT !.op = "done"]
  <2>1. Step(r, new) /\ UNCHANGED <<cache, used>>
    BY <1>2 DEF GetAgent, CacheKey
  <2>2. new \in Req /\ new.call = c /\ new.op = "done"
    BY <1>1
  <2>3. OneCall(c)
    BY DEF IInv
  <2> HIDE DEF new
  <2> QED
    BY <1>1, <2>1, <2>2, <2>3, StepInv
<1>3. CASE Cached(c) \/ c.provider \in Supported
  <2> DEFINE a == IF Cached(c) THEN Entry(c).agent ELSE c
             e == [key |-> c, agent |-> c]
  <2>1. /\ cache' = IF Cached(c) THEN Touch(c) ELSE Add(e)
        /\ used' = Append(used, c)
        /\ req' = [req EXCEPT ![r] = [req[r] EXCEPT !.op = "served", !.agent = a]]
    BY <1>3 DEF GetAgent, CacheKey, Step
  <2>2. e \in E /\ e.agent = e.key
    BY <1>1, <1>7
  <2>3. ASSUME Cached(c)
        PROVE  /\ Entry(c) \in E /\ Entry(c).key = c
               /\ \E i \in 1..Len(cache) : Entry(c) = cache[i]
               /\ Touch(c) \in Seq(E)
               /\ \A i \in 1..Len(Touch(c)) : \E j \in 1..Len(cache) : Touch(c)[i] = cache[j]
    <3>1. cache \in Seq(E)
      BY <1>1
    <3> QED
      BY <2>3, <3>1, TouchType
  <2>4. /\ Add(e) \in Seq(E)
        /\ \A i \in 1..Len(Add(e)) : Add(e)[i] = e \/ \E j \in 1..Len(cache) : Add(e)[i] = cache[j]
    BY <1>1, <2>2, AddType
  <2>5. \A i \in 1..Len(cache) : cache[i].agent = cache[i].key
    BY DEF IInv
  <2>6. a = c
    BY <2>3, <2>5
  <2> HIDE DEF e
  <2>7. cache' \in Seq(E) /\ \A i \in 1..Len(cache') : cache'[i].agent = cache'[i].key
    <3>1. CASE Cached(c)
      BY <2>1, <2>3, <2>5, <3>1
    <3>2. CASE ~Cached(c)
      BY <2>1, <2>2, <2>4, <2>5, <3>2
    <3> QED
      BY <3>1, <3>2
  <2>8. /\ req' \in [Requests -> Req]
        /\ \A q \in Requests : req'[q].call = req[q].call
        /\ req'[r].agent = c
        /\ \A q \in Requests : q # r => req'[q] = req[q]
    <3>1. [req[r] EXCEPT !.op = "served", !.agent = a] \in Req
      BY <1>1, <2>6
    <3> QED
      BY <1>1, <2>1, <2>6, <3>1
  <2>9. used' \in Seq(Calls)
    BY <1>1, <2>1
  <2>10. TypeOK'
    BY <1>1, <2>7, <2>8, <2>9 DEF IInv, TypeOK, E
  <2>11. ServesOwnSettings'
    BY <2>8 DEF IInv, ServesOwnSettings
  <2>12. \A q \in Requests : OneCall(req'[q].call)
    BY <2>8 DEF IInv
  <2>13. Recent(cache', used')
    <3>1. Recent(cache, used) /\ cache \in Seq(E) /\ used \in Seq(Calls) /\ c \in Calls
      BY <1>1 DEF IInv
    <3>2. CASE Cached(c)
      BY <2>1, <3>1, <3>2, TouchRecent
    <3>3. CASE ~Cached(c)
      <4>1. e.key = c
        BY DEF e
      <4>2. Recent(Add(e), Append(used, e.key))
        BY <2>2, <3>1, <3>3, <4>1, AddRecent
      <4> QED
        BY <2>1, <3>3, <4>1, <4>2
    <3> QED
      BY <3>2, <3>3
  <2> QED
    BY <1>1, <2>7, <2>10, <2>11, <2>12, <2>13 DEF IInv, OneSave, OneCall, Past
<1> QED
  BY <1>2, <1>3

LEMMA NextInv == IInv /\ [Next]_vars => IInv'
<1> SUFFICES ASSUME IInv, [Next]_vars PROVE IInv'
  OBVIOUS
<1>1. ASSUME NEW s \in Saves, NEW llm \in ValidLLM(s) \cup {NoLLM}, NEW search \in BOOLEAN,
             SetAgentSettings(s, llm, search)
      PROVE  IInv'
  BY <1>1, SaveInv
<1>2. ASSUME NEW r \in Requests, NEW scope \in Scopes, ReadForClear(r, scope) PROVE IInv'
  BY <1>2, ReadForClearInv
<1>3. ASSUME NEW r \in Requests, CommitClear(r) PROVE IInv'
  BY <1>3, CommitClearInv
<1>4. ASSUME NEW r \in Requests, NEW p \in Providers \cup {Null}, NEW m \in Overrides \cup {Null},
             Resolve(r, p, m)
      PROVE  IInv'
  BY <1>4, ResolveInv
<1>5. ASSUME NEW r \in Requests, GetAgent(r) PROVE IInv'
  BY <1>5, GetAgentInv
<1>6. CASE UNCHANGED vars
  BY <1>6 DEF vars, IInv, TypeOK, OneSave, OneCall, Past, ServesOwnSettings
<1> QED
  BY <1>1, <1>2, <1>3, <1>4, <1>5, <1>6 DEF Next

LEMMA Invariance == Spec => []IInv
BY InitInv, NextInv, PTL DEF Spec

-----------------------------------------------------------------------------
(* Theorems. *)

\* Every variable keeps its type: the cache holds agents, and no chat resolves to
\* an empty model name (_resolve_agent_settings).
THEOREM TypeCorrect == Spec => []TypeOK
<1>1. IInv => TypeOK
  BY DEF IInv
<1> QED
  BY <1>1, Invariance, PTL

\* No chat runs with a key or endpoint of another provider or another save,
\* however saves and partial clears overlap (set_ and clear_agent_settings).
THEOREM OwnKeys == Spec => []NoBorrowedKey
<1>1. IInv => NoBorrowedKey
  BY DEF IInv, OneCall, NoBorrowedKey, Secrets
<1> QED
  BY <1>1, Invariance, PTL

\* The agent that serves a chat was built from what that chat resolved (get_agent).
THEOREM OwnAgent == Spec => []ServesOwnSettings
<1>1. IInv => ServesOwnSettings
  BY DEF IInv
<1> QED
  BY <1>1, Invariance, PTL

\* The cache holds exactly the agents used most recently, in that order, up to its
\* limit (get_agent's move_to_end and popitem).
THEOREM RecentlyUsed == Spec => []CacheIsRecent
<1>1. IInv => CacheIsRecent
  BY RecentIsRecent DEF IInv, TypeOK
<1> QED
  BY <1>1, Invariance, PTL

\* A clear of one half leaves the other half as it is now (clear_agent_settings).
THEOREM ScopedClear == Spec => ClearStaysInScope
<1> DEFINE Kept == \A r \in Requests :
           /\ req[r].op = "clear" /\ req'[r].op = "done"
           => /\ req[r].scope = "llm" => row'.search = row.search
              /\ req[r].scope = "search" => row'.llm = row.llm
<1>1. ASSUME IInv, [Next]_vars, ~UNCHANGED vars PROVE Kept
  <2>1. SUFFICES ASSUME NEW r \in Requests, req[r].op = "clear", req'[r].op = "done"
                 PROVE  /\ req[r].scope = "llm" => row'.search = row.search
                        /\ req[r].scope = "search" => row'.llm = row.llm
    OBVIOUS
  <2>2. row \in Rows /\ DOMAIN req = Requests
    BY <1>1 DEF IInv, TypeOK
  <2>3. CASE CommitClear(r)
    BY <2>2, <2>3 DEF CommitClear, NullOut, Rows, Dirty
  <2>4. ASSUME NEW q \in Requests, CommitClear(q), q # r PROVE FALSE
    BY <2>1, <2>2, <2>4 DEF CommitClear, Step
  <2>5. ASSUME NEW q \in Requests, NEW scope \in Scopes, ReadForClear(q, scope) PROVE FALSE
    BY <2>1, <2>2, <2>5 DEF ReadForClear, Step
  <2>6. ASSUME NEW q \in Requests, NEW p \in Providers \cup {Null},
               NEW m \in Overrides \cup {Null}, Resolve(q, p, m)
        PROVE  FALSE
    BY <2>1, <2>2, <2>6 DEF Resolve, Step
  <2>7. ASSUME NEW q \in Requests, GetAgent(q) PROVE FALSE
    BY <2>1, <2>2, <2>7 DEF GetAgent, Step
  <2>8. ASSUME NEW s \in Saves, NEW llm \in ValidLLM(s) \cup {NoLLM}, NEW search \in BOOLEAN,
               SetAgentSettings(s, llm, search)
        PROVE  FALSE
    BY <2>1, <2>8 DEF SetAgentSettings
  <2> QED
    BY <1>1, <2>3, <2>4, <2>5, <2>6, <2>7, <2>8 DEF Next
<1>2. IInv /\ [Next]_vars => [Kept]_vars
  BY <1>1
<1> QED
  BY <1>2, Invariance, PTL DEF Spec, ClearStaysInScope
=============================================================================
