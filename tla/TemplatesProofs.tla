--------------------------- MODULE TemplatesProofs ---------------------------
(***************************************************************************)
(* What Templates promises, for any requests, names, providers, bodies,    *)
(* filters, words, dates and lengths of paths.  A request names the        *)
(* template it makes, so until it is done none has its name: a template    *)
(* a request has read is not one that is yet to be made.                   *)
(***************************************************************************)
EXTENDS Templates, SequenceTheorems, WellFoundedInduction, TLAPS

-----------------------------------------------------------------------------
(* The inductive invariant. *)

Settings == {Filled(body) : body \in AllBodies}
Rows == [name : Names, settings : {Filled(body) : body \in Bodies}, filters : Filters,
         sent : [name : Names, body : Bodies, filters : Filters], alone : BOOLEAN]
Updates == [op : {"update"}, template : Requests, copy : Rows, alone : BOOLEAN, new : Rows]
Deletes == [op : {"delete"}, template : Requests]
KeyWrites == [op : {"set", "clear"}, provider : Providers, found : BOOLEAN]
Holds == {Idle, Done, [op |-> "crawl"]} \cup KeyWrites \cup Deletes \cup Updates
EngineSettings == {BuildSettings(s, k) : s \in Settings, k \in [Providers -> Requests \cup {Null}]}
Chains == {BuildFilterChain(group) : group \in Filters \cup {Null}}
Engines == [settings : EngineSettings, filters : Chains \cup {Null}]
Crawls == [url : {Normalized(url) : url \in Urls}, mode : Modes, settings : Settings,
           filters : Filters \cup {Null},
           sent : [name : Names \cup {Null}, body : AllBodies, filters : Filters \cup {Null}],
           alone : BOOLEAN, agent : BOOLEAN, engine : Engines \cup {Null}]

Types ==
    /\ templates \in [Requests -> Rows \cup {Null}]
    /\ keys \in [Providers -> Requests \cup {Null}]
    /\ req \in [Requests -> Holds]
    /\ jobs \in [Requests -> Crawls \cup {Null}]
    /\ gone \subseteq Requests

OneSave(row) ==
    /\ row.name = row.sent.name
    /\ row.settings = Filled(row.sent.body)
    /\ row.filters = row.sent.filters

RowsWhole == \A t \in Stored : templates[t].alone => OneSave(templates[t])

\* What an update will write is one save, and unless another save has come
\* between, it has read what is stored.
UpdateWhole(h) ==
    h.op = "update" => /\ OneSave(h.new)
                       /\ h.alone /\ h.template \in Stored => h.copy = templates[h.template]
UpdatesWhole == \A r \in Requests : UpdateWhole(req[r])

Fresh ==
    \A r \in Requests : req[r] # Done =>
        templates[r] = Null /\ r \notin gone

\* What a request has read is a template somebody has made.
TargetMade(h) ==
    h.op \in {"update", "delete"} => req[h.template] = Done
TargetsMade == \A r \in Requests : TargetMade(req[r])

GoneAway == \A t \in gone : templates[t] = Null

CrawlOk(job) ==
    /\ job.alone => job.settings = Filled(job.sent.body) /\ job.filters = job.sent.filters
    /\ ~job.agent => job.sent.body \in Bodies
    /\ job.engine # Null =>
         LET engine == job.engine.settings IN
         /\ engine.limit = job.settings.limit
         /\ engine.include = ToLinkPatterns(job.settings.include)
         /\ engine.exclude = ToLinkPatterns(job.settings.exclude)
         /\ engine.behavior = HumanBehavior(job.settings)
         /\ job.mode = "crawler" => job.engine.filters = BuildFilterChain(job.filters)

\* A crawl that is still to run is there.
CrawlsMade ==
    \A r \in Requests : req[r].op = "crawl" => jobs[r] \in Crawls /\ CrawlOk(jobs[r])

CrawlsOk == \A r \in Started : CrawlOk(jobs[r])

IInv ==
    Types /\ RowsWhole /\ UpdatesWhole /\ Fresh /\ TargetsMade
    /\ GoneAway /\ CrawlsMade /\ CrawlsOk

-----------------------------------------------------------------------------
(* Link patterns. *)

\* A set of naturals has a least element: what stands for induction below.
LEMMA Least ==
    ASSUME NEW T \in SUBSET Nat, T # {}
    PROVE  \E n \in T : \A m \in T : n <= m
<1> DEFINE R == {ss \in Nat \X Nat : ss[1] < ss[2]}
<1>1. IsWellFoundedOn(R, Nat)
  BY NatLessThanWellFounded DEF OpToRel
<1>2. \A x, y \in Nat : x < y => <<x, y>> \in R
  OBVIOUS
<1> HIDE DEF R
<1>3. PICK n \in T : \A m \in T : ~(<<m, n>> \in R)
  BY <1>1, WFMin
<1>4. ASSUME NEW m \in T PROVE n <= m
  <2>1. m \in Nat /\ n \in Nat /\ ~(m < n)
    BY <1>2, <1>3
  <2> QED
    BY <2>1
<1> QED
  BY <1>4

LEMMA Extremes ==
    ASSUME NEW n \in Nat, NEW S \in SUBSET (1..n), S # {}
    PROVE  Min(S) \in S /\ Max(S) \in S
<1>1. \E x \in S : \A y \in S : x <= y
  <2>1. S \in SUBSET Nat
    OBVIOUS
  <2> QED
    BY <2>1, Least
<1>2. \E x \in S : \A y \in S : x >= y
  <2> DEFINE T == {n - x : x \in S}
  <2>1. T \in SUBSET Nat /\ T # {}
    <3>1. \A x \in S : n - x \in Nat
      OBVIOUS
    <3> QED
      BY <3>1
  <2> HIDE DEF T
  <2>2. PICK d \in T : \A e \in T : d <= e
    BY <2>1, Least
  <2>3. PICK x \in S : d = n - x
    BY DEF T
  <2>4. ASSUME NEW y \in S PROVE x >= y
    <3>1. n - y \in T
      BY DEF T
    <3>2. n - x <= n - y
      BY <2>2, <2>3, <3>1
    <3> QED
      BY <3>2
  <2> QED
    BY <2>4
<1> QED
  BY <1>1, <1>2 DEF Min, Max

\* What is left of a keyword is made of the same segments.
LEMMA StripType ==
    ASSUME NEW A, NEW k \in Seq(A)
    PROVE  Strip(k) \in Seq(A)
<1> DEFINE kept == {i \in DOMAIN k : k[i] # "/"}
<1>1. Len(k) \in Nat /\ DOMAIN k = 1..Len(k) /\ \A i \in 1..Len(k) : k[i] \in A
  OBVIOUS
<1>2. CASE kept = {}
  BY <1>2 DEF Strip
<1>3. CASE kept # {}
  <2>1. kept \in SUBSET (1..Len(k))
    BY <1>1
  <2> HIDE DEF kept
  <2>2. Min(kept) \in 1..Len(k) /\ Max(kept) \in 1..Len(k)
    BY <1>1, <1>3, <2>1, Extremes
  <2>3. Strip(k) = SubSeq(k, Min(kept), Max(kept))
    BY <1>3 DEF Strip, kept
  <2> DEFINE a == Min(kept)
             b == Max(kept)
  <2>4. a \in Int /\ b \in Int /\ \A i \in a..b : k[i] \in A
    BY <1>1, <2>2
  <2> HIDE DEF a, b
  <2>5. SubSeq(k, a, b) \in Seq(A)
    BY <2>4, SubSeqProperties
  <2> QED
    BY <2>3, <2>5 DEF a, b
<1> QED
  BY <1>2, <1>3

\* A pattern without a wildcard but at its end matches what it is a prefix of.
LEMMA PrefixMatches ==
    ASSUME NEW A, "*" \notin A, NEW q \in Seq(A), NEW B, NEW s \in Seq(B), NEW p,
           Len(p) = Len(q) + 1, p[Len(q) + 1] = "*", \A i \in 1..Len(q) : p[i] = q[i]
    PROVE  Matches(p, s) <=> IsPrefix(q, s)
<1> DEFINE L == Len(q)
           N == Len(s)
           rest(i, next) == IF i > Len(p) THEN {N + 1}
                            ELSE IF p[i] = "*" THEN {j \in 1..N + 1 : \E n \in next : j <= n}
                            ELSE {j \in 1..N : s[j] = p[i] /\ j + 1 \in next}
           from == CHOOSE f : f = [i \in 1..Len(p) + 1 |-> rest(i, f[i + 1])]
           agree(i, j) == \A n \in i..L : n - i + j <= N /\ s[n - i + j] = q[n]
           told == [i \in 1..Len(p) + 1 |->
                      IF i = L + 2 THEN {N + 1} ELSE {j \in 1..N + 1 : agree(i, j)}]
<1>1. L \in Nat /\ N \in Nat /\ Len(p) = L + 1 /\ p[L + 1] = "*"
      /\ \A i \in 1..L : p[i] = q[i] /\ q[i] # "*"
  OBVIOUS
<1>2. Matches(p, s) <=> 1 \in from[1]
  BY DEF Matches
<1> HIDE DEF L, N
<1>3. /\ told[L + 2] = {N + 1} /\ told[L + 1] = 1..N + 1
      /\ \A i \in 1..L : told[i] = {j \in 1..N + 1 : agree(i, j)}
  <2>1. told[L + 1] = {j \in 1..N + 1 : agree(L + 1, j)} /\ \A j : agree(L + 1, j)
    BY <1>1
  <2>2. \A i \in 1..L : told[i] = {j \in 1..N + 1 : agree(i, j)}
    BY <1>1
  <2>3. told[L + 2] = {N + 1}
    BY <1>1
  <2> HIDE DEF told, agree
  <2> QED
    BY <2>1, <2>2, <2>3
<1>4. ASSUME NEW i \in 1..L + 2 PROVE told[i] = rest(i, told[i + 1])
  <2>1. CASE i = L + 2
    BY <1>1, <1>3, <2>1
  <2>2. CASE i = L + 1
    <3>1. rest(i, told[i + 1]) = {j \in 1..N + 1 : \E n \in told[i + 1] : j <= n}
      BY <1>1, <2>2
    <3>2. told[i + 1] = {N + 1}
      BY <1>1, <1>3, <2>2
    <3>3. \A j \in 1..N + 1 : j <= N + 1
      BY <1>1
    <3> HIDE DEF told, rest
    <3> QED
      BY <1>3, <2>2, <3>1, <3>2, <3>3
  <2>3. CASE i \in 1..L
    <3>1. rest(i, told[i + 1]) = {j \in 1..N : s[j] = q[i] /\ j + 1 \in told[i + 1]}
      BY <1>1, <2>3
    <3>2. told[i + 1] = {j \in 1..N + 1 : agree(i + 1, j)}
      <4>1. CASE i = L
        <5>1. \A j : agree(L + 1, j)
          BY <1>1
        <5> HIDE DEF told, agree
        <5> QED
          BY <1>3, <4>1, <5>1
      <4>2. CASE i # L
        BY <1>1, <1>3, <2>3, <4>2
      <4> QED
        BY <4>1, <4>2
    <3>3. ASSUME NEW j \in 1..N + 1
          PROVE  agree(i, j) <=> j \in 1..N /\ s[j] = q[i] /\ agree(i + 1, j + 1)
      <4>1. ASSUME agree(i, j) PROVE j \in 1..N /\ s[j] = q[i] /\ agree(i + 1, j + 1)
        <5>1. i - i + j <= N /\ s[i - i + j] = q[i] /\ i - i + j = j
          BY <1>1, <2>3, <4>1
        <5>2. ASSUME NEW n \in i + 1..L
              PROVE  n - (i + 1) + (j + 1) <= N /\ s[n - (i + 1) + (j + 1)] = q[n]
          <6>1. n \in i..L /\ n - (i + 1) + (j + 1) = n - i + j
            BY <1>1, <2>3
          <6> QED
            BY <4>1, <6>1
        <5> QED
          BY <1>1, <5>1, <5>2
      <4>2. ASSUME j \in 1..N, s[j] = q[i], agree(i + 1, j + 1), NEW n \in i..L
            PROVE  n - i + j <= N /\ s[n - i + j] = q[n]
        <5>1. CASE n = i
          <6>1. n - i + j = j
            BY <1>1, <2>3, <5>1
          <6> QED
            BY <1>1, <4>2, <5>1, <6>1
        <5>2. CASE n # i
          <6>1. n \in i + 1..L /\ n - (i + 1) + (j + 1) = n - i + j
            BY <1>1, <2>3, <5>2
          <6> QED
            BY <4>2, <6>1
        <5> QED
          BY <5>1, <5>2
      <4> QED
        BY <4>1, <4>2
    <3>4. told[i] = {j \in 1..N + 1 : agree(i, j)}
      BY <1>3, <2>3
    <3>5. \A j \in 1..N : j \in 1..N + 1 /\ j + 1 \in 1..N + 1
      BY <1>1
    <3> HIDE DEF told, rest, agree
    <3> QED
      BY <3>1, <3>2, <3>3, <3>4, <3>5
  <2> QED
    BY <1>1, <2>1, <2>2, <2>3
<1>5. from = [i \in 1..Len(p) + 1 |-> rest(i, from[i + 1])]
  <2>1. told = [i \in 1..Len(p) + 1 |-> rest(i, told[i + 1])]
    <3>1. 1..Len(p) + 1 = 1..L + 2
      BY <1>1
    <3>2. DOMAIN told = 1..Len(p) + 1 /\ told = [i \in 1..Len(p) + 1 |-> told[i]]
      OBVIOUS
    <3> HIDE DEF rest, told
    <3> QED
      BY <1>4, <3>1, <3>2
  <2> HIDE DEF rest, told
  <2> QED
    BY <2>1
<1> HIDE DEF from
<1>6. ASSUME NEW i \in 1..L + 2 PROVE from[i] = told[i]
  <2> DEFINE T == {d \in 0..L + 1 : from[L + 2 - d] # told[L + 2 - d]}
  <2>1. ASSUME T # {} PROVE FALSE
    <3>1. T \in SUBSET Nat
      BY <1>1
    <3> HIDE DEF T
    <3>2. PICK d \in T : \A e \in T : d <= e
      BY <2>1, <3>1, Least
    <3>3. d \in 0..L + 1 /\ from[L + 2 - d] # told[L + 2 - d]
      BY <3>2 DEF T
    <3> DEFINE n == L + 2 - d
    <3>4. n \in 1..L + 2 /\ n \in 1..Len(p) + 1
      BY <1>1, <3>3
    <3>5. from[n] = rest(n, from[n + 1])
      BY <1>5, <3>4
    <3>6. CASE d = 0
      <4>1. rest(n, from[n + 1]) = rest(n, told[n + 1])
        BY <1>1, <3>4, <3>6
      <4> HIDE DEF rest, told
      <4> QED
        BY <1>4, <3>3, <3>4, <3>5, <4>1
    <3>7. CASE d # 0
      <4>1. d - 1 \in 0..L + 1 /\ ~(d <= d - 1) /\ L + 2 - (d - 1) = n + 1
        BY <1>1, <3>3, <3>7
      <4>2. from[n + 1] = told[n + 1]
        BY <3>2, <4>1 DEF T
      <4> HIDE DEF rest, told
      <4> QED
        BY <1>4, <3>3, <3>4, <3>5, <4>2
    <3> QED
      BY <3>6, <3>7
  <2>2. L + 2 - i \in 0..L + 1 /\ L + 2 - (L + 2 - i) = i
    BY <1>1
  <2> HIDE DEF rest, told
  <2> QED
    BY <2>1, <2>2
<1>7. 1 \in told[1] <=> \A n \in 1..L : n <= N /\ s[n] = q[n]
  <2>1. told[1] = {j \in 1..N + 1 : agree(1, j)}
    <3>1. CASE L = 0
      BY <1>1, <3>1
    <3>2. CASE L # 0
      BY <1>1, <1>3, <3>2
    <3> QED
      BY <3>1, <3>2
  <2>2. \A n \in 1..L : n - 1 + 1 = n
    BY <1>1
  <2>3. agree(1, 1) <=> \A n \in 1..L : n <= N /\ s[n] = q[n]
    BY <2>2
  <2> HIDE DEF told, agree
  <2> QED
    BY <1>1, <2>1, <2>3
<1>8. IsPrefix(q, s) <=> \A n \in 1..L : n <= N /\ s[n] = q[n]
  <2>1. IsPrefix(q, s) <=> L <= N /\ SubSeq(q, 1, L) = SubSeq(s, 1, L)
    BY DEF IsPrefix, L, N
  <2>2. SubSeq(q, 1, L) = q
    BY SubSeqFull DEF L
  <2>3. ASSUME L <= N
        PROVE  SubSeq(s, 1, L) = q <=> \A n \in 1..L : s[n] = q[n]
    <3>1. \A n \in 1..L : s[n] \in B
      BY <1>1, <2>3 DEF N
    <3>2. /\ SubSeq(s, 1, L) \in Seq(B)
          /\ Len(SubSeq(s, 1, L)) = IF 1 <= L THEN L - 1 + 1 ELSE 0
          /\ \A n \in 1..L - 1 + 1 : SubSeq(s, 1, L)[n] = s[1 + n - 1]
      <4>1. 1 \in Int /\ L \in Int
        BY <1>1
      <4> QED
        BY <3>1, <4>1, SubSeqProperties
    <3>3. /\ Len(SubSeq(s, 1, L)) = L
          /\ \A n \in 1..L : SubSeq(s, 1, L)[n] = s[n]
      <4>1. L - 1 + 1 = L /\ \A n \in 1..L : 1 + n - 1 = n
        BY <1>1
      <4> QED
        BY <1>1, <3>2, <4>1
    <3>4. q \in Seq(A \cup B) /\ SubSeq(s, 1, L) \in Seq(A \cup B) /\ Len(q) = L
      BY <3>2, SeqMonotonic DEF L
    <3>5. (\A n \in 1..L : SubSeq(s, 1, L)[n] = q[n]) => SubSeq(s, 1, L) = q
      BY <3>3, <3>4, SeqEqual
    <3> QED
      BY <3>3, <3>5
  <2>4. (\A n \in 1..L : n <= N /\ s[n] = q[n]) => L <= N
    BY <1>1
  <2>5. L <= N => \A n \in 1..L : n <= N
    BY <1>1
  <2> QED
    BY <2>1, <2>2, <2>3, <2>4, <2>5
<1> HIDE DEF told
<1>9. 1 \in 1..L + 2
  BY <1>1
<1> QED
  BY <1>2, <1>6, <1>7, <1>8, <1>9

LEMMA TwoMore ==
    ASSUME NEW A, NEW h \in Seq(A), NEW x \in A, NEW y \in A
    PROVE  /\ Len(h \o <<x, y>>) = Len(h) + 2
           /\ \A i \in 1..Len(h) : (h \o <<x, y>>)[i] = h[i]
           /\ (h \o <<x, y>>)[Len(h) + 1] = x
           /\ (h \o <<x, y>>)[Len(h) + 2] = y
  OBVIOUS

\* The pattern of a keyword admits the pages of its section and no others.
LEMMA PatternIsSection ==
    ASSUME BodyAssumption, NEW k \in Keywords, NEW B, NEW path \in Seq(B)
    PROVE  Matches(Pattern(k), path) <=> InSection(k, path)
<1> DEFINE A == Words \cup {"/"}
           m == Strip(k)
           q == <<"/">> \o m \o <<"/">>
           p == <<"/">> \o m \o <<"/", "*">>
           L == Len(m)
<1>1. m \in Seq(A) /\ L \in Nat /\ "*" \notin A
  BY StripType DEF Keywords, BodyAssumption
<1> HIDE DEF m, L
<1>2. m \in Seq(A \cup {"*"}) /\ Len(m) = L
  BY <1>1, SeqMonotonic DEF L
<1> DEFINE h == <<"/">> \o m
<1>3. /\ h \in Seq(A) /\ h \in Seq(A \cup {"*"}) /\ Len(h) = L + 1
  <2>1. <<"/">> \in Seq(A) /\ <<"/">> \in Seq(A \cup {"*"}) /\ Len(<<"/">>) = 1
    OBVIOUS
  <2>2. h \in Seq(A) /\ Len(h) = 1 + Len(m)
    BY <1>1, <2>1, ConcatProperties
  <2>3. h \in Seq(A \cup {"*"})
    BY <1>2, <2>1, ConcatProperties
  <2> QED
    BY <1>1, <1>2, <2>2, <2>3
<1> HIDE DEF h
<1>4. /\ q \in Seq(A) /\ Len(q) = L + 2
      /\ \A i \in 1..L + 1 : q[i] = h[i]
      /\ q[L + 2] = "/"
  <2>1. <<"/">> \in Seq(A) /\ Len(<<"/">>) = 1 /\ <<"/">>[1] = "/"
    OBVIOUS
  <2>2. /\ h \o <<"/">> \in Seq(A) /\ Len(h \o <<"/">>) = Len(h) + 1
        /\ \A i \in 1..Len(h) + 1 :
             (h \o <<"/">>)[i] = IF i <= Len(h) THEN h[i] ELSE <<"/">>[i - Len(h)]
    BY <1>3, <2>1, ConcatProperties
  <2>3. q = h \o <<"/">>
    BY DEF h
  <2> HIDE DEF q
  <2>4. \A i \in 1..L + 1 : i \in 1..Len(h) + 1 /\ i <= Len(h)
    BY <1>1, <1>3
  <2>5. L + 2 \in 1..Len(h) + 1 /\ ~(L + 2 <= Len(h)) /\ L + 2 - Len(h) = 1 /\ Len(h) + 1 = L + 2
    BY <1>1, <1>3
  <2> QED
    BY <2>1, <2>2, <2>3, <2>4, <2>5
<1>5. /\ Len(p) = L + 3 /\ \A i \in 1..L + 1 : p[i] = h[i]
      /\ p[L + 2] = "/" /\ p[L + 3] = "*"
  <2> DEFINE C == A \cup {"*"}
  <2>1. "/" \in C /\ "*" \in C /\ h \in Seq(C)
    BY <1>3
  <2>2. p = h \o <<"/", "*">>
    BY DEF h
  <2> HIDE DEF C, p
  <2>3. /\ Len(h \o <<"/", "*">>) = Len(h) + 2
        /\ \A i \in 1..Len(h) : (h \o <<"/", "*">>)[i] = h[i]
        /\ (h \o <<"/", "*">>)[Len(h) + 1] = "/" /\ (h \o <<"/", "*">>)[Len(h) + 2] = "*"
    BY <2>1, TwoMore
  <2>4. /\ Len(p) = Len(h) + 2 /\ \A i \in 1..Len(h) : p[i] = h[i]
        /\ p[Len(h) + 1] = "/" /\ p[Len(h) + 2] = "*"
    BY <2>2, <2>3, Zenon
  <2>5. Len(h) + 1 = L + 2 /\ Len(h) + 2 = L + 3 /\ Len(h) = L + 1
    BY <1>1, <1>3
  <2> QED
    BY <2>4, <2>5
<1>6. p = Pattern(k) /\ (InSection(k, path) <=> IsPrefix(q, path))
  BY DEF Pattern, InSection, m
<1> HIDE DEF p, q
<1>7. Len(p) = Len(q) + 1 /\ p[Len(q) + 1] = "*" /\ \A i \in 1..Len(q) : p[i] = q[i]
  <2>1. Len(q) + 1 = L + 3 /\ \A i \in 1..Len(q) : i \in 1..L + 1 \/ i = L + 2
    BY <1>1, <1>4
  <2> QED
    BY <1>4, <1>5, <2>1
<1> HIDE DEF A
<1>8. Matches(p, path) <=> IsPrefix(q, path)
  BY <1>1, <1>4, <1>7, PrefixMatches
<1> QED
  BY <1>6, <1>8

\* No keywords are no restriction.
LEMMA PatternsMeanWords ==
    ASSUME NullAssumption, BodyAssumption, NEW ks \in Seq(Keywords) \cup {Null}, NEW path \in Paths
    PROVE  /\ Admits(ToLinkPatterns(ks), path) <=> Wanted(ks, path)
           /\ ToLinkPatterns(ks) = Null <=> ks \in {Null, <<>>}
<1>1. \E B : path \in Seq(B)
  <2>1. PICK ws \in BoundedSeq(Words, MaxSegments) \ {<<>>} :
           path = [i \in 1..2 * Len(ws) |-> IF i % 2 = 1 THEN "/" ELSE ws[i \div 2]]
    BY DEF Paths
  <2>2. Len(ws) \in Nat
    BY DEF BoundedSeq, SeqOf
  <2> DEFINE n == 2 * Len(ws)
             B == {path[i] : i \in 1..n}
  <2>3. n \in Nat /\ path \in [1..n -> B]
    BY <2>1, <2>2
  <2> HIDE DEF n, B
  <2>4. path \in Seq(B)
    BY <2>3
  <2> QED
    BY <2>4
<1>2. CASE ks \in {Null, <<>>}
  BY <1>2 DEF ToLinkPatterns, Admits, Wanted
<1>3. CASE ks \notin {Null, <<>>}
  <2> DEFINE P == [i \in DOMAIN ks |-> Pattern(ks[i])]
  <2>1. ks \in Seq(Keywords) /\ DOMAIN ks = 1..Len(ks) /\ Len(ks) \in Nat
    BY <1>3
  <2>2. \A i \in DOMAIN ks : ks[i] \in Keywords
    BY <2>1
  <2>3. P # Null
    <3> DEFINE A == Words \cup {"/", "*"}
    <3>1. ASSUME NEW k \in Keywords PROVE Pattern(k) \in Seq(A)
      <4>1. Strip(k) \in Seq(Words \cup {"/"})
        BY StripType DEF Keywords
      <4>2. Strip(k) \in Seq(A)
        BY <4>1, SeqMonotonic
      <4>3. <<"/">> \in Seq(A) /\ <<"/", "*">> \in Seq(A)
        OBVIOUS
      <4> HIDE DEF A
      <4>4. <<"/">> \o Strip(k) \in Seq(A)
        BY <4>2, <4>3, ConcatProperties
      <4>5. (<<"/">> \o Strip(k)) \o <<"/", "*">> \in Seq(A)
        BY <4>3, <4>4, ConcatProperties
      <4> QED
        BY <4>5 DEF Pattern
    <3> HIDE DEF A
    <3>2. P \in [1..Len(ks) -> Seq(A)]
      BY <2>1, <2>2, <3>1
    <3> HIDE DEF P
    <3>3. P \in Seq(Seq(A))
      BY <2>1, <3>2
    <3> QED
      BY <3>3 DEF NullAssumption, A
  <2>4. ToLinkPatterns(ks) = P
    BY <1>3 DEF ToLinkPatterns
  <2>5. DOMAIN P = DOMAIN ks /\ \A i \in DOMAIN ks : P[i] = Pattern(ks[i])
    OBVIOUS
  <2> HIDE DEF P
  <2>6. Admits(P, path) <=> \E i \in DOMAIN ks : Matches(Pattern(ks[i]), path)
    BY <2>3, <2>5 DEF Admits
  <2>7. \A i \in DOMAIN ks : Matches(Pattern(ks[i]), path) <=> InSection(ks[i], path)
    BY <1>1, <2>2, PatternIsSection
  <2> QED
    BY <1>3, <2>3, <2>4, <2>6, <2>7 DEF Wanted
<1> QED
  BY <1>2, <1>3

-----------------------------------------------------------------------------
(* Filters. *)

LEMMA NodeMeansMeets ==
    ASSUME PagesAssumption, NullAssumption, NEW node \in Nodes, NEW page \in Pages,
           ~(node.kind = "by_cosine_similarity" /\ node.threshold = 0)
    PROVE  Accepts(Predicate(node), page) <=> Meets(node, page)
<1>0. page.date \in Nat /\ page.words \subseteq Words /\ page.score \in Nat
  BY DEF Pages, PagesAssumption
<1>1. CASE node \in [kind : {"by_date"}, start : Nat \cup {Null}, end : Nat \cup {Null}]
  <2>1. node.kind = "by_date" /\ node.start \in Nat \cup {Null} /\ node.end \in Nat \cup {Null}
    BY <1>1
  <2>2. Predicate(node) = node
    BY <2>1 DEF Predicate
  <2>3. Accepts(node, page) <=> /\ node.start = Null \/ node.start <= page.date
                                /\ node.end = Null \/ page.date <= node.end
    BY <2>1 DEF Accepts
  <2>4. Meets(node, page) <=> /\ ~(node.start # Null /\ node.start > page.date)
                              /\ ~(node.end # Null /\ node.end < page.date)
    BY <2>1 DEF Meets
  <2> QED
    BY <1>0, <2>1, <2>2, <2>3, <2>4
<1>2. CASE node \in [kind : {"by_list"}, list : {Null} \cup SUBSET Words]
  <2> DEFINE list == IF node.list = Null THEN {} ELSE node.list
  <2>1. node.kind = "by_list" /\ node.list \in {Null} \cup SUBSET Words
    BY <1>2
  <2>2. Predicate(node) = [node EXCEPT !.list = list]
    BY <2>1 DEF Predicate
  <2>3. Predicate(node).kind = "by_list" /\ Predicate(node).list = list
    BY <1>2, <2>2
  <2>4. Accepts(Predicate(node), page) <=> list \cap page.words # {}
    BY <2>3 DEF Accepts
  <2>5. Meets(node, page) <=> node.list # Null /\ \E w \in page.words : w \in node.list
    BY <2>1 DEF Meets
  <2> QED
    BY <2>1, <2>4, <2>5
<1>3. CASE node \in [kind : {"by_cosine_similarity"}, threshold : Nat \cup {Null}]
  <2> DEFINE least == IF node.threshold = Null THEN DefaultThreshold ELSE node.threshold
  <2>1. /\ node.kind = "by_cosine_similarity" /\ node.threshold # 0
    BY <1>3
  <2>2. Predicate(node) = [node EXCEPT !.threshold = least]
    BY <2>1 DEF Predicate, Or
  <2>3. Predicate(node).kind = "by_cosine_similarity" /\ Predicate(node).threshold = least
    BY <1>3, <2>2
  <2>4. Accepts(Predicate(node), page) <=> page.score >= least
    BY <2>3 DEF Accepts
  <2>5. Meets(node, page) <=> page.score >= least
    BY <2>1 DEF Meets
  <2> QED
    BY <2>4, <2>5
<1> QED
  BY <1>1, <1>2, <1>3 DEF Nodes

LEMMA PredicateType ==
    ASSUME NEW node \in Nodes
    PROVE  Predicate(node) \in Nodes
<1>1. CASE node \in [kind : {"by_date"}, start : Nat \cup {Null}, end : Nat \cup {Null}]
  <2>1. Predicate(node) = node
    BY <1>1 DEF Predicate
  <2> QED
    BY <2>1
<1>2. CASE node \in [kind : {"by_list"}, list : {Null} \cup SUBSET Words]
  <2>1. Predicate(node) = [node EXCEPT !.list = IF @ = Null THEN {} ELSE @]
    BY <1>2 DEF Predicate
  <2>2. Predicate(node) \in [kind : {"by_list"}, list : {Null} \cup SUBSET Words]
    BY <1>2, <2>1
  <2> QED
    BY <2>2 DEF Nodes
<1>3. CASE node \in [kind : {"by_cosine_similarity"}, threshold : Nat \cup {Null}]
  <2>1. Predicate(node) = [node EXCEPT !.threshold = Or(@, DefaultThreshold)]
    BY <1>3 DEF Predicate
  <2>2. Or(node.threshold, DefaultThreshold) \in Nat \cup {Null}
    BY <1>3 DEF Or, DefaultThreshold
  <2>3. Predicate(node) \in [kind : {"by_cosine_similarity"}, threshold : Nat \cup {Null}]
    BY <1>3, <2>1, <2>2
  <2> QED
    BY <2>3 DEF Nodes
<1> QED
  BY <1>1, <1>2, <1>3 DEF Nodes

\* The chain built of a group passes the pages that meet the group.
LEMMA ChainMeansGroup ==
    ASSUME PagesAssumption, NullAssumption, NEW group \in Groups \cup {Null}, ~AsksForZero(group),
           NEW page \in Pages
    PROVE  Passes(BuildFilterChain(group), page) <=> MeetsGroup(group, page)
<1>1. CASE group = Null
  BY <1>1 DEF BuildFilterChain, Passes, MeetsGroup
<1>2. CASE group # Null /\ group.chain = <<>>
  BY <1>2 DEF BuildFilterChain, Passes, MeetsGroup
<1>3. CASE group # Null /\ group.chain # <<>>
  <2> DEFINE D == DOMAIN group.chain
             chain == [i \in D |-> Predicate(group.chain[i])]
             built == [mode |-> group.mode, chain |-> chain]
  <2>1. group \in Groups /\ group.mode \in {"AND", "OR"} /\ group.chain \in Seq(Nodes)
    BY <1>3 DEF Groups
  <2>2. D = 1..Len(group.chain) /\ Len(group.chain) \in Nat /\ \A i \in D : group.chain[i] \in Nodes
    BY <2>1
  <2>3. \A i \in D : Predicate(group.chain[i]) \in Nodes
    BY <2>2, PredicateType
  <2>4. chain \in Seq(Nodes)
    BY <2>2, <2>3
  <2>5. built \in Groups /\ built # Null
    BY <2>1, <2>4 DEF Groups, NullAssumption
  <2>6. BuildFilterChain(group) = built
    BY <1>3 DEF BuildFilterChain
  <2>7. \A i \in D : Accepts(chain[i], page) <=> Meets(group.chain[i], page)
    BY <1>3, <2>2, NodeMeansMeets DEF AsksForZero
  <2>8. DOMAIN chain = D /\ built.chain = chain /\ built.mode = group.mode
    OBVIOUS
  <2> HIDE DEF D, chain, built
  <2>9. Passes(built, page) <=>
          IF group.mode = "AND" THEN \A i \in D : Meets(group.chain[i], page)
                                ELSE \E i \in D : Meets(group.chain[i], page)
    BY <2>5, <2>7, <2>8 DEF Passes
  <2>10. MeetsGroup(group, page) <=>
          IF group.mode = "AND" THEN \A i \in D : Meets(group.chain[i], page)
                                ELSE \E i \in D : Meets(group.chain[i], page)
    BY <1>3 DEF MeetsGroup, D
  <2> QED
    BY <2>6, <2>9, <2>10
<1> QED
  BY <1>1, <1>2, <1>3

-----------------------------------------------------------------------------
(* The invariant is inductive. *)

LEMMA HoldOf ==
    ASSUME NEW h \in Holds
    PROVE  /\ h.op = "update" => h \in Updates
           /\ h.op = "delete" => h \in Deletes
           /\ h.op \in {"set", "clear"} => h \in KeyWrites
           /\ h.op \in {"update", "delete", "set", "clear", "crawl", "new"} => h # Done
           /\ Idle # Done /\ Idle.op = "new" /\ Done.op = "done"
  BY DEF Holds, Updates, Deletes, KeyWrites, Idle, Done

\* Settings that were completed once are complete.
LEMMA FilledTwice ==
    ASSUME NEW body
    PROVE  /\ Filled(Filled(body)) = Filled(body)
           /\ DOMAIN Filled(body) = DOMAIN Defaults
  BY DEF Filled

\* A step that changes only what a request holds.
LEMMA HoldStep ==
    ASSUME NullAssumption, IInv, NEW r \in Requests, req[r] # Done, NEW h \in Holds, Step(r, h),
           UNCHANGED <<templates, keys, jobs, gone>>,
           UpdateWhole(h), TargetMade(h), h.op # "crawl"
    PROVE  IInv'
<1>1. \A q \in Requests : req'[q] = IF q = r THEN h ELSE req[q]
  BY DEF Step, IInv, Types
<1>2. Types'
  BY DEF IInv, Types, Step
<1>3. (RowsWhole /\ GoneAway /\ CrawlsOk)'
  BY DEF IInv, RowsWhole, OneSave, GoneAway, CrawlsOk, CrawlOk, Started, Stored
<1>4. UpdatesWhole'
  BY <1>1 DEF IInv, UpdatesWhole, UpdateWhole, OneSave, Stored
<1>5. Fresh'
  BY <1>1 DEF IInv, Fresh
<1>6. TargetsMade'
  <2> SUFFICES ASSUME NEW q \in Requests, req'[q].op \in {"update", "delete"}
               PROVE  req'[req'[q].template] = Done
    BY DEF TargetsMade, TargetMade
  <2>1. req[req'[q].template] = Done
    BY <1>1 DEF IInv, TargetsMade, TargetMade
  <2>2. req'[q].template \in Requests
    <3>1. req'[q] \in Holds
      BY <1>2 DEF Types
    <3> QED
      BY <3>1, HoldOf DEF Updates, Deletes
  <2> QED
    BY <1>1, <2>1, <2>2
<1>7. CrawlsMade'
  BY <1>1 DEF IInv, CrawlsMade, CrawlOk
<1> QED
  BY <1>2, <1>3, <1>4, <1>5, <1>6, <1>7 DEF IInv

LEMMA RowIsRow ==
    ASSUME NEW name \in Names, NEW body \in Bodies, NEW filters \in Filters
    PROVE  Row(name, body, filters, TRUE) \in Rows /\ OneSave(Row(name, body, filters, TRUE))
  BY DEF Row, Rows, OneSave

\* What can be read is made.
LEMMA StoredMade ==
    ASSUME NullAssumption, IInv, NEW t \in Stored
    PROVE  req[t] = Done /\ t \in Requests /\ templates[t] \in Rows
<1>1. t \in Requests /\ templates[t] # Null
  BY DEF Stored
<1> QED
  BY <1>1 DEF IInv, Fresh, Types

LEMMA ReadForUpdateInv ==
    ASSUME NullAssumption, IInv, NEW r \in Requests, NEW t \in Requests, NEW name \in Names,
           NEW body \in Bodies, NEW filters \in Filters,
           ReadForUpdate(r, t, name, body, filters)
    PROVE  IInv'
<1>1. /\ req[r] = Idle /\ Idle # Done /\ Idle \in Holds
      /\ UNCHANGED <<templates, keys, jobs, gone>>
  BY DEF ReadForUpdate, Idle, Done, Holds
<1>2. CASE t \in Stored
  <2> DEFINE h == [op |-> "update", template |-> t, copy |-> templates[t], alone |-> TRUE,
                   new |-> Row(name, body, filters, TRUE)]
  <2>1. h \in Holds
    BY <1>2, StoredMade, RowIsRow DEF Holds, Updates
  <2>2. Step(r, h)
    BY <1>2 DEF ReadForUpdate
  <2>3. UpdateWhole(h) /\ TargetMade(h) /\ h.op # "crawl"
    BY <1>2, StoredMade, RowIsRow DEF UpdateWhole, TargetMade
  <2> HIDE DEF h
  <2> QED
    BY <1>1, <2>1, <2>2, <2>3, HoldStep
<1>3. CASE t \notin Stored
  <2>1. Done \in Holds /\ Step(r, Done)
    BY <1>3 DEF ReadForUpdate, Holds
  <2>2. UpdateWhole(Done) /\ TargetMade(Done) /\ Done.op # "crawl"
    BY DEF UpdateWhole, TargetMade, Done
  <2> QED
    BY <1>1, <2>1, <2>2, HoldStep
<1> QED
  BY <1>2, <1>3

LEMMA ReadForDeleteInv ==
    ASSUME NullAssumption, IInv, NEW r \in Requests, NEW t \in Requests, ReadForDelete(r, t)
    PROVE  IInv'
<1>1. req[r] = Idle /\ Idle # Done /\ UNCHANGED <<templates, keys, jobs, gone>>
  BY DEF ReadForDelete, Idle, Done
<1> DEFINE h == IF t \in Stored THEN [op |-> "delete", template |-> t] ELSE Done
<1>2. h \in Holds /\ Step(r, h)
  BY DEF ReadForDelete, Holds, Deletes
<1>3. UpdateWhole(h) /\ TargetMade(h) /\ h.op # "crawl"
  BY StoredMade DEF UpdateWhole, TargetMade, Done
<1> HIDE DEF h
<1> QED
  BY <1>1, <1>2, <1>3, HoldStep

LEMMA ReadKeyInv ==
    ASSUME NullAssumption, IInv, NEW r \in Requests, NEW p \in Providers,
           NEW op \in {"set", "clear"}, ReadKey(r, op, p)
    PROVE  IInv'
<1>1. req[r] = Idle /\ Idle # Done /\ UNCHANGED <<templates, keys, jobs, gone>>
  BY DEF ReadKey, Idle, Done
<1> DEFINE h == [op |-> op, provider |-> p, found |-> keys[p] # Null]
<1>2. h \in Holds /\ Step(r, h)
  BY DEF ReadKey, Holds, KeyWrites
<1>3. UpdateWhole(h) /\ TargetMade(h) /\ h.op # "crawl"
  BY DEF UpdateWhole, TargetMade
<1> HIDE DEF h
<1> QED
  BY <1>1, <1>2, <1>3, HoldStep

LEMMA CreateTemplateInv ==
    ASSUME NullAssumption, IInv, NEW r \in Requests, NEW name \in Names, NEW body \in Bodies,
           NEW filters \in Filters, CreateTemplate(r, name, body, filters)
    PROVE  IInv'
<1> DEFINE row == Row(name, body, filters, TRUE)
<1>1. /\ req[r] = Idle /\ Idle # Done /\ Done \in Holds /\ Step(r, Done)
      /\ UNCHANGED <<keys, jobs, gone>>
  BY DEF CreateTemplate, Idle, Done, Holds
<1>2. CASE ~Free(r, name)
  <2>1. UpdateWhole(Done) /\ TargetMade(Done) /\ Done.op # "crawl"
    BY DEF UpdateWhole, TargetMade, Done
  <2>2. UNCHANGED templates
    BY <1>2 DEF CreateTemplate
  <2> QED
    BY <1>1, <2>1, <2>2, HoldStep
<1>3. CASE Free(r, name)
  <2>1. templates' = [templates EXCEPT ![r] = row] /\ row \in Rows /\ OneSave(row)
    BY <1>3, RowIsRow DEF CreateTemplate
  <2> HIDE DEF row
  <2>2. /\ \A q \in Requests : req'[q] = IF q = r THEN Done ELSE req[q]
        /\ \A t \in Requests : templates'[t] = IF t = r THEN row ELSE templates[t]
        /\ templates[r] = Null /\ r \notin gone
    BY <1>1, <2>1 DEF Step, IInv, Types, Fresh
  <2>3. Types'
    BY <1>1, <2>1 DEF IInv, Types, Step
  <2>4. RowsWhole'
    BY <2>1, <2>2 DEF IInv, RowsWhole, Stored, OneSave
  <2>5. UpdatesWhole'
    <3> SUFFICES ASSUME NEW q \in Requests PROVE UpdateWhole(req[q])'
      BY DEF UpdatesWhole
    <3>1. CASE q = r
      BY <2>2, <3>1 DEF UpdateWhole, Done
    <3>2. CASE q # r
      <4>1. req'[q] = req[q] /\ UpdateWhole(req[q]) /\ TargetMade(req[q]) /\ req[q] \in Holds
        BY <2>2, <3>2 DEF IInv, UpdatesWhole, TargetsMade, Types
      <4>2. req[q].op = "update" => req[q].template \in Requests /\ req[q].template # r
        BY <1>1, <4>1, HoldOf DEF TargetMade, Updates
      <4>3. req[q].op = "update" => templates'[req[q].template] = templates[req[q].template]
        BY <2>2, <4>2
      <4>4. req[q].op = "update" /\ req[q].template \in Stored' => req[q].template \in Stored
        BY <4>2, <4>3 DEF Stored
      <4> QED
        BY <4>1, <4>3, <4>4 DEF UpdateWhole, OneSave
    <3> QED
      BY <3>1, <3>2
  <2>6. Fresh'
    BY <1>1, <2>2 DEF IInv, Fresh
  <2>7. TargetsMade'
    BY <1>1, <2>2, HoldOf DEF IInv, TargetsMade, TargetMade, Types, Updates, Deletes, Done
  <2>8. GoneAway' /\ CrawlsOk'
    BY <1>1, <2>2 DEF IInv, GoneAway, Types, CrawlsOk, CrawlOk, Started
  <2>9. CrawlsMade'
    BY <1>1, <2>2 DEF IInv, CrawlsMade, CrawlOk, Done
  <2> QED
    BY <2>3, <2>4, <2>5, <2>6, <2>7, <2>8, <2>9 DEF IInv
<1> QED
  BY <1>2, <1>3

\* An update that nothing came between writes the save it was sent.
LEMMA ChangedRow ==
    ASSUME NEW row \in Rows, NEW copy \in Rows, NEW new \in Rows, NEW alone \in BOOLEAN,
           OneSave(new), alone => copy = row
    PROVE  LET out == [Changed(row, copy, new) EXCEPT !.alone = alone] IN
           out \in Rows /\ (out.alone => OneSave(out))
<1> DEFINE pick(f) == IF copy[f] = new[f] THEN row[f] ELSE new[f]
           out == [name |-> pick("name"), settings |-> pick("settings"),
                   filters |-> pick("filters"), sent |-> new.sent, alone |-> alone]
<1>1. DOMAIN row = {"name", "settings", "filters", "sent", "alone"}
  BY DEF Rows
<1>2. [Changed(row, copy, new) EXCEPT !.alone = alone] = out
  <2> DEFINE c == Changed(row, copy, new)
  <2>1. DOMAIN c = {"name", "settings", "filters", "sent", "alone"}
    BY <1>1 DEF Changed
  <2>2. /\ c["name"] = pick("name") /\ c["settings"] = pick("settings")
        /\ c["filters"] = pick("filters") /\ c["sent"] = new.sent
    BY <1>1 DEF Changed
  <2>3. c = [f \in DOMAIN c |-> c[f]]
    BY DEF Changed
  <2> HIDE DEF c
  <2>4. [c EXCEPT !.alone = alone] = out
    BY <2>1, <2>2, <2>3
  <2> QED
    BY <2>4 DEF c
<1>3. out \in Rows
  BY DEF Rows
<1>4. alone => OneSave(out)
  BY DEF OneSave
<1> QED
  BY <1>2, <1>3, <1>4

LEMMA Overtaken ==
    ASSUME NEW h \in Updates
    PROVE  LET o == [h EXCEPT !.alone = FALSE] IN
           /\ o \in Updates /\ o.op = "update" /\ o.template = h.template
           /\ o.copy = h.copy /\ o.new = h.new /\ o.alone = FALSE
  BY DEF Updates

LEMMA CommitUpdateInv ==
    ASSUME NullAssumption, IInv, NEW r \in Requests, CommitUpdate(r)
    PROVE  IInv'
<1> DEFINE h == req[r]
           t == h.template
<1>1. /\ h.op = "update" /\ h \in Updates /\ h # Done /\ t \in Requests
      /\ UNCHANGED <<keys, jobs, gone>>
  BY HoldOf DEF CommitUpdate, IInv, Types, Updates
<1>2. UpdateWhole(h) /\ TargetMade(h)
  BY DEF IInv, UpdatesWhole, TargetsMade
<1>3. t # r
  BY <1>1, <1>2 DEF TargetMade
<1>4. CASE Step(r, Done) /\ UNCHANGED templates
  <2>1. UpdateWhole(Done) /\ TargetMade(Done) /\ Done.op # "crawl" /\ Done \in Holds
    BY DEF UpdateWhole, TargetMade, Done, Holds
  <2> QED
    BY <1>1, <1>4, <2>1, HoldStep
<1>5. CASE templates' = Updated(r) /\ Overtake(r, t)
  <2> DEFINE out == [Changed(templates[t], h.copy, h.new) EXCEPT !.alone = h.alone]
             over(q) == req[q].op = "update" /\ req[q].template = t
  <2>1. t \in Stored => out \in Rows /\ (out.alone => OneSave(out))
    <3>1. ASSUME t \in Stored PROVE templates[t] \in Rows
      BY <3>1, StoredMade
    <3>2. h.copy \in Rows /\ h.new \in Rows /\ h.alone \in BOOLEAN
      BY <1>1 DEF Updates
    <3>3. OneSave(h.new) /\ (h.alone /\ t \in Stored => h.copy = templates[t])
      BY <1>1, <1>2 DEF UpdateWhole
    <3> HIDE DEF h
    <3> QED
      BY <3>1, <3>2, <3>3, ChangedRow
  <2>2. \A u \in Requests : templates'[u] = IF u # t THEN templates[u]
                                            ELSE IF t \in Stored THEN out ELSE Null
    BY <1>1, <1>5 DEF Updated, IInv, Types
  <2>3. \A q \in Requests : /\ q = r => req'[q] = Done
                            /\ q # r /\ ~over(q) => req'[q] = req[q]
                            /\ q # r /\ over(q) => req'[q] = [req[q] EXCEPT !.alone = FALSE]
    BY <1>5 DEF Overtake
  <2>4. ASSUME NEW q \in Requests, over(q), q # r
        PROVE  /\ req'[q] \in Updates /\ req'[q].op = "update" /\ req'[q].template = t
               /\ req'[q].new = req[q].new /\ req'[q].alone = FALSE
    <3>1. req[q] \in Updates /\ req[q].template = t
      BY <2>4, HoldOf DEF IInv, Types
    <3>2. req'[q] = [req[q] EXCEPT !.alone = FALSE]
      BY <2>3, <2>4
    <3> QED
      BY <3>1, <3>2, Overtaken
  <2>5. Stored' \subseteq Stored /\ \A u \in Requests \ {t} : templates'[u] = templates[u]
    BY <1>1, <2>2 DEF Stored
  <2> HIDE DEF out
  <2>6. Types'
    <3>1. templates' \in [Requests -> Rows \cup {Null}]
      <4>1. templates' = [u \in Requests |-> templates'[u]]
        BY <1>5 DEF Updated, IInv, Types
      <4>2. \A u \in Requests : templates'[u] \in Rows \cup {Null}
        BY <2>1, <2>2 DEF IInv, Types
      <4> QED
        BY <4>1, <4>2
    <3>2. req' \in [Requests -> Holds]
      <4>1. req' = [q \in Requests |-> req'[q]]
        BY <1>5 DEF Overtake
      <4>2. ASSUME NEW q \in Requests PROVE req'[q] \in Holds
        <5>1. CASE q # r /\ over(q)
          <6>1. req'[q] \in Updates
            BY <2>4, <5>1
          <6> QED
            BY <6>1 DEF Holds
        <5>2. CASE ~(q # r /\ over(q))
          BY <2>3, <5>2 DEF IInv, Types, Holds
        <5> QED
          BY <5>1, <5>2
      <4> QED
        BY <4>1, <4>2
    <3> QED
      BY <1>1, <3>1, <3>2 DEF IInv, Types
  <2>7. RowsWhole'
    BY <2>1, <2>2, <2>5 DEF IInv, RowsWhole, Stored, OneSave
  <2>8. ASSUME NEW q \in Requests
        PROVE  /\ req'[q].op \in {"update", "delete"} =>
                    q # r /\ req[q].op = req'[q].op /\ req'[q].template = req[q].template
               /\ req'[q] # Done => req[q] # Done
               /\ req[q] = Done => req'[q] = Done
               /\ req'[q].op = "crawl" => req[q].op = "crawl"
    <3>1. CASE q # r /\ over(q)
      <4>1. Done.op # "update"
        BY DEF Done
      <4>2. req'[q].op = "update" /\ req'[q].template = t
        BY <2>4, <3>1
      <4>3. req'[q] # Done /\ req[q] # Done
        BY <3>1, <4>1, <4>2
      <4> QED
        BY <3>1, <4>2, <4>3
    <3>2. CASE q # r /\ ~over(q)
      BY <2>3, <3>2
    <3>3. CASE q = r
      <4>1. req'[q] = Done /\ Done.op = "done"
        BY <2>3, <3>3 DEF Done
      <4> QED
        BY <1>1, <3>3, <4>1
    <3> QED
      BY <3>1, <3>2, <3>3
  <2>9. UpdatesWhole'
    <3> SUFFICES ASSUME NEW q \in Requests PROVE UpdateWhole(req[q])'
      BY DEF UpdatesWhole
    <3>1. UpdateWhole(req[q])
      BY DEF IInv, UpdatesWhole
    <3>2. CASE q # r /\ over(q)
      <4>1. req'[q].new = req[q].new /\ req'[q].alone = FALSE
        BY <2>4, <3>2
      <4> QED
        BY <3>1, <3>2, <4>1 DEF UpdateWhole, OneSave
    <3>3. CASE q = r
      <4>1. req'[q] = Done
        BY <2>3, <3>3
      <4>2. Done.op # "update"
        BY DEF Done
      <4> QED
        BY <4>1, <4>2 DEF UpdateWhole
    <3>4. CASE q # r /\ ~over(q)
      <4>1. req'[q] = req[q]
        BY <2>3, <3>4
      <4>2. req[q].op = "update" => req[q].template \in Requests \ {t}
        <5>1. req[q] \in Holds
          BY DEF IInv, Types
        <5> QED
          BY <3>4, <5>1, HoldOf DEF Updates
      <4> QED
        BY <2>5, <3>1, <4>1, <4>2 DEF UpdateWhole, OneSave
    <3> QED
      BY <3>2, <3>3, <3>4
  <2>10. Fresh'
    <3> SUFFICES ASSUME NEW q \in Requests, req'[q] # Done
                 PROVE  templates'[q] = Null /\ q \notin gone
      BY <1>1 DEF Fresh
    <3>1. req[q] # Done
      BY <2>8
    <3>2. q # t /\ templates[q] = Null /\ q \notin gone
      BY <1>1, <1>2, <3>1 DEF IInv, Fresh, TargetMade
    <3> QED
      BY <2>5, <3>2
  <2>11. TargetsMade'
    <3> SUFFICES ASSUME NEW q \in Requests, req'[q].op \in {"update", "delete"}
                 PROVE  req'[req'[q].template] = Done
      BY <1>1 DEF TargetsMade, TargetMade
    <3>1. req[q].op \in {"update", "delete"} /\ req'[q].template = req[q].template
      BY <2>8
    <3>2. req[q].template \in Requests
      <4>1. req[q] \in Holds
        BY DEF IInv, Types
      <4> QED
        BY <3>1, <4>1, HoldOf DEF Updates, Deletes
    <3>3. req[req[q].template] = Done
      BY <3>1 DEF IInv, TargetsMade, TargetMade
    <3> QED
      BY <2>8, <3>1, <3>2, <3>3
  <2>12. GoneAway'
    <3>1. \A u \in Requests : templates[u] = Null => templates'[u] = Null
      BY <2>5 DEF Stored
    <3> QED
      BY <1>1, <3>1 DEF IInv, GoneAway, Types
  <2>13. CrawlsMade' /\ CrawlsOk'
    BY <1>1, <2>8 DEF IInv, CrawlsMade, CrawlsOk, CrawlOk, Started
  <2> QED
    BY <2>6, <2>7, <2>9, <2>10, <2>11, <2>12, <2>13 DEF IInv
<1> QED
  BY <1>4, <1>5 DEF CommitUpdate

LEMMA CommitDeleteInv ==
    ASSUME NullAssumption, IInv, NEW r \in Requests, CommitDelete(r)
    PROVE  IInv'
<1> DEFINE t == req[r].template
<1>1. /\ req[r].op = "delete" /\ req[r] # Done /\ t \in Requests
      /\ UNCHANGED <<keys, jobs>> /\ gone' = gone \cup {t}
  BY HoldOf DEF CommitDelete, IInv, Types, Deletes
<1>2. req[t] = Done /\ t # r
  BY <1>1 DEF IInv, TargetsMade, TargetMade
<1>3. /\ \A q \in Requests : req'[q] = IF q = r THEN Done ELSE req[q]
      /\ \A u \in Requests : templates'[u] = IF u = t THEN Null ELSE templates[u]
  BY DEF CommitDelete, Step, IInv, Types
<1>4. Types'
  BY <1>1 DEF CommitDelete, Step, IInv, Types, Holds
<1> HIDE DEF t
<1>5. RowsWhole'
  BY <1>3 DEF IInv, RowsWhole, Stored, OneSave
<1>6. UpdatesWhole'
  <2> SUFFICES ASSUME NEW q \in Requests PROVE UpdateWhole(req[q])'
    BY DEF UpdatesWhole
  <2>1. CASE q = r
    BY <1>3, <2>1 DEF UpdateWhole, Done
  <2>2. CASE q # r
    <3>1. req'[q] = req[q] /\ UpdateWhole(req[q])
      BY <1>3, <2>2 DEF IInv, UpdatesWhole
    <3>2. req[q].template \in Stored' =>
            /\ req[q].template \in Stored
            /\ templates'[req[q].template] = templates[req[q].template]
      BY <1>3 DEF Stored
    <3> QED
      BY <3>1, <3>2 DEF UpdateWhole, OneSave
  <2> QED
    BY <2>1, <2>2
<1>7. Fresh'
  BY <1>1, <1>2, <1>3 DEF IInv, Fresh
<1>8. TargetsMade'
  BY <1>1, <1>3, HoldOf DEF IInv, TargetsMade, TargetMade, Types, Updates, Deletes, Done
<1>9. GoneAway'
  BY <1>1, <1>2, <1>3 DEF IInv, GoneAway, Types
<1>10. CrawlsMade' /\ CrawlsOk'
  BY <1>1, <1>3 DEF IInv, CrawlsMade, CrawlsOk, CrawlOk, Started, Done
<1> QED
  BY <1>4, <1>5, <1>6, <1>7, <1>8, <1>9, <1>10 DEF IInv

\* A step that writes a key.
LEMMA KeyStep ==
    ASSUME NullAssumption, IInv, NEW r \in Requests, req[r] \in KeyWrites, NEW k \in {r, Null},
           keys' \in {keys, [keys EXCEPT ![req[r].provider] = k]},
           Step(r, Done), UNCHANGED <<templates, jobs, gone>>
    PROVE  IInv'
<1>1. /\ req[r] # Done /\ Done \in Holds
      /\ \A q \in Requests : req'[q] = IF q = r THEN Done ELSE req[q]
  BY DEF KeyWrites, IInv, Types, Step, Done, Holds
<1>2. Types'
  BY <1>1 DEF IInv, Types, Step
<1>3. RowsWhole' /\ CrawlsOk' /\ GoneAway'
  BY DEF IInv, RowsWhole, Stored, OneSave, CrawlsOk, CrawlOk, Started, GoneAway
<1>4. UpdatesWhole' /\ CrawlsMade'
  BY <1>1 DEF IInv, UpdatesWhole, UpdateWhole, OneSave, Stored, CrawlsMade, CrawlOk, Done
<1>5. Fresh'
  BY <1>1 DEF IInv, Fresh
<1>6. TargetsMade'
  BY <1>1, HoldOf DEF IInv, TargetsMade, TargetMade, Types, Updates, Deletes, Done
<1> QED
  BY <1>2, <1>3, <1>4, <1>5, <1>6 DEF IInv

LEMMA CommitSetKeyInv ==
    ASSUME NullAssumption, IInv, NEW r \in Requests, CommitSetKey(r)
    PROVE  IInv'
<1>1. req[r] \in KeyWrites /\ req[r].op \in {"set", "clear"}
  BY HoldOf DEF CommitSetKey, IInv, Types
<1>2. keys' \in {keys, [keys EXCEPT ![req[r].provider] = r]}
  BY DEF CommitSetKey, WrittenKey
<1> QED
  BY <1>1, <1>2, KeyStep DEF CommitSetKey

LEMMA CommitClearKeyInv ==
    ASSUME NullAssumption, IInv, NEW r \in Requests, CommitClearKey(r)
    PROVE  IInv'
<1>1. req[r] \in KeyWrites /\ req[r].op \in {"set", "clear"}
  BY HoldOf DEF CommitClearKey, IInv, Types
<1>2. keys' \in {keys, [keys EXCEPT ![req[r].provider] = Null]}
  BY DEF CommitClearKey
<1> QED
  BY <1>1, <1>2, KeyStep DEF CommitClearKey

\* A step that makes or runs one crawl.
LEMMA CrawlStep ==
    ASSUME NullAssumption, IInv, NEW r \in Requests, req[r] # Done,
           NEW job \in Crawls, CrawlOk(job), jobs' = [jobs EXCEPT ![r] = job],
           NEW h \in {Done, [op |-> "crawl"]}, Step(r, h), UNCHANGED <<templates, keys, gone>>
    PROVE  IInv'
<1>1. /\ \A q \in Requests : req'[q] = IF q = r THEN h ELSE req[q]
      /\ \A q \in Requests : jobs'[q] = IF q = r THEN job ELSE jobs[q]
      /\ h \in Holds /\ h.op \notin {"update", "delete"}
  BY DEF IInv, Types, Step, Holds, Done
<1>2. Types'
  BY <1>1 DEF IInv, Types, Step
<1>3. (RowsWhole /\ GoneAway)'
  BY DEF IInv, RowsWhole, OneSave, GoneAway, Stored
<1>4. UpdatesWhole'
  BY <1>1 DEF IInv, UpdatesWhole, UpdateWhole, OneSave, Stored
<1>5. Fresh'
  BY <1>1 DEF IInv, Fresh
<1>6. TargetsMade'
  <2> SUFFICES ASSUME NEW q \in Requests, req'[q].op \in {"update", "delete"}
               PROVE  req'[req'[q].template] = Done
    BY DEF TargetsMade, TargetMade
  <2>1. req'[q] = req[q]
    BY <1>1
  <2>2. req[q].template \in Requests
    <3>1. req[q] \in Holds
      BY DEF IInv, Types
    <3> QED
      BY <2>1, <3>1, HoldOf DEF Updates, Deletes
  <2>3. req[req[q].template] = Done
    BY <2>1 DEF IInv, TargetsMade, TargetMade
  <2> QED
    BY <1>1, <2>1, <2>2, <2>3
<1>7. CrawlsMade'
  BY <1>1 DEF IInv, CrawlsMade, CrawlOk
<1>8. CrawlsOk'
  BY <1>1 DEF IInv, CrawlsOk, Started
<1> QED
  BY <1>2, <1>3, <1>4, <1>5, <1>6, <1>7, <1>8 DEF IInv

LEMMA CreateCrawlInv ==
    ASSUME NullAssumption, IInv, NEW r \in Requests, NEW job \in Crawls, CrawlOk(job),
           CreateCrawl(r, job)
    PROVE  IInv'
<1>1. req[r] = Idle /\ Idle # Done /\ UNCHANGED <<templates, keys, gone>>
  BY DEF CreateCrawl, Idle, Done
<1>2. CASE Navigable(job.url)
  <2>1. jobs' = [jobs EXCEPT ![r] = job] /\ Step(r, [op |-> "crawl"])
    BY <1>2 DEF CreateCrawl
  <2> QED
    BY <1>1, <2>1, CrawlStep
<1>3. CASE ~Navigable(job.url)
  <2>1. Step(r, Done) /\ UNCHANGED jobs
    BY <1>3 DEF CreateCrawl
  <2>2. UpdateWhole(Done) /\ TargetMade(Done) /\ Done.op # "crawl" /\ Done \in Holds
    BY DEF UpdateWhole, TargetMade, Done, Holds
  <2> QED
    BY <1>1, <2>1, <2>2, HoldStep
<1> QED
  BY <1>2, <1>3

\* What the UI posts is the template's, and it is complete as it is.
LEMMA FromTemplateOk ==
    ASSUME NullAssumption, IInv, NEW url \in Urls, NEW mode \in Modes, NEW t \in Stored
    PROVE  /\ FromTemplate(url, mode, templates[t]) \in Crawls
           /\ CrawlOk(FromTemplate(url, mode, templates[t]))
<1> DEFINE row == templates[t]
<1>1. row \in Rows
  BY StoredMade
<1>2. row.alone => OneSave(row)
  BY DEF IInv, RowsWhole
<1> HIDE DEF row
<1>3. /\ row.filters \in Filters /\ row.alone \in BOOLEAN
      /\ row.sent \in [name : Names, body : Bodies, filters : Filters]
      /\ row.settings \in {Filled(body) : body \in Bodies}
  BY <1>1 DEF Rows
<1>4. row.settings \in Settings /\ Filled(row.settings) = row.settings
  BY <1>3, FilledTwice DEF Settings, AllBodies
<1>5. row.sent \in [name : Names \cup {Null}, body : AllBodies, filters : Filters \cup {Null}]
      /\ row.sent.body \in Bodies
  BY <1>3 DEF AllBodies
<1>6. FromTemplate(url, mode, row) =
        [url |-> Normalized(url), mode |-> mode, settings |-> row.settings, filters |-> row.filters,
         sent |-> row.sent, alone |-> row.alone, agent |-> FALSE, engine |-> Null]
  BY <1>4 DEF FromTemplate, Job
<1>7. FromTemplate(url, mode, row) \in Crawls
  BY <1>3, <1>4, <1>5, <1>6 DEF Crawls
<1>8. CrawlOk(FromTemplate(url, mode, row))
  BY <1>2, <1>5, <1>6 DEF CrawlOk, OneSave
<1> QED
  BY <1>7, <1>8 DEF row

LEMMA FromAgentOk ==
    ASSUME NEW url \in Urls, NEW mode \in Modes, NEW args \in ToolArgs
    PROVE  FromAgent(url, mode, args) \in Crawls /\ CrawlOk(FromAgent(url, mode, args))
<1> DEFINE body == AgentBody(args)
<1>1. body \in AllBodies /\ Filled(body) \in Settings
  BY DEF AllBodies, Settings
<1> HIDE DEF body
<1>2. FromAgent(url, mode, args) =
        [url |-> Normalized(url), mode |-> mode, settings |-> Filled(body), filters |-> Null,
         sent |-> [name |-> Null, body |-> body, filters |-> Null], alone |-> TRUE,
         agent |-> TRUE, engine |-> Null]
  BY DEF FromAgent, Job, body
<1> QED
  BY <1>1, <1>2 DEF Crawls, CrawlOk

\* A run builds what the stored settings ask for.
LEMMA BuiltSettings ==
    ASSUME NEW s \in Settings, NEW k
    PROVE  LET built == BuildSettings(Filled(s), k) IN
           /\ Filled(s) = s
           /\ built.limit = s.limit
           /\ built.include = ToLinkPatterns(s.include)
           /\ built.exclude = ToLinkPatterns(s.exclude)
           /\ built.behavior = HumanBehavior(s)
  BY FilledTwice DEF Settings, BuildSettings

LEMMA RunCrawlInv ==
    ASSUME NullAssumption, IInv, NEW r \in Requests, RunCrawl(r)
    PROVE  IInv'
<1> DEFINE built == BuildSettings(Filled(jobs[r].settings), keys)
           engine == [settings |-> built, filters |-> EngineFilters(jobs[r])]
           job == [jobs[r] EXCEPT !.engine = engine]
<1>1. /\ req[r].op = "crawl" /\ req[r] # Done /\ jobs[r] \in Crawls /\ CrawlOk(jobs[r])
      /\ Step(r, Done) /\ UNCHANGED <<templates, keys, gone>>
      /\ jobs' = [jobs EXCEPT ![r] = job]
  BY DEF RunCrawl, IInv, CrawlsMade, Done
<1>2. /\ jobs[r].settings \in Settings /\ jobs[r].filters \in Filters \cup {Null}
      /\ keys \in [Providers -> Requests \cup {Null}]
  BY <1>1 DEF Crawls, IInv, Types
<1>3. built \in EngineSettings
  BY <1>2, BuiltSettings DEF EngineSettings
<1>4. /\ built.limit = jobs[r].settings.limit
      /\ built.include = ToLinkPatterns(jobs[r].settings.include)
      /\ built.exclude = ToLinkPatterns(jobs[r].settings.exclude)
      /\ built.behavior = HumanBehavior(jobs[r].settings)
  BY <1>2, BuiltSettings
<1> HIDE DEF built
<1>5. /\ EngineFilters(jobs[r]) \in Chains \cup {Null}
      /\ jobs[r].mode = "crawler" => EngineFilters(jobs[r]) = BuildFilterChain(jobs[r].filters)
  BY <1>2 DEF EngineFilters, Chains
<1>6. engine \in Engines /\ engine.settings = built /\ engine.filters = EngineFilters(jobs[r])
  BY <1>3, <1>5 DEF Engines
<1> HIDE DEF engine
<1>7. job \in Crawls
  BY <1>1, <1>6 DEF Crawls
<1>8. /\ job.engine = engine
      /\ \A f \in {"settings", "filters", "sent", "alone", "agent", "mode"} : job[f] = jobs[r][f]
  BY <1>1 DEF Crawls
<1> HIDE DEF job
<1>9. CrawlOk(job)
  BY <1>1, <1>4, <1>5, <1>6, <1>8 DEF CrawlOk
<1> QED
  BY <1>1, <1>7, <1>9, CrawlStep

LEMMA InitInv == NullAssumption /\ Init => IInv
<1> SUFFICES ASSUME NullAssumption, Init PROVE IInv
  OBVIOUS
<1>1. Types
  BY DEF Init, Types, Holds
<1>2. \A r \in Requests : req[r].op = "new"
  BY DEF Init, Idle
<1>3. UpdatesWhole /\ TargetsMade /\ CrawlsMade
  BY <1>2 DEF UpdatesWhole, UpdateWhole, TargetsMade, TargetMade, CrawlsMade
<1>4. RowsWhole /\ Fresh /\ GoneAway /\ CrawlsOk
  BY DEF Init, RowsWhole, Stored, Fresh, GoneAway, CrawlsOk, Started
<1> QED
  BY <1>1, <1>3, <1>4 DEF IInv

LEMMA NextInv == NullAssumption /\ IInv /\ [Next]_vars => IInv'
<1> SUFFICES ASSUME NullAssumption, IInv, [Next]_vars PROVE IInv'
  OBVIOUS
<1>1. CASE UNCHANGED vars
  BY <1>1 DEF vars, IInv, Types, RowsWhole, OneSave, UpdatesWhole, UpdateWhole, Fresh, TargetsMade,
              TargetMade, GoneAway, CrawlsMade, CrawlsOk, CrawlOk, Started, Stored
<1>2. ASSUME NEW r \in Requests, NEW name \in Names, NEW body \in Bodies, NEW filters \in Filters,
             \/ CreateTemplate(r, name, body, filters)
             \/ \E t \in Requests : ReadForUpdate(r, t, name, body, filters)
      PROVE  IInv'
  BY <1>2, CreateTemplateInv, ReadForUpdateInv
<1>3. ASSUME NEW r \in Requests,
             \/ \E t \in Requests : ReadForDelete(r, t)
             \/ \E p \in Providers, op \in {"set", "clear"} : ReadKey(r, op, p)
      PROVE  IInv'
  BY <1>3, ReadForDeleteInv, ReadKeyInv
<1>4. ASSUME NEW r \in Requests, NEW url \in Urls, NEW mode \in Modes, NEW t \in Stored,
             CreateCrawl(r, FromTemplate(url, mode, templates[t]))
      PROVE  IInv'
  BY <1>4, FromTemplateOk, CreateCrawlInv
<1>5. ASSUME NEW r \in Requests, NEW url \in Urls, NEW mode \in Modes, NEW args \in ToolArgs,
             CreateCrawl(r, FromAgent(url, mode, args))
      PROVE  IInv'
  BY <1>5, FromAgentOk, CreateCrawlInv
<1>6. ASSUME NEW r \in Requests,
             CommitUpdate(r) \/ CommitDelete(r) \/ CommitSetKey(r) \/ CommitClearKey(r) \/ RunCrawl(r)
      PROVE  IInv'
  BY <1>6, CommitUpdateInv, CommitDeleteInv, CommitSetKeyInv, CommitClearKeyInv, RunCrawlInv
<1> QED
  BY <1>1, <1>2, <1>3, <1>4, <1>5, <1>6 DEF Next

LEMMA Invariance == Spec => []IInv
<1>1. NullAssumption
  BY NullAssumption
<1> QED
  BY <1>1, InitInv, NextInv, PTL DEF Spec

-----------------------------------------------------------------------------
(* The theorems. *)

\* Every variable has its type.
THEOREM TypeCorrect == Spec => []TypeOK
<1>1. IInv => TypeOK
  <2> SUFFICES ASSUME IInv PROVE TypeOK
    OBVIOUS
  <2>1. \A t \in Stored : templates[t] \in Rows
    BY DEF IInv, Types, Stored
  <2>2. \A r \in Started : jobs[r] \in Crawls
    BY DEF IInv, Types, Started
  <2>3. \A t \in Stored : /\ templates[t].name \in Names
                          /\ DOMAIN templates[t].settings = DOMAIN Defaults
                          /\ templates[t].filters \in Filters
    BY <2>1, FilledTwice DEF Rows
  <2>4. \A r \in Started : DOMAIN jobs[r].settings = DOMAIN Defaults
    BY <2>2, FilledTwice DEF Crawls, Settings
  <2> QED
    BY <2>3, <2>4 DEF TypeOK, IInv, Types
<1> QED
  BY <1>1, Invariance, PTL

\* However updates, deletions and creations interleave, a template that one
\* save wrote alone is that save's, settings, filters and name.
THEOREM WholeTemplates == Spec => []TemplateIsOneSave
<1>1. IInv => TemplateIsOneSave
  BY DEF IInv, RowsWhole, OneSave, TemplateIsOneSave
<1> QED
  BY <1>1, Invariance, PTL

\* What reaches the engine is what the client sent: the patterns made of its
\* keywords admit the pages of its sections and no others, and in crawler mode
\* the chain built of its filters passes the pages that meet them
\* (settings_builder.py, tasks.py:88-96).
THEOREM EngineFaithful == Spec => []EngineMeetsBody
<1>1. ASSUME PagesAssumption, NullAssumption, BodyAssumption, IInv PROVE EngineMeetsBody
  <2> SUFFICES ASSUME NEW r \in Built, jobs[r].alone
               PROVE  LET job == jobs[r]
                          engine == job.engine
                          body == job.sent.body
                      IN
                      /\ engine.settings.limit = Given(body, "limit")
                      /\ (engine.settings.behavior # Null) = Given(body, "human")
                      /\ ~job.agent =>
                           \A path \in Paths :
                             Visits(engine.settings, path) <=>
                                Wanted(Given(body, "include"), path)
                                /\ ~Unwanted(Given(body, "exclude"), path)
                      /\ job.mode = "crawler" /\ ~AsksForZero(job.sent.filters) =>
                           \A page \in Pages :
                             Passes(engine.filters, page) <=> MeetsGroup(job.sent.filters, page)
    BY DEF EngineMeetsBody
  <2> DEFINE built == jobs[r].engine.settings
             body == jobs[r].sent.body
             s == jobs[r].settings
             group == jobs[r].sent.filters
  <2>1. /\ jobs[r] \in Crawls /\ CrawlOk(jobs[r]) /\ jobs[r].engine # Null
    BY <1>1 DEF Built, Started, IInv, Types, CrawlsOk
  <2>2. /\ s = Filled(body) /\ jobs[r].filters = group
        /\ ~jobs[r].agent => body \in Bodies
        /\ built.limit = s.limit /\ built.include = ToLinkPatterns(s.include)
        /\ built.exclude = ToLinkPatterns(s.exclude)
        /\ built.behavior = HumanBehavior(s)
        /\ jobs[r].mode = "crawler" => jobs[r].engine.filters = BuildFilterChain(group)
    BY <2>1 DEF CrawlOk
  <2>3. body \in AllBodies /\ group \in Filters \cup {Null}
    BY <2>1 DEF Crawls
  <2> HIDE DEF built, body, s, group
  <2>4. /\ s.limit = Given(body, "limit") /\ s.human = Given(body, "human")
        /\ s.include = Given(body, "include") /\ s.exclude = Given(body, "exclude")
    BY <2>2 DEF Filled, Given, Defaults
  <2>5. s.human \in BOOLEAN
    BY <1>1, <2>3, <2>4 DEF BodyAssumption, Given, Defaults
  <2>6. (built.behavior # Null) = s.human
    BY <1>1, <2>2, <2>5 DEF HumanBehavior, NullAssumption
  <2>7. ~jobs[r].agent => /\ s.include \in Seq(Keywords) \cup {Null}
                          /\ s.exclude \in Seq(Keywords) \cup {Null}
    BY <1>1, <2>2, <2>4 DEF BodyAssumption, Given, Defaults
  <2>8. ASSUME ~jobs[r].agent, NEW path \in Paths
        PROVE  Visits(built, path) <=> Wanted(s.include, path) /\ ~Unwanted(s.exclude, path)
    <3>1. Admits(built.include, path) <=> Wanted(s.include, path)
      BY <1>1, <2>2, <2>7, <2>8, PatternsMeanWords
    <3>2. /\ Admits(built.exclude, path) <=> Wanted(s.exclude, path)
          /\ built.exclude = Null <=> s.exclude \in {Null, <<>>}
      BY <1>1, <2>2, <2>7, <2>8, PatternsMeanWords
    <3> QED
      BY <3>1, <3>2 DEF Visits, Wanted, Unwanted
  <2>9. ASSUME jobs[r].mode = "crawler", ~AsksForZero(group), NEW page \in Pages
        PROVE  Passes(jobs[r].engine.filters, page) <=> MeetsGroup(group, page)
    <3>1. group \in Groups \cup {Null}
      BY <1>1, <2>3 DEF BodyAssumption
    <3> QED
      BY <1>1, <2>2, <2>9, <3>1, ChainMeansGroup
  <2> QED
    BY <2>2, <2>4, <2>6, <2>8, <2>9 DEF built, body, group
<1>2. PagesAssumption /\ NullAssumption /\ BodyAssumption
  BY PagesAssumption, NullAssumption, BodyAssumption
<1> QED
  BY <1>1, <1>2, Invariance, PTL

\* A save that had read a template or a key before it was deleted does not
\* bring it back.
THEOREM GoneForGood == Spec => DeletedStaysDeleted
<1> DEFINE Body ==
      /\ \A t \in gone : templates'[t] = Null
      /\ \A r \in Requests :
           req[r].op = "set" /\ req[r].found /\ keys[req[r].provider] = Null /\ req'[r] = Done
           => keys'[req[r].provider] = Null
<1>1. ASSUME NullAssumption, IInv, [Next]_vars PROVE [Body]_vars
  <2> SUFFICES ASSUME Next PROVE Body
    BY <1>1
  <2>1. PICK q \in Requests :
             \/ \E name \in Names, body \in Bodies, filters \in Filters :
                  \/ CreateTemplate(q, name, body, filters)
                  \/ \E t \in Requests : ReadForUpdate(q, t, name, body, filters)
             \/ \E t \in Requests : ReadForDelete(q, t)
             \/ \E p \in Providers, op \in {"set", "clear"} : ReadKey(q, op, p)
             \/ \E url \in Urls, mode \in Modes :
                  \/ \E t \in Stored : CreateCrawl(q, FromTemplate(url, mode, templates[t]))
                  \/ \E args \in ToolArgs : CreateCrawl(q, FromAgent(url, mode, args))
             \/ CommitUpdate(q) \/ CommitDelete(q) \/ CommitSetKey(q) \/ CommitClearKey(q)
             \/ RunCrawl(q)
    BY DEF Next
  <2>2. gone \subseteq gone'
    BY <2>1 DEF CreateTemplate, ReadForUpdate, ReadForDelete, ReadKey, CreateCrawl,
         CommitUpdate, CommitDelete, CommitSetKey, CommitClearKey, RunCrawl
  <2>3. \A t \in gone : templates'[t] = Null
    BY <1>1, <2>2, NextInv DEF IInv, GoneAway
  <2>4. ASSUME NEW r \in Requests, req[r].op = "set", req[r].found,
               keys[req[r].provider] = Null, req'[r] = Done
        PROVE  keys'[req[r].provider] = Null
    <3>1. req[r] # Done /\ req[r] # Idle /\ req[r].op \notin {"update", "delete", "clear", "crawl"}
      BY <2>4 DEF Done, Idle
    <3>2. ASSUME q # r PROVE FALSE
      <4>1. (\E h : Step(q, h)) \/ (\E t : Overtake(q, t))
        BY <2>1 DEF CreateTemplate, ReadForUpdate, ReadForDelete, ReadKey, CreateCrawl,
           CommitUpdate, CommitDelete, CommitSetKey, CommitClearKey, RunCrawl
      <4>2. req'[r] = req[r]
        BY <1>1, <3>1, <3>2, <4>1 DEF Step, Overtake, IInv, Types
      <4> QED
        BY <2>4, <3>1, <4>2
    <3>3. CommitSetKey(r)
      BY <2>1, <3>1, <3>2 DEF CreateTemplate, ReadForUpdate, ReadForDelete, ReadKey, CreateCrawl,
         CommitUpdate, CommitDelete, CommitClearKey, RunCrawl
    <3> QED
      BY <2>4, <3>3 DEF CommitSetKey, WrittenKey
  <2> QED
    BY <2>3, <2>4
<1>2. NullAssumption
  BY NullAssumption
<1> QED
  BY <1>1, <1>2, Invariance, PTL DEF Spec, DeletedStaysDeleted
=============================================================================
