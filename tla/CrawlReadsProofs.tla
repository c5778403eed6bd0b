--------------------------- MODULE CrawlReadsProofs ---------------------------
(***************************************************************************)
(* What CrawlReads promises its readers, for any jobs, rows, page sizes,   *)
(* clocks and numbers of writes during a read.  While nothing is removed,  *)
(* what a list selects only grows, so what has not been shown only moves   *)
(* back: a row that follows k others still follows them.  A job's rows and *)
(* its counters grow together, so what is read later covers what was read  *)
(* before.                                                                 *)
(***************************************************************************)
EXTENDS CrawlReads, FiniteSetTheorems, SequenceTheorems, WellFoundedInduction, TLAPS

-----------------------------------------------------------------------------
(* The inductive invariant. *)

Tables == {"jobs", "urls", "results", "logs"}

Types ==
    /\ jobs \in [Jobs -> JobRows \cup {Null, Gone}]
    /\ rows \in [Rows -> TableRows \cup {Null}]

\* The fields of each kind of read, and the stages it goes through.
ListFields ==
    /\ DOMAIN read = {"kind", "stage", "table", "job", "status", "offset", "total", "page", "unseen"}
    /\ read.stage \in {"check", "count", "page", "answered", "done"}
    /\ read.table \in Tables
    /\ read.offset \in Nat /\ read.total \in Nat

DetailFields ==
    /\ DOMAIN read = {"kind", "stage", "job", "row", "results", "urls"}
    /\ read.stage \in {"none", "results", "urls", "done"}
    /\ read.job \in Jobs
    /\ read.stage # "none" => read.row \in JobRows

DownloadFields ==
    /\ DOMAIN read = {"kind", "stage", "job", "row", "results"}
    /\ read.stage \in {"none", "results", "done"}
    /\ read.job \in Jobs
    /\ read.stage # "none" => read.row \in JobRows

FigureFields ==
    /\ DOMAIN read = {"kind", "stage", "counts", "scraped", "total", "month", "scrapedInMonth", "recent"}
    /\ read.stage \in {"counts", "sums", "total", "last", "month", "done"}
    /\ read.kind = "overview" => read.stage = "done"

ReadFields ==
    /\ read.kind \in {"idle", "list", "detail", "download", "export", "figures", "overview", "usage"}
    /\ read.kind = "idle" => read.stage = "none"
    /\ read.kind = "list" => ListFields
    /\ read.kind = "detail" => DetailFields
    /\ read.kind = "download" => DownloadFields
    /\ read.kind = "export" => read.stage = "done"
    /\ read.kind \in {"figures", "overview", "usage"} => FigureFields

\* How many of what is listed are newer than x.
Newer(x) == {y \in Matching : Time(y) > Time(x)}

\* What a list has not shown follows all that it has.
ListInv ==
    read.kind = "list" /\ ~since.removed =>
        /\ read.unseen \subseteq Matching
        /\ read.stage = "page" => read.total <= Cardinality(Matching)
        /\ read.stage = "answered" =>
             /\ Range(read.page) \subseteq Matching
             /\ Len(read.page) >= Min({Limit, read.total - read.offset})
        /\ \A x \in read.unseen : Untied(x) =>
               /\ read.stage \in {"check", "count", "page"} => Cardinality(Newer(x)) >= read.offset
               /\ read.stage = "answered" =>
                    /\ Cardinality(Newer(x)) >= read.offset + Limit
                    /\ \A y \in Range(read.page) : Time(x) < Time(y)

\* A job's counters only grow, and with them what is still to be read.
DetailInv ==
    read.kind = "detail" /\ read.job \in LiveJobs =>
        /\ read.stage = "results" => read.row.results <= jobs[read.job].results
        /\ read.stage \in {"results", "urls"} => read.row.urls <= jobs[read.job].urls
        /\ read.stage \in {"urls", "done"} => SumFunction(read.results) >= read.row.results
        /\ read.stage = "done" =>
             /\ Latest(read.urls) \in Nat
             /\ Latest(read.urls) + Cardinality(Deleted(read.job)) >= read.row.urls

\* What is being read was there, and an id is not given twice.
JobKnown ==
    read.kind \in {"detail", "download"} /\ read.stage # "none" => jobs[read.job] # Null

DownloadInv ==
    read.kind = "download" /\ read.job \in LiveJobs =>
        /\ read.stage = "results" => read.row.results <= jobs[read.job].results
        /\ read.stage = "done" => Cardinality(read.results) >= read.row.results

\* Jobs change status, but there are as many.
FigureInv ==
    read.kind \in {"figures", "overview", "usage"} /\ ~since.created /\ ~since.removed =>
        /\ read.stage # "counts" => SumFunction(read.counts) = Cardinality(LiveJobs)
        /\ read.stage \in {"last", "month", "done"} => read.total = Cardinality(LiveJobs)
        /\ read.kind = "overview" /\ read.stage = "done" =>
             Len(read.recent) = Min({Recent, read.total})

IInv ==
    /\ Types /\ TypeOK
    /\ since.created \in BOOLEAN /\ since.removed \in BOOLEAN
    /\ ReadFields /\ ListInv /\ JobKnown /\ DetailInv /\ DownloadInv /\ FigureInv

-----------------------------------------------------------------------------
(* Least elements, sums and orders. *)

\* A set of naturals has a least element: what stands for induction below.
LEMMA Least ==
    ASSUME NEW T \in SUBSET Nat, T # {}
    PROVE  \E n \in T : \A m \in T : n <= m
<1> DEFINE R == {ss \in Nat \X Nat : ss[1] < ss[2]}
<1>1. IsWellFoundedOn(R, Nat)
  BY NatLessThanWellFounded DEF OpToRel
<1>2. \A x, y \in Nat : x < y => <<x, y>> \in R
  OBVIOUS
<1> HIDE DEF R
<1>3. PICK n \in T : \A m \in T : ~(<<m, n>> \in R)
  BY <1>1, WFMin
<1>4. ASSUME NEW m \in T PROVE n <= m
  <2>1. m \in Nat /\ n \in Nat /\ ~(m < n)
    BY <1>2, <1>3
  <2> QED
    BY <2>1
<1> QED
  BY <1>4

\* A bounded set of naturals has a greatest element.
LEMMA Greatest ==
    ASSUME NEW n \in Nat, NEW S \in SUBSET (0..n), S # {}
    PROVE  Max(S) \in S /\ \A x \in S : Max(S) >= x
<1> DEFINE T == {n - x : x \in S}
<1>1. T \in SUBSET Nat /\ T # {}
  <2>1. \A x \in S : n - x \in Nat
    OBVIOUS
  <2> QED
    BY <2>1
<1> HIDE DEF T
<1>2. PICK d \in T : \A e \in T : d <= e
  BY <1>1, Least
<1>3. PICK x \in S : d = n - x
  BY DEF T
<1>4. ASSUME NEW y \in S PROVE x >= y
  <2>1. n - y \in T
    BY DEF T
  <2>2. n - x <= n - y
    BY <1>2, <1>3, <2>1
  <2> QED
    BY <2>2
<1> QED
  BY <1>4 DEF Max

LEMMA LesserOf ==
    ASSUME NEW a \in Int, NEW b \in Int
    PROVE  Min({a, b}) = IF a <= b THEN a ELSE b
  BY DEF Min

\* Counting by a mark and adding up the counts is counting.
LEMMA SumCounts ==
    ASSUME NEW S, IsFiniteSet(S), NEW D, IsFiniteSet(D), NEW h \in [S -> D]
    PROVE  SumFunction([t \in D |-> Cardinality({i \in S : h[i] = t})]) = Cardinality(S)
<1> DEFINE f == [t \in D |-> Cardinality({i \in S : h[i] = t})]
           rest(s, g) == IF s = {} THEN 0
                         ELSE LET x == CHOOSE x \in s : TRUE IN f[x] + g[s \ {x}]
           iter == CHOOSE g : g = [s \in SUBSET D |-> rest(s, g)]
           told == [s \in SUBSET D |-> Cardinality({i \in S : h[i] \in s})]
<1>1. SumFunction(f) = iter[D]
  <2>1. DOMAIN f = D
    OBVIOUS
  <2> HIDE DEF f
  <2> QED
    BY <2>1 DEF SumFunction, SumFunctionOnSet, FoldFunctionOnSet, MapThenFoldSet
<1>2. ASSUME NEW s \in SUBSET D PROVE told[s] = rest(s, told)
  <2>1. CASE s = {}
    <3>1. {i \in S : h[i] \in s} = {}
      BY <2>1
    <3> QED
      BY <2>1, <3>1, FS_EmptySet
  <2>2. CASE s # {}
    <3> DEFINE x == CHOOSE x \in s : TRUE
               A == {i \in S : h[i] = x}
               B == {i \in S : h[i] \in s \ {x}}
    <3>1. x \in s /\ x \in D /\ s \ {x} \in SUBSET D
      BY <2>2
    <3>2. rest(s, told) = f[x] + told[s \ {x}]
      BY <2>2
    <3> HIDE DEF x
    <3>3. {i \in S : h[i] \in s} = A \cup B /\ A \cap B = {}
      BY <3>1
    <3>4. IsFiniteSet(A) /\ IsFiniteSet(B)
      <4>1. A \in SUBSET S /\ B \in SUBSET S
        OBVIOUS
      <4> QED
        BY <4>1, FS_Subset
    <3>5. f[x] = Cardinality(A) /\ told[s \ {x}] = Cardinality(B) /\ told[s] = Cardinality(A \cup B)
      BY <3>1, <3>3
    <3> HIDE DEF A, B, f, told, rest
    <3>6. Cardinality(A \cup B) = Cardinality(A) + Cardinality(B) - Cardinality({})
      BY <3>3, <3>4, FS_Union
    <3>7. Cardinality(A) \in Nat /\ Cardinality(B) \in Nat /\ Cardinality({}) = 0
      BY <3>4, FS_CardinalityType, FS_EmptySet
    <3> QED
      BY <3>2, <3>5, <3>6, <3>7
  <2> QED
    BY <2>1, <2>2
<1>3. iter = [s \in SUBSET D |-> rest(s, iter)]
  <2>1. told = [s \in SUBSET D |-> rest(s, told)]
    <3>1. DOMAIN told = SUBSET D /\ told = [s \in DOMAIN told |-> told[s]]
      OBVIOUS
    <3> HIDE DEF rest, told
    <3> QED
      BY <1>2, <3>1
  <2> HIDE DEF rest, told
  <2> QED
    BY <2>1
<1> HIDE DEF iter
<1>4. iter[D] = told[D]
  <2> DEFINE T == {n \in Nat : \E s \in SUBSET D : Cardinality(s) = n /\ iter[s] # told[s]}
  <2>1. ASSUME T # {} PROVE FALSE
    <3>1. T \in SUBSET Nat
      OBVIOUS
    <3> HIDE DEF T
    <3>2. PICK n \in T : \A m \in T : n <= m
      BY <2>1, <3>1, Least
    <3>3. PICK s \in SUBSET D : Cardinality(s) = n /\ iter[s] # told[s] /\ n \in Nat
      BY <3>2 DEF T
    <3>4. iter[s] = rest(s, iter)
      BY <1>3
    <3> DEFINE x == CHOOSE x \in s : TRUE
    <3>5. s # {} => rest(s, iter) = f[x] + iter[s \ {x}] /\ rest(s, told) = f[x] + told[s \ {x}]
      OBVIOUS
    <3>6. s = {} => rest(s, iter) = rest(s, told)
      OBVIOUS
    <3>7. s # {} => x \in s
      OBVIOUS
    <3> HIDE DEF rest, told, f, x
    <3>8. CASE s # {} /\ iter[s \ {x}] = told[s \ {x}]
      BY <1>2, <3>3, <3>4, <3>5, <3>8
    <3>9. CASE s # {} /\ iter[s \ {x}] # told[s \ {x}]
      <4>1. IsFiniteSet(s)
        BY FS_Subset
      <4>2. Cardinality(s \ {x}) = n - 1 /\ Cardinality(s \ {x}) \in Nat
        BY <3>3, <3>7, <3>9, <4>1, FS_RemoveElement, FS_CardinalityType
      <4>3. s \ {x} \in SUBSET D
        OBVIOUS
      <4>4. n - 1 \in T
        BY <3>9, <4>2, <4>3 DEF T
      <4> QED
        BY <3>2, <3>3, <4>4
    <3> QED
      BY <1>2, <3>3, <3>4, <3>6, <3>8, <3>9
  <2>2. IsFiniteSet(D) => Cardinality(D) \in Nat
    BY FS_CardinalityType
  <2>3. D \in SUBSET D
    OBVIOUS
  <2> HIDE DEF told
  <2> QED
    BY <2>1, <2>2, <2>3
<1>5. told[D] = Cardinality(S)
  <2>1. {i \in S : h[i] \in D} = S
    OBVIOUS
  <2> QED
    BY <2>1
<1> QED
  BY <1>1, <1>4, <1>5

\* An order of a finite set has each of its members once, newest first.
LEMMA OrdersOf ==
    ASSUME NEW S, IsFiniteSet(S), NEW s \in Orders(S)
    PROVE  /\ Cardinality(S) \in Nat /\ s \in [1..Cardinality(S) -> S]
           /\ s \in Seq(S) /\ Len(s) = Cardinality(S)
           /\ \A x \in S : \E m \in 1..Cardinality(S) : s[m] = x
           /\ \A m, n \in 1..Cardinality(S) : m < n => s[m] # s[n] /\ Time(s[m]) >= Time(s[n])
<1> DEFINE N == Cardinality(S)
<1>1. N \in Nat
  BY FS_CardinalityType
<1>2. /\ s \in [1..N -> S] /\ \A m, n \in 1..N : m # n => s[m] # s[n]
      /\ \A m, n \in DOMAIN s : m < n => Time(s[m]) >= Time(s[n])
  BY DEF Orders, SetToSeqs
<1>3. s \in Injection(1..N, S)
  BY <1>2 DEF Injection, IsInjective
<1>4. Cardinality(1..N) = N
  <2> HIDE DEF N
  <2>1. 1 \in Int /\ N \in Int
    BY <1>1
  <2>2. Cardinality(1..N) = IF 1 > N THEN 0 ELSE N - 1 + 1
    BY <2>1, FS_Interval, Zenon
  <2> QED
    BY <1>1, <2>2
<1>5. s \in Surjection(1..N, S)
  BY <1>3, <1>4, FS_Injection
<1>6. \A x \in S : \E m \in 1..N : s[m] = x
  BY <1>5 DEF Surjection
<1> HIDE DEF N
<1>7. s \in Seq(S) /\ Len(s) = N
  BY <1>1, <1>2
<1>8. \A m, n \in 1..N : m < n => s[m] # s[n] /\ Time(s[m]) >= Time(s[n])
  BY <1>2
<1> QED
  BY <1>1, <1>2, <1>6, <1>7, <1>8 DEF N

\* One page of an order.
LEMMA PageOf ==
    ASSUME LimitAssumption, NEW S, NEW s \in Seq(S), NEW o \in Nat
    PROVE  LET p == Slice(s, o) IN
           /\ Len(p) \in Nat /\ Len(p) >= Min({Limit, Len(s) - o})
           /\ \A m \in 1..Len(s) : o < m /\ m <= o + Limit => s[m] \in Range(p)
           /\ \A y \in Range(p) : \E m \in 1..Len(s) : m <= o + Limit /\ s[m] = y
<1> DEFINE N == Len(s)
           e == Min({o + Limit, N})
           p == SubSeq(s, o + 1, e)
<1>1. N \in Nat /\ Limit \in Nat /\ \A m \in 1..N : s[m] \in S
  BY DEF LimitAssumption
<1>2. e = (IF o + Limit <= N THEN o + Limit ELSE N) /\ e \in Nat
  BY <1>1, LesserOf
<1>3. Min({Limit, N - o}) = IF Limit <= N - o THEN Limit ELSE N - o
  BY <1>1, LesserOf
<1>4. p = Slice(s, o)
  BY DEF Slice
<1> HIDE DEF e, N
<1>5. /\ Len(p) = IF o + 1 <= e THEN e - (o + 1) + 1 ELSE 0
      /\ \A i \in 1..e - (o + 1) + 1 : p[i] = s[o + 1 + i - 1]
      /\ p \in Seq(S)
  <2>1. o + 1 \in Int /\ e \in Int /\ \A i \in o + 1..e : s[i] \in S
    BY <1>1, <1>2
  <2> HIDE DEF p
  <2> QED
    BY <2>1, SubSeqProperties DEF p
<1> HIDE DEF p
<1>6. Len(p) \in Nat /\ Len(p) >= Min({Limit, N - o})
  BY <1>1, <1>2, <1>3, <1>5
<1>7. DOMAIN p = 1..Len(p)
  BY <1>5
<1>8. ASSUME NEW m \in 1..N, o < m, m <= o + Limit PROVE s[m] \in Range(p)
  <2>1. m - o \in 1..Len(p) /\ m - o \in 1..e - (o + 1) + 1 /\ o + 1 + (m - o) - 1 = m
    BY <1>1, <1>2, <1>5, <1>8
  <2>2. p[m - o] = s[m]
    BY <1>5, <2>1
  <2> QED
    BY <1>7, <2>1, <2>2 DEF Range
<1>9. ASSUME NEW y \in Range(p) PROVE \E m \in 1..N : m <= o + Limit /\ s[m] = y
  <2>1. PICK i \in 1..Len(p) : y = p[i]
    BY <1>7 DEF Range
  <2> DEFINE m == o + 1 + i - 1
  <2>2. i \in 1..e - (o + 1) + 1 /\ m \in 1..N /\ m <= o + Limit
    BY <1>1, <1>2, <1>5
  <2>3. p[i] = s[m]
    BY <1>5, <2>2
  <2> QED
    BY <2>1, <2>2, <2>3
<1> QED
  BY <1>4, <1>6, <1>8, <1>9 DEF N

\* A row whose time no other has follows exactly those newer than it.
LEMMA PlaceOf ==
    ASSUME NEW S, IsFiniteSet(S), NEW s \in Orders(S), \A x \in S : Time(x) \in Nat,
           NEW m \in 1..Cardinality(S), \A y \in S : Time(s[m]) = Time(y) => s[m] = y
    PROVE  Cardinality({y \in S : Time(y) > Time(s[m])}) = m - 1
<1> DEFINE N == Cardinality(S)
           Q == {y \in S : Time(y) > Time(s[m])}
           g == [n \in 1..m - 1 |-> s[n]]
<1>1. /\ N \in Nat /\ s \in [1..N -> S]
      /\ \A x \in S : \E n \in 1..N : s[n] = x
      /\ \A k, n \in 1..N : k < n => s[k] # s[n] /\ Time(s[k]) >= Time(s[n])
  BY OrdersOf
<1> HIDE DEF N
<1>2. m \in 1..N /\ m \in Nat /\ \A n \in 1..m - 1 : n \in 1..N /\ n < m
  BY <1>1 DEF N
<1>3. /\ \A n \in 1..N : n < m => Time(s[n]) > Time(s[m])
      /\ \A n \in 1..N : m < n => Time(s[m]) > Time(s[n])
  <2>1. \A n \in 1..N : n # m => Time(s[n]) # Time(s[m]) /\ Time(s[n]) \in Nat /\ Time(s[m]) \in Nat
    BY <1>1, <1>2
  <2> QED
    BY <1>1, <1>2, <2>1
<1>4. \A n \in 1..m - 1 : s[n] \in Q
  BY <1>1, <1>2, <1>3
<1>5. \A y \in Q : \E n \in 1..m - 1 : s[n] = y
  <2> SUFFICES ASSUME NEW y \in Q PROVE \E n \in 1..m - 1 : s[n] = y
    OBVIOUS
  <2>1. PICK n \in 1..N : s[n] = y
    BY <1>1
  <2>2. ~(m <= n)
    <3>1. Time(s[n]) > Time(s[m]) /\ Time(s[n]) \in Nat /\ Time(s[m]) \in Nat
      BY <1>1, <1>2, <2>1
    <3>2. ~(Time(s[m]) > Time(s[n])) /\ m # n
      BY <3>1
    <3> QED
      BY <1>2, <1>3, <2>1, <3>2
  <2>3. n \in 1..m - 1
    BY <1>2, <2>2
  <2> QED
    BY <2>1, <2>3
<1> HIDE DEF Q
<1>6. \A k, n \in 1..m - 1 : k # n => s[k] # s[n]
  <2> SUFFICES ASSUME NEW k \in 1..m - 1, NEW n \in 1..m - 1, k # n PROVE s[k] # s[n]
    OBVIOUS
  <2>1. k \in 1..N /\ n \in 1..N /\ (k < n \/ n < k)
    BY <1>2
  <2> QED
    BY <1>1, <2>1
<1>7. g \in [1..m - 1 -> Q] /\ \A n \in 1..m - 1 : g[n] = s[n]
  BY <1>4
<1> HIDE DEF g
<1>8. g \in Injection(1..m - 1, Q) /\ g \in Surjection(1..m - 1, Q)
  BY <1>5, <1>6, <1>7 DEF Injection, Surjection, IsInjective
<1>9. IsFiniteSet(1..m - 1) /\ Cardinality(1..m - 1) = m - 1
  <2> DEFINE k == m - 1
  <2>1. 1 \in Int /\ k \in Int /\ k \in Nat
    BY <1>2
  <2> HIDE DEF k
  <2>2. IsFiniteSet(1..k) /\ Cardinality(1..k) = IF 1 > k THEN 0 ELSE k - 1 + 1
    BY <2>1, FS_Interval, Zenon
  <2>3. IsFiniteSet(1..k) /\ Cardinality(1..k) = k
    BY <2>1, <2>2
  <2> QED
    BY <2>3 DEF k
<1>10. Cardinality(Q) = Cardinality(1..m - 1)
  BY <1>8, <1>9, FS_Surjection
<1> QED
  BY <1>9, <1>10 DEF Q

-----------------------------------------------------------------------------
(* What a write leaves, and how what is read grows by it. *)

UrlRows(j) == {i \in LiveRows : rows[i].job = j /\ rows[i].tables # {"logs"}}
Mine(j) == {i \in LiveRows : rows[i].job = j}

\* Whoever lists sees no less than before, and in the old order.
Grown ==
    /\ Matching \subseteq Matching'
    /\ \A x \in Matching : Time(x)' = Time(x)

\* What a write may do to what others read.
Effect ==
    /\ Types' /\ TypeOK' /\ UNCHANGED read
    /\ since'.created \in BOOLEAN /\ since'.removed \in BOOLEAN
    /\ \A j \in Jobs : jobs[j] # Null => jobs'[j] # Null
    /\ \A j \in LiveJobs' : jobs[j] # Null =>
         /\ j \in LiveJobs
         /\ jobs'[j].results >= jobs[j].results /\ jobs'[j].urls >= jobs[j].urls
         /\ Deleted(j) \subseteq Deleted(j)'
    /\ read # Idle =>
         /\ since.created => since'.created
         /\ since.removed => since'.removed
         /\ ~since'.created /\ ~since'.removed => LiveJobs' = LiveJobs
         /\ read.kind = "list" /\ ~since'.removed => Grown

LEMMA Finite ==
    ASSUME IdAssumption
    PROVE  /\ IsFiniteSet(LiveJobs) /\ Cardinality(LiveJobs) \in Nat
           /\ \A T \in SUBSET Rows : IsFiniteSet(T) /\ Cardinality(T) \in Nat
           /\ \A T \in SUBSET Jobs : IsFiniteSet(T) /\ Cardinality(T) \in Nat
<1>1. LiveJobs \in SUBSET Jobs
  BY DEF LiveJobs
<1>2. \A T \in SUBSET Rows : IsFiniteSet(T)
  BY FS_Subset DEF IdAssumption
<1>3. \A T \in SUBSET Jobs : IsFiniteSet(T)
  BY FS_Subset DEF IdAssumption
<1> QED
  BY <1>1, <1>2, <1>3, FS_CardinalityType

\* Null and Gone are no rows.
LEMMA NoRow ==
    ASSUME NullAssumption
    PROVE  /\ \A row \in JobRows : row # Null /\ row # Gone
           /\ \A row \in TableRows : row # Null
           /\ Null # Gone /\ Null \notin Jobs /\ Null \notin Rows
  BY DEF NullAssumption

\* A job that is there is a row, and so is a row that is there.
LEMMA LiveAreRows ==
    ASSUME NullAssumption, Types
    PROVE  /\ \A j \in LiveJobs : j \in Jobs /\ jobs[j] \in JobRows
           /\ \A i \in LiveRows : i \in Rows /\ rows[i] \in TableRows
           /\ \A j \in Jobs : jobs[j] \in JobRows => j \in LiveJobs
           /\ \A i \in Rows : rows[i] \in TableRows => i \in LiveRows
  BY NoRow DEF Types, LiveJobs, LiveRows

\* Counters as cardinalities of rows of one job.
LEMMA CountersOf ==
    ASSUME NullAssumption, NEW j \in Jobs
    PROVE  /\ Of("results", j) = {i \in Mine(j) : "results" \in rows[i].tables}
           /\ Of("urls", j) = {i \in Mine(j) : "urls" \in rows[i].tables}
           /\ UrlRows(j) = {i \in Mine(j) : rows[i].tables # {"logs"}}
           /\ Deleted(j) = {i \in Mine(j) : rows[i].tables \in {{}, {"results"}}}
           /\ Counters(j) <=> /\ jobs[j].results = Cardinality(Of("results", j))
                              /\ jobs[j].urls = Cardinality(UrlRows(j))
  BY NoRow DEF Of, Mine, UrlRows, Deleted, Counters

\* A job whose rows a write leaves alone.
LEMMA SameRows ==
    ASSUME NullAssumption, NEW j \in Jobs, Mine(j)' = Mine(j),
           \A i \in Mine(j) : rows'[i] = rows[i]
    PROVE  /\ Of("results", j)' = Of("results", j)
           /\ Of("urls", j)' = Of("urls", j)
           /\ UrlRows(j)' = UrlRows(j) /\ Deleted(j)' = Deleted(j)
  BY NoRow DEF Of, Mine, UrlRows, Deleted

LEMMA NoticeEffect ==
    ASSUME since.created \in BOOLEAN, since.removed \in BOOLEAN,
           NEW created \in BOOLEAN, NEW removed \in BOOLEAN, Notice(created, removed)
    PROVE  /\ UNCHANGED read /\ since'.created \in BOOLEAN /\ since'.removed \in BOOLEAN
           /\ read # Idle => /\ since'.created = (since.created \/ created)
                             /\ since'.removed = (since.removed \/ removed)
  BY DEF Notice

\* Jobs that stay as they are, and no rows but new ones.
LEMMA GrownBy ==
    ASSUME NullAssumption, IdAssumption, Types, UNCHANGED read,
           read.table \in Tables,
           LiveJobs \subseteq LiveJobs', LiveRows \subseteq LiveRows',
           \A k \in LiveJobs : jobs'[k].at = jobs[k].at,
           read.table = "jobs" =>
             \A k \in LiveJobs : read.status \in {Null, jobs[k].status}
                                 => read.status \in {Null, jobs'[k].status},
           \A i \in LiveRows : rows'[i] = rows[i]
    PROVE  Grown
<1>1. \A k \in LiveJobs : k \in Jobs
  BY DEF LiveJobs
<1>2. \A i \in LiveRows : i \notin Jobs
  BY DEF LiveRows, IdAssumption
<1>3. CASE read.table = "jobs"
  BY <1>1, <1>3 DEF Grown, Matching, Selected, Time
<1>4. CASE read.table # "jobs"
  BY <1>2, <1>4 DEF Grown, Matching, Selected, Of, Time
<1> QED
  BY <1>3, <1>4

LEMMA CreateJobEffect ==
    ASSUME NullAssumption, IdAssumption, TimeAssumption, IInv, NEW j \in Jobs,
           NEW at \in 0..MaxTime, CreateJob(j, at)
    PROVE  Effect
<1> DEFINE new == [at |-> at, status |-> "queued", ended |-> FALSE, urls |-> 0, results |-> 0]
<1>0. Types /\ TypeOK
  BY DEF IInv
<1>1. /\ new \in JobRows /\ jobs[j] = Null /\ UNCHANGED rows /\ UNCHANGED read
      /\ since'.created \in BOOLEAN /\ since'.removed \in BOOLEAN
      /\ read # Idle => /\ since'.created /\ since'.removed = since.removed
      /\ \A k \in Jobs : jobs'[k] = IF k = j THEN new ELSE jobs[k]
  <2>1. new \in JobRows
    BY <1>0 DEF JobRows, Types, TimeAssumption, Statuses
  <2>2. Notice(TRUE, FALSE) /\ jobs[j] = Null /\ UNCHANGED rows
        /\ \A k \in Jobs : jobs'[k] = IF k = j THEN new ELSE jobs[k]
    BY <1>0 DEF CreateJob, Types
  <2> HIDE DEF new
  <2> QED
    BY <2>1, <2>2, NoticeEffect DEF IInv
<1>2. Types'
  BY <1>0, <1>1 DEF Types, CreateJob
<1>3. new.at = at /\ new.status = "queued" /\ new.urls = 0 /\ new.results = 0
  OBVIOUS
<1> HIDE DEF new
<1>4. LiveJobs' = LiveJobs \cup {j} /\ j \notin LiveJobs /\ LiveRows' = LiveRows
  BY <1>1, NoRow DEF LiveJobs, LiveRows
<1>5. \A k \in Jobs : Mine(k)' = Mine(k) /\ \A i \in Mine(k) : rows'[i] = rows[i]
  BY <1>1, <1>4 DEF Mine
<1>6. Mine(j) = {}
  BY <1>0, <1>4 DEF Mine, TypeOK
<1>7. TypeOK'
  <2>1. \A k \in LiveJobs : k # j /\ jobs'[k] = jobs[k] /\ Counters(k)'
    <3> SUFFICES ASSUME NEW k \in LiveJobs PROVE k # j /\ jobs'[k] = jobs[k] /\ Counters(k)'
      OBVIOUS
    <3>1. k \in Jobs /\ k # j /\ jobs'[k] = jobs[k]
      BY <1>1, <1>4 DEF LiveJobs
    <3>2. Counters(k)
      BY <1>0 DEF TypeOK
    <3>3. Of("results", k)' = Of("results", k) /\ UrlRows(k)' = UrlRows(k)
      BY <1>5, <3>1, SameRows
    <3>4. Counters(k)'
      BY <3>1, <3>2, <3>3 DEF Counters, UrlRows
    <3> QED
      BY <3>1, <3>4
  <2>2. Counters(j)'
    <3>1. Of("results", j)' = {} /\ UrlRows(j)' = {}
      BY <1>5, <1>6, NoRow DEF Of, Mine, UrlRows
    <3> QED
      BY <1>1, <1>3, <3>1, FS_EmptySet DEF Counters, UrlRows
  <2>3. \A k \in LiveJobs' : /\ jobs'[k].at \in 0..MaxTime
                             /\ jobs'[k].status \in Statuses
                             /\ Counters(k)'
    BY <1>0, <1>1, <1>3, <1>4, <2>1, <2>2 DEF TypeOK, Types, Statuses
  <2> QED
    BY <1>0, <1>1, <1>4, <2>3 DEF TypeOK
<1>8. \A k \in LiveJobs' : jobs[k] # Null =>
         /\ k \in LiveJobs
         /\ jobs'[k].results >= jobs[k].results /\ jobs'[k].urls >= jobs[k].urls
         /\ Deleted(k) \subseteq Deleted(k)'
  <2> SUFFICES ASSUME NEW k \in LiveJobs', jobs[k] # Null
               PROVE  /\ k \in LiveJobs
                      /\ jobs'[k].results >= jobs[k].results /\ jobs'[k].urls >= jobs[k].urls
                      /\ Deleted(k) \subseteq Deleted(k)'
    OBVIOUS
  <2>1. k \in LiveJobs /\ k \in Jobs /\ jobs'[k] = jobs[k]
    BY <1>1, <1>4 DEF LiveJobs
  <2>2. jobs[k] \in JobRows
    BY <1>0, <2>1, LiveAreRows
  <2>3. Deleted(k)' = Deleted(k)
    BY <1>5, <2>1, SameRows
  <2> QED
    BY <2>1, <2>2, <2>3 DEF JobRows
<1>9. read.kind = "list" => Grown
  <2> SUFFICES ASSUME read.kind = "list" PROVE Grown
    OBVIOUS
  <2>1. read.table \in Tables
    BY DEF IInv, ReadFields, ListFields
  <2>2. \A k \in LiveJobs : jobs'[k] = jobs[k]
    BY <1>1, <1>4 DEF LiveJobs
  <2> QED
    BY <1>0, <1>1, <1>4, <2>1, <2>2, GrownBy
<1>10. \A k \in Jobs : jobs[k] # Null => jobs'[k] # Null
  BY <1>1
<1> QED
  BY <1>1, <1>2, <1>7, <1>8, <1>9, <1>10 DEF Effect

LEMMA CountedOf ==
    ASSUME NEW row \in JobRows, NEW tables \in Stores
    PROVE  /\ Counted(row, tables) \in JobRows
           /\ Counted(row, tables).at = row.at /\ Counted(row, tables).status = row.status
           /\ Counted(row, tables).urls = row.urls + (IF "urls" \in tables THEN 1 ELSE 0)
           /\ Counted(row, tables).results = row.results + (IF "results" \in tables THEN 1 ELSE 0)
<1> DEFINE u == Cardinality(tables \cap {"urls"})
           r == Cardinality(tables \cap {"results"})
<1>1. u = (IF "urls" \in tables THEN 1 ELSE 0)
  <2>1. tables \cap {"urls"} = IF "urls" \in tables THEN {"urls"} ELSE {}
    OBVIOUS
  <2> QED
    BY <2>1, FS_EmptySet, FS_Singleton
<1>2. r = (IF "results" \in tables THEN 1 ELSE 0)
  <2>1. tables \cap {"results"} = IF "results" \in tables THEN {"results"} ELSE {}
    OBVIOUS
  <2> QED
    BY <2>1, FS_EmptySet, FS_Singleton
<1>3. Counted(row, tables) = [row EXCEPT !.urls = row.urls + u, !.results = row.results + r]
  BY DEF Counted, JobRows
<1> HIDE DEF u, r
<1>4. u \in Nat /\ r \in Nat
  BY <1>1, <1>2
<1>5. /\ row.at \in Nat /\ row.status \in Statuses /\ row.ended \in BOOLEAN
      /\ row.urls + u \in Nat /\ row.results + r \in Nat
      /\ row = [at |-> row.at, status |-> row.status, ended |-> row.ended, urls |-> row.urls,
                results |-> row.results]
  BY <1>4 DEF JobRows
<1>6. Counted(row, tables) =
        [at |-> row.at, status |-> row.status, ended |-> row.ended, urls |-> row.urls + u,
         results |-> row.results + r]
  BY <1>3, <1>5
<1>7. Counted(row, tables) \in JobRows
  BY <1>5, <1>6 DEF JobRows
<1>8. /\ Counted(row, tables).at = row.at /\ Counted(row, tables).status = row.status
      /\ Counted(row, tables).urls = row.urls + u /\ Counted(row, tables).results = row.results + r
  BY <1>6
<1> QED
  BY <1>1, <1>2, <1>7, <1>8

\* A set and the one more that a stored row makes it.
LEMMA OneMore ==
    ASSUME NEW S, IsFiniteSet(S), NEW i, i \notin S, NEW b \in BOOLEAN
    PROVE  Cardinality(IF b THEN S \cup {i} ELSE S) = Cardinality(S) + (IF b THEN 1 ELSE 0)
<1>1. Cardinality(S) \in Nat
  BY FS_CardinalityType
<1>2. CASE b
  BY <1>2, FS_AddElement
<1>3. CASE ~b
  BY <1>1, <1>3
<1> QED
  BY <1>2, <1>3

LEMMA StoreRowEffect ==
    ASSUME NullAssumption, IdAssumption, TimeAssumption, IInv, NEW j \in Jobs, NEW i \in Rows,
           NEW tables \in Stores, NEW at \in 0..MaxTime, StoreRow(i, tables, j, at)
    PROVE  Effect
<1> DEFINE new == [tables |-> tables, job |-> j, at |-> at]
           row == Counted(jobs[j], tables)
<1>0. Types /\ TypeOK
  BY DEF IInv
<1>1. /\ rows[i] = Null /\ j \in LiveJobs /\ jobs[j] \in JobRows
      /\ UNCHANGED read
      /\ since'.created \in BOOLEAN /\ since'.removed \in BOOLEAN
      /\ read # Idle => since'.created = since.created /\ since'.removed = since.removed
      /\ \A k \in Jobs : jobs'[k] = IF k = j THEN row ELSE jobs[k]
      /\ \A n \in Rows : rows'[n] = IF n = i THEN new ELSE rows[n]
  <2>1. /\ Notice(FALSE, FALSE) /\ rows[i] = Null /\ j \in LiveJobs
        /\ \A k \in Jobs : jobs'[k] = IF k = j THEN row ELSE jobs[k]
        /\ \A n \in Rows : rows'[n] = IF n = i THEN new ELSE rows[n]
    BY <1>0 DEF StoreRow, Types
  <2>2. jobs[j] \in JobRows
    BY <1>0, <2>1, LiveAreRows
  <2> HIDE DEF new, row
  <2> QED
    BY <2>1, <2>2, NoticeEffect DEF IInv
<1>2. /\ new \in TableRows /\ new.tables = tables /\ new.job = j /\ new.at = at
      /\ row \in JobRows /\ row.at = jobs[j].at /\ row.status = jobs[j].status
      /\ row.urls = jobs[j].urls + (IF "urls" \in tables THEN 1 ELSE 0)
      /\ row.results = jobs[j].results + (IF "results" \in tables THEN 1 ELSE 0)
  <2>1. new \in TableRows
    BY <1>0 DEF TableRows, Types, TimeAssumption
  <2> QED
    BY <1>1, <2>1, CountedOf
<1>3. Types'
  <2> HIDE DEF new, row
  <2>1. jobs' = [jobs EXCEPT ![j] = row] /\ rows' = [rows EXCEPT ![i] = new]
    BY <1>0 DEF StoreRow, Types, new, row
  <2> QED
    BY <1>0, <1>1, <1>2, <2>1 DEF Types
<1> HIDE DEF new, row
<1>4. LiveJobs' = LiveJobs /\ LiveRows' = LiveRows \cup {i} /\ i \notin LiveRows
  BY <1>1, <1>2, NoRow DEF LiveJobs, LiveRows
<1>5. \A n \in LiveRows : rows'[n] = rows[n] /\ n # i
  BY <1>1, <1>4 DEF LiveRows
<1>6. \A k \in Jobs : k # j => Mine(k)' = Mine(k) /\ \A n \in Mine(k) : rows'[n] = rows[n]
  BY <1>1, <1>2, <1>4, <1>5 DEF Mine
<1>7. Mine(j)' = Mine(j) \cup {i} /\ i \notin Mine(j) /\ \A n \in Mine(j) : rows'[n] = rows[n]
  BY <1>1, <1>2, <1>4, <1>5 DEF Mine
<1>8. Counters(j)'
  <2>1. Of("results", j)' = IF "results" \in tables THEN Of("results", j) \cup {i}
                                                    ELSE Of("results", j)
    BY <1>1, <1>2, <1>7, NoRow DEF Of, Mine
  <2>2. UrlRows(j)' = IF "urls" \in tables THEN UrlRows(j) \cup {i} ELSE UrlRows(j)
    <3>1. ("urls" \in tables) = (tables # {"logs"})
      BY DEF Stores
    <3> QED
      BY <1>1, <1>2, <1>7, <3>1 DEF UrlRows, Mine
  <2>3. /\ i \notin Of("results", j) /\ i \notin UrlRows(j)
        /\ IsFiniteSet(Of("results", j)) /\ IsFiniteSet(UrlRows(j))
    <3>1. Of("results", j) \in SUBSET Rows /\ UrlRows(j) \in SUBSET Rows
      BY DEF Of, UrlRows, LiveRows
    <3>2. i \notin Of("results", j) /\ i \notin UrlRows(j)
      BY <1>4 DEF Of, UrlRows
    <3> QED
      BY <3>1, <3>2, Finite
  <2>4. Cardinality(Of("results", j)') =
            Cardinality(Of("results", j)) + (IF "results" \in tables THEN 1 ELSE 0)
    BY <2>1, <2>3, OneMore
  <2>5. Cardinality(UrlRows(j)') = Cardinality(UrlRows(j)) + (IF "urls" \in tables THEN 1 ELSE 0)
    BY <2>2, <2>3, OneMore
  <2>6. jobs[j].results = Cardinality(Of("results", j)) /\ jobs[j].urls = Cardinality(UrlRows(j))
    BY <1>0, <1>1 DEF TypeOK, Counters, UrlRows
  <2> QED
    BY <1>1, <1>2, <2>4, <2>5, <2>6 DEF Counters, UrlRows
<1>9. \A k \in LiveJobs : k # j => Counters(k)'
  <2> SUFFICES ASSUME NEW k \in LiveJobs, k # j PROVE Counters(k)'
    OBVIOUS
  <2>1. k \in Jobs /\ jobs'[k] = jobs[k] /\ Counters(k)
    BY <1>0, <1>1 DEF LiveJobs, TypeOK
  <2>2. Of("results", k)' = Of("results", k) /\ UrlRows(k)' = UrlRows(k)
    BY <1>6, <2>1, SameRows
  <2> QED
    BY <2>1, <2>2 DEF Counters, UrlRows
<1>10. TypeOK'
  <2>1. \A k \in LiveJobs : /\ jobs'[k].at \in 0..MaxTime
                            /\ jobs'[k].status \in Statuses
                            /\ Counters(k)'
    BY <1>0, <1>1, <1>2, <1>8, <1>9 DEF TypeOK, LiveJobs
  <2>2. new \in [tables : Stores \cup {{}, {"results"}}, job : LiveJobs, at : 0..MaxTime]
    BY <1>0, <1>1 DEF new, Types
  <2>3. \A n \in LiveRows' :
           rows'[n] \in [tables : Stores \cup {{}, {"results"}}, job : LiveJobs, at : 0..MaxTime]
    BY <1>0, <1>1, <1>4, <1>5, <2>2 DEF TypeOK
  <2> QED
    BY <1>0, <1>1, <1>4, <2>1, <2>3 DEF TypeOK
<1>11. \A k \in LiveJobs : /\ jobs'[k].results >= jobs[k].results /\ jobs'[k].urls >= jobs[k].urls
                           /\ Deleted(k) \subseteq Deleted(k)'
  <2> SUFFICES ASSUME NEW k \in LiveJobs
               PROVE  /\ jobs'[k].results >= jobs[k].results /\ jobs'[k].urls >= jobs[k].urls
                      /\ Deleted(k) \subseteq Deleted(k)'
    OBVIOUS
  <2>1. k \in Jobs /\ jobs[k] \in JobRows
    BY <1>0, LiveAreRows
  <2>2. jobs'[k].results >= jobs[k].results /\ jobs'[k].urls >= jobs[k].urls
    BY <1>1, <1>2, <2>1 DEF JobRows
  <2>3. Deleted(k) \subseteq Deleted(k)'
    BY <1>4, <1>5 DEF Deleted
  <2> QED
    BY <2>2, <2>3
<1>12. read.kind = "list" => Grown
  <2> SUFFICES ASSUME read.kind = "list" PROVE Grown
    OBVIOUS
  <2>1. read.table \in Tables
    BY DEF IInv, ReadFields, ListFields
  <2>2. \A k \in LiveJobs : jobs'[k].at = jobs[k].at /\ jobs'[k].status = jobs[k].status
    BY <1>1, <1>2 DEF LiveJobs
  <2> QED
    BY <1>0, <1>1, <1>4, <1>5, <2>1, <2>2, GrownBy
<1>13. \A k \in Jobs : jobs[k] # Null => jobs'[k] # Null
  BY <1>1, <1>2, NoRow
<1> QED
  BY <1>1, <1>3, <1>4, <1>10, <1>11, <1>12, <1>13 DEF Effect

LEMMA SetStatusEffect ==
    ASSUME NullAssumption, IdAssumption, IInv, NEW j \in Jobs, NEW s \in Statuses, SetStatus(j, s)
    PROVE  Effect
<1> DEFINE row == [jobs[j] EXCEPT !.status = s, !.ended = @ \/ s = "settled"]
           out == read.kind = "list" /\ read.status = jobs[j].status
<1>0. Types /\ TypeOK
  BY DEF IInv
<1>1. /\ j \in LiveJobs /\ jobs[j] \in JobRows /\ UNCHANGED rows /\ UNCHANGED read
      /\ since'.created \in BOOLEAN /\ since'.removed \in BOOLEAN
      /\ read # Idle => since'.created = since.created /\ since'.removed = (since.removed \/ out)
      /\ \A k \in Jobs : jobs'[k] = IF k = j THEN row ELSE jobs[k]
  <2>1. /\ Notice(FALSE, out) /\ out \in BOOLEAN /\ j \in LiveJobs /\ UNCHANGED rows
        /\ \A k \in Jobs : jobs'[k] = IF k = j THEN row ELSE jobs[k]
    BY <1>0 DEF SetStatus, Types
  <2>2. jobs[j] \in JobRows
    BY <1>0, <2>1, LiveAreRows
  <2> HIDE DEF row, out
  <2> QED
    BY <2>1, <2>2, NoticeEffect DEF IInv
<1>2. /\ row \in JobRows /\ row.at = jobs[j].at /\ row.status = s
      /\ row.urls = jobs[j].urls /\ row.results = jobs[j].results
  BY <1>1 DEF JobRows
<1>3. Types'
  <2>1. jobs' = [jobs EXCEPT ![j] = row]
    BY <1>0 DEF SetStatus, Types
  <2> HIDE DEF row
  <2> QED
    BY <1>0, <1>1, <1>2, <2>1 DEF Types
<1> HIDE DEF row
<1>4. LiveJobs' = LiveJobs /\ LiveRows' = LiveRows
  BY <1>1, <1>2, NoRow DEF LiveJobs, LiveRows
<1>5. \A k \in LiveJobs : /\ jobs'[k].at = jobs[k].at /\ jobs'[k].status \in Statuses
                          /\ jobs'[k].results = jobs[k].results /\ jobs'[k].urls = jobs[k].urls
                          /\ k # j => jobs'[k] = jobs[k]
  BY <1>0, <1>1, <1>2 DEF LiveJobs, TypeOK
<1>6. TypeOK'
  <2>1. ASSUME NEW k \in LiveJobs PROVE Counters(k)'
    <3>1. Counters(k) /\ jobs'[k].results = jobs[k].results /\ jobs'[k].urls = jobs[k].urls
      BY <1>0, <1>5 DEF TypeOK
    <3>2. Of("results", k)' = Of("results", k) /\ UrlRows(k)' = UrlRows(k)
      BY <1>1, <1>4 DEF Of, UrlRows
    <3> QED
      BY <3>1, <3>2 DEF Counters, UrlRows
  <2> QED
    BY <1>0, <1>1, <1>4, <1>5, <2>1 DEF TypeOK
<1>7. \A k \in LiveJobs : /\ jobs'[k].results >= jobs[k].results /\ jobs'[k].urls >= jobs[k].urls
                          /\ Deleted(k) \subseteq Deleted(k)'
  <2> SUFFICES ASSUME NEW k \in LiveJobs
               PROVE  /\ jobs'[k].results >= jobs[k].results /\ jobs'[k].urls >= jobs[k].urls
                      /\ Deleted(k) \subseteq Deleted(k)'
    OBVIOUS
  <2>1. k \in Jobs /\ jobs[k] \in JobRows
    BY <1>0, LiveAreRows
  <2> QED
    BY <1>1, <1>4, <1>5, <2>1 DEF JobRows, Deleted
<1>8. read.kind = "list" /\ ~out => Grown
  <2> SUFFICES ASSUME read.kind = "list", ~out PROVE Grown
    OBVIOUS
  <2>1. read.table \in Tables
    BY DEF IInv, ReadFields, ListFields
  <2>2. \A k \in LiveJobs : read.status \in {Null, jobs[k].status}
                            => read.status \in {Null, jobs'[k].status}
    BY <1>5
  <2>3. \A k \in LiveJobs : jobs'[k].at = jobs[k].at
    BY <1>5
  <2> QED
    BY <1>0, <1>1, <1>4, <2>1, <2>2, <2>3, GrownBy
<1>9. \A k \in Jobs : jobs[k] # Null => jobs'[k] # Null
  BY <1>1, <1>2, NoRow
<1> QED
  BY <1>1, <1>3, <1>4, <1>6, <1>7, <1>8, <1>9 DEF Effect

LEMMA DeleteJobEffect ==
    ASSUME NullAssumption, IdAssumption, IInv, NEW j \in Jobs, DeleteJob(j)
    PROVE  Effect
<1>0. Types /\ TypeOK
  BY DEF IInv
<1>1. /\ j \in LiveJobs /\ UNCHANGED read
      /\ since'.created \in BOOLEAN /\ since'.removed \in BOOLEAN
      /\ read # Idle => since'.created = since.created /\ since'.removed
      /\ \A k \in Jobs : jobs'[k] = IF k = j THEN Gone ELSE jobs[k]
      /\ \A i \in Rows : rows'[i] = IF i \in Mine(j) THEN Null ELSE rows[i]
  <2>1. /\ Notice(FALSE, TRUE) /\ j \in LiveJobs
        /\ \A k \in Jobs : jobs'[k] = IF k = j THEN Gone ELSE jobs[k]
        /\ \A i \in Rows : rows'[i] = IF i \in Mine(j) THEN Null ELSE rows[i]
    BY <1>0 DEF DeleteJob, Types, Mine
  <2> QED
    BY <2>1, NoticeEffect DEF IInv
<1>2. Types'
  <2>1. jobs' = [jobs EXCEPT ![j] = Gone] /\ rows' = [i \in Rows |-> rows'[i]]
    BY DEF DeleteJob
  <2>2. \A i \in Rows : rows'[i] \in TableRows \cup {Null}
    BY <1>0, <1>1 DEF Types
  <2>3. rows' \in [Rows -> TableRows \cup {Null}]
    BY <2>1, <2>2
  <2> QED
    BY <1>0, <1>1, <2>1, <2>3 DEF Types
<1>3. LiveJobs' = LiveJobs \ {j} /\ LiveRows' = LiveRows \ Mine(j)
  BY <1>1 DEF LiveJobs, LiveRows, Mine
<1>4. \A i \in LiveRows' : i \in LiveRows /\ rows'[i] = rows[i] /\ rows[i].job # j
  BY <1>1, <1>3 DEF LiveRows, Mine
<1>5. \A k \in Jobs : k # j => Mine(k)' = Mine(k) /\ \A i \in Mine(k) : rows'[i] = rows[i]
  <2> SUFFICES ASSUME NEW k \in Jobs, k # j
               PROVE  Mine(k)' = Mine(k) /\ \A i \in Mine(k) : rows'[i] = rows[i]
    OBVIOUS
  <2>1. \A i \in Mine(k) : i \in Rows /\ i \notin Mine(j)
    BY DEF Mine, LiveRows
  <2>2. \A i \in Mine(k) : rows'[i] = rows[i] /\ i \in LiveRows'
    BY <1>1, <1>3, <2>1 DEF Mine
  <2> QED
    BY <1>4, <2>2 DEF Mine
<1>6. \A k \in LiveJobs' : k \in LiveJobs /\ k \in Jobs /\ k # j /\ jobs'[k] = jobs[k]
  BY <1>1, <1>3 DEF LiveJobs
<1>7. TypeOK'
  <2>1. ASSUME NEW k \in LiveJobs' PROVE Counters(k)'
    <3>1. Counters(k)
      BY <1>0, <1>6 DEF TypeOK
    <3>2. Of("results", k)' = Of("results", k) /\ UrlRows(k)' = UrlRows(k)
      BY <1>5, <1>6, SameRows
    <3> QED
      BY <1>6, <3>1, <3>2 DEF Counters, UrlRows
  <2>2. \A i \in LiveRows' :
           rows'[i] \in [tables : Stores \cup {{}, {"results"}}, job : LiveJobs', at : 0..MaxTime]
    BY <1>0, <1>3, <1>4 DEF TypeOK
  <2> QED
    BY <1>0, <1>1, <1>6, <2>1, <2>2 DEF TypeOK
<1>8. \A k \in LiveJobs' : /\ k \in LiveJobs
                           /\ jobs'[k].results >= jobs[k].results /\ jobs'[k].urls >= jobs[k].urls
                           /\ Deleted(k) \subseteq Deleted(k)'
  <2> SUFFICES ASSUME NEW k \in LiveJobs'
               PROVE  /\ k \in LiveJobs
                      /\ jobs'[k].results >= jobs[k].results /\ jobs'[k].urls >= jobs[k].urls
                      /\ Deleted(k) \subseteq Deleted(k)'
    OBVIOUS
  <2>1. jobs[k] \in JobRows
    BY <1>0, <1>6, LiveAreRows
  <2>2. Deleted(k)' = Deleted(k)
    BY <1>5, <1>6, SameRows
  <2> QED
    BY <1>6, <2>1, <2>2 DEF JobRows
<1>9. \A k \in Jobs : jobs[k] # Null => jobs'[k] # Null
  BY <1>1, NoRow
<1> QED
  BY <1>1, <1>2, <1>7, <1>8, <1>9 DEF Effect

LEMMA DeleteUrlEffect ==
    ASSUME NullAssumption, IdAssumption, IInv, NEW i \in Rows, DeleteUrl(i)
    PROVE  Effect
<1> DEFINE new == [rows[i] EXCEPT !.tables = @ \ {"urls"}]
<1>0. Types /\ TypeOK
  BY DEF IInv
<1>1. /\ i \in LiveRows /\ rows[i] \in TableRows /\ "urls" \in rows[i].tables
      /\ UNCHANGED jobs /\ UNCHANGED read
      /\ since'.created \in BOOLEAN /\ since'.removed \in BOOLEAN
      /\ read # Idle => since'.created = since.created /\ since'.removed
      /\ \A n \in Rows : rows'[n] = IF n = i THEN new ELSE rows[n]
  <2>1. /\ Notice(FALSE, TRUE) /\ i \in LiveRows /\ "urls" \in rows[i].tables
        /\ UNCHANGED jobs
        /\ \A n \in Rows : rows'[n] = IF n = i THEN new ELSE rows[n]
    BY <1>0 DEF DeleteUrl, Types, Of
  <2>2. rows[i] \in TableRows
    BY <1>0, <2>1, LiveAreRows
  <2> HIDE DEF new
  <2> QED
    BY <2>1, <2>2, NoticeEffect DEF IInv
<1>2. /\ rows[i].tables \in {{"urls"}, {"urls", "results"}}
      /\ new.tables = rows[i].tables \ {"urls"} /\ new.job = rows[i].job /\ new.at = rows[i].at
      /\ new.tables \in {{}, {"results"}}
      /\ "results" \in new.tables <=> "results" \in rows[i].tables
      /\ new \in TableRows
  <2>1. /\ rows[i].tables \in {{"urls"}, {"urls", "results"}}
        /\ new.tables = rows[i].tables \ {"urls"} /\ new.job = rows[i].job /\ new.at = rows[i].at
        /\ new = [tables |-> new.tables, job |-> rows[i].job, at |-> rows[i].at]
    BY <1>1 DEF TableRows, Stores
  <2> HIDE DEF new
  <2>2. new.tables \in {{}, {"results"}} /\ ("results" \in new.tables <=> "results" \in rows[i].tables)
    BY <2>1
  <2>3. rows[i].job \in Jobs /\ rows[i].at \in Nat
    BY <1>1 DEF TableRows
  <2> QED
    BY <2>1, <2>2, <2>3 DEF TableRows
<1>3. Types'
  <2>1. rows' = [rows EXCEPT ![i] = new]
    BY <1>0 DEF DeleteUrl, Types
  <2> HIDE DEF new
  <2> QED
    BY <1>0, <1>1, <1>2, <2>1 DEF Types
<1> HIDE DEF new
<1>4. LiveJobs' = LiveJobs /\ LiveRows' = LiveRows
  BY <1>1, <1>2, NoRow DEF LiveJobs, LiveRows
<1>5. \A n \in LiveRows : /\ rows'[n].job = rows[n].job
                          /\ "results" \in rows'[n].tables <=> "results" \in rows[n].tables
                          /\ rows'[n].tables # {"logs"} <=> rows[n].tables # {"logs"}
                          /\ rows[n].tables \in {{}, {"results"}} => rows'[n] = rows[n]
  BY <1>1, <1>2 DEF LiveRows
<1>6. TypeOK'
  <2>1. ASSUME NEW k \in LiveJobs PROVE Counters(k)'
    <3>1. Counters(k)
      BY <1>0 DEF TypeOK
    <3>2. Of("results", k)' = Of("results", k) /\ UrlRows(k)' = UrlRows(k)
      BY <1>4, <1>5 DEF Of, UrlRows
    <3> QED
      BY <1>1, <3>1, <3>2 DEF Counters, UrlRows
  <2>2. \A n \in LiveRows :
           rows'[n] \in [tables : Stores \cup {{}, {"results"}}, job : LiveJobs, at : 0..MaxTime]
    <3>1. new = [tables |-> new.tables, job |-> rows[i].job, at |-> rows[i].at]
      BY <1>1 DEF new, TableRows
    <3>2. new \in [tables : Stores \cup {{}, {"results"}}, job : LiveJobs, at : 0..MaxTime]
      BY <1>0, <1>1, <1>2, <3>1 DEF TypeOK
    <3> QED
      BY <1>0, <1>1, <3>2 DEF TypeOK, LiveRows
  <2> QED
    BY <1>0, <1>1, <1>4, <2>1, <2>2 DEF TypeOK
<1>7. \A k \in LiveJobs : /\ jobs'[k].results >= jobs[k].results /\ jobs'[k].urls >= jobs[k].urls
                          /\ Deleted(k) \subseteq Deleted(k)'
  <2> SUFFICES ASSUME NEW k \in LiveJobs
               PROVE  /\ jobs'[k].results >= jobs[k].results /\ jobs'[k].urls >= jobs[k].urls
                      /\ Deleted(k) \subseteq Deleted(k)'
    OBVIOUS
  <2>1. jobs[k] \in JobRows
    BY <1>0, LiveAreRows
  <2>2. Deleted(k) \subseteq Deleted(k)'
    BY <1>4, <1>5 DEF Deleted
  <2> QED
    BY <1>1, <2>1, <2>2 DEF JobRows
<1> QED
  BY <1>1, <1>3, <1>4, <1>6, <1>7 DEF Effect

-----------------------------------------------------------------------------
(* A write keeps the invariant. *)

LEMMA MatchingFinite ==
    ASSUME IdAssumption
    PROVE  \A T \in SUBSET Matching : IsFiniteSet(T) /\ Cardinality(T) \in Nat
<1>1. Matching \in SUBSET Jobs \/ Matching \in SUBSET Rows
  BY DEF Matching, Selected, Of, LiveJobs, LiveRows
<1>2. \A T \in SUBSET Matching : T \in SUBSET Jobs \/ T \in SUBSET Rows
  BY <1>1
<1> QED
  BY <1>2, Finite

\* The times rows are ordered by.
LEMMA Times ==
    ASSUME NullAssumption, IdAssumption, Types
    PROVE  \A x \in LiveJobs \cup LiveRows : Time(x) \in Nat
<1>1. \A x \in LiveJobs : x \in Jobs /\ jobs[x].at \in Nat
  BY LiveAreRows DEF JobRows
<1>2. \A x \in LiveRows : x \notin Jobs /\ rows[x].at \in Nat
  BY LiveAreRows DEF TableRows, IdAssumption
<1> QED
  BY <1>1, <1>2 DEF Time

LEMMA WriteKeepsLists ==
    ASSUME IdAssumption, LimitAssumption, IInv, Effect
    PROVE  ListInv'
<1> SUFFICES ASSUME read'.kind = "list", ~since'.removed
             PROVE  /\ read.unseen \subseteq Matching'
                    /\ read.stage = "page" => read.total <= Cardinality(Matching')
                    /\ read.stage = "answered" =>
                         /\ Range(read.page) \subseteq Matching'
                         /\ Len(read.page) >= Min({Limit, read.total - read.offset})
                    /\ \A x \in read.unseen : Untied(x)' =>
                           /\ read.stage \in {"check", "count", "page"} =>
                                Cardinality(Newer(x)') >= read.offset
                           /\ read.stage = "answered" =>
                                /\ Cardinality(Newer(x)') >= read.offset + Limit
                                /\ \A y \in Range(read.page) : Time(x)' < Time(y)'
  BY DEF Effect, ListInv
<1>1. read.kind = "list" /\ read # Idle /\ ~since.removed /\ Grown /\ ListInv /\ ListFields
  <2>1. read.kind = "list" /\ read # Idle
    BY DEF Effect, Idle
  <2> QED
    BY <2>1 DEF Effect, IInv, ReadFields
<1>2. /\ read.unseen \subseteq Matching
      /\ read.stage = "page" => read.total <= Cardinality(Matching)
      /\ read.stage = "answered" =>
           /\ Range(read.page) \subseteq Matching
           /\ Len(read.page) >= Min({Limit, read.total - read.offset})
      /\ \A x \in read.unseen : Untied(x) =>
             /\ read.stage \in {"check", "count", "page"} => Cardinality(Newer(x)) >= read.offset
             /\ read.stage = "answered" =>
                  /\ Cardinality(Newer(x)) >= read.offset + Limit
                  /\ \A y \in Range(read.page) : Time(x) < Time(y)
  BY <1>1 DEF ListInv
<1>3. read.offset \in Nat /\ read.total \in Nat /\ Limit \in Nat
  BY <1>1 DEF ListFields, LimitAssumption
<1>4. Matching \subseteq Matching' /\ \A x \in Matching : Time(x)' = Time(x)
  BY <1>1 DEF Grown
<1>5. \A T \in SUBSET Matching' : IsFiniteSet(T) /\ Cardinality(T) \in Nat
  <2>1. Matching' \in SUBSET Jobs \/ Matching' \in SUBSET Rows
    BY DEF Matching, Selected, Of, LiveJobs, LiveRows
  <2>2. \A T \in SUBSET Matching' : T \in SUBSET Jobs \/ T \in SUBSET Rows
    BY <2>1
  <2> QED
    BY <2>2, Finite
<1>6. Cardinality(Matching) \in Nat /\ Cardinality(Matching') \in Nat
      /\ Cardinality(Matching) <= Cardinality(Matching')
  BY <1>4, <1>5, FS_Subset
<1>7. \A x \in read.unseen : Untied(x)' => Untied(x)
  BY <1>2, <1>4 DEF Untied
<1>8. \A x \in read.unseen : /\ Cardinality(Newer(x)) \in Nat /\ Cardinality(Newer(x)') \in Nat
                             /\ Cardinality(Newer(x)) <= Cardinality(Newer(x)')
  <2> SUFFICES ASSUME NEW x \in read.unseen
               PROVE  /\ Cardinality(Newer(x)) \in Nat /\ Cardinality(Newer(x)') \in Nat
                      /\ Cardinality(Newer(x)) <= Cardinality(Newer(x)')
    OBVIOUS
  <2>1. x \in Matching
    BY <1>2
  <2>2. Newer(x) \subseteq Newer(x)' /\ Newer(x)' \subseteq Matching' /\ Newer(x) \subseteq Matching'
    BY <1>4, <2>1 DEF Newer
  <2> QED
    BY <1>5, <2>2, FS_Subset
<1>9. read.stage = "page" => read.total <= Cardinality(Matching')
  BY <1>2, <1>3, <1>6
<1>10. ASSUME NEW x \in read.unseen, Untied(x)'
       PROVE  /\ read.stage \in {"check", "count", "page"} => Cardinality(Newer(x)') >= read.offset
              /\ read.stage = "answered" =>
                   /\ Cardinality(Newer(x)') >= read.offset + Limit
                   /\ \A y \in Range(read.page) : Time(x)' < Time(y)'
  <2>1. read.stage \in {"check", "count", "page"} => Cardinality(Newer(x)') >= read.offset
    BY <1>2, <1>3, <1>7, <1>8, <1>10
  <2>2. read.stage = "answered" => Cardinality(Newer(x)') >= read.offset + Limit
    BY <1>2, <1>3, <1>7, <1>8, <1>10
  <2>3. read.stage = "answered" => \A y \in Range(read.page) : Time(x)' < Time(y)'
    BY <1>2, <1>4, <1>7, <1>10
  <2> QED
    BY <2>1, <2>2, <2>3
<1> QED
  BY <1>2, <1>4, <1>9, <1>10

LEMMA WriteInv ==
    ASSUME NullAssumption, IdAssumption, LimitAssumption, IInv, Effect
    PROVE  IInv'
<1>1. /\ Types /\ Types' /\ TypeOK' /\ read' = read
      /\ since'.created \in BOOLEAN /\ since'.removed \in BOOLEAN
      /\ \A j \in Jobs : jobs[j] # Null => jobs'[j] # Null
      /\ \A j \in LiveJobs' : jobs[j] # Null =>
           /\ j \in LiveJobs
           /\ jobs'[j].results >= jobs[j].results /\ jobs'[j].urls >= jobs[j].urls
           /\ Deleted(j) \subseteq Deleted(j)'
  BY DEF Effect, IInv
<1>2. ReadFields /\ ReadFields'
  BY <1>1 DEF IInv, ReadFields, ListFields, DetailFields, DownloadFields, FigureFields
<1>3. ListInv'
  BY WriteKeepsLists
<1>4. read.kind \in {"detail", "download"} => read.job \in Jobs /\ (read.stage # "none" => read.row \in JobRows)
  BY <1>2 DEF ReadFields, DetailFields, DownloadFields
<1>5. JobKnown'
  BY <1>1, <1>4 DEF IInv, JobKnown
\* A job being read is one that was there, so its counters have only grown.
<1>6. ASSUME read.kind \in {"detail", "download"}, read.stage # "none", read.job \in LiveJobs'
      PROVE  /\ read.job \in LiveJobs
             /\ jobs[read.job].results \in Nat /\ jobs'[read.job].results \in Nat
             /\ jobs[read.job].urls \in Nat /\ jobs'[read.job].urls \in Nat
             /\ jobs'[read.job].results >= jobs[read.job].results
             /\ jobs'[read.job].urls >= jobs[read.job].urls
             /\ Cardinality(Deleted(read.job)) \in Nat /\ Cardinality(Deleted(read.job)') \in Nat
             /\ Cardinality(Deleted(read.job)) <= Cardinality(Deleted(read.job)')
             /\ read.row.results \in Nat /\ read.row.urls \in Nat
  <2> DEFINE k == read.job
  <2>1. jobs[k] # Null
    BY <1>6 DEF IInv, JobKnown
  <2>2. k \in LiveJobs'
    BY <1>6
  <2>3. read.row \in JobRows /\ k' = k
    BY <1>1, <1>4, <1>6
  <2> HIDE DEF k
  <2>4. /\ k \in LiveJobs /\ jobs'[k].results >= jobs[k].results /\ jobs'[k].urls >= jobs[k].urls
        /\ Deleted(k) \subseteq Deleted(k)'
    BY <1>1, <2>1, <2>2, <2>3
  <2>5. jobs[k] \in JobRows
    BY <1>1, <2>4, LiveAreRows
  <2>6. jobs'[k] \in JobRows
    BY <1>1, <2>2 DEF Types, LiveJobs
  <2>7. Deleted(k) \in SUBSET Rows /\ Deleted(k)' \in SUBSET Rows
    BY DEF Deleted, LiveRows
  <2>8. /\ Cardinality(Deleted(k)) \in Nat /\ Cardinality(Deleted(k)') \in Nat
        /\ Cardinality(Deleted(k)) <= Cardinality(Deleted(k)')
    BY <2>4, <2>7, Finite, FS_Subset
  <2>9. /\ jobs[k].results \in Nat /\ jobs'[k].results \in Nat /\ jobs[k].urls \in Nat
        /\ jobs'[k].urls \in Nat /\ read.row.results \in Nat /\ read.row.urls \in Nat
    BY <2>3, <2>5, <2>6 DEF JobRows
  <2> QED
    BY <2>4, <2>8, <2>9 DEF k
<1>7. DetailInv'
  <2> SUFFICES ASSUME read.kind = "detail", read.job \in LiveJobs'
               PROVE  /\ read.stage = "results" => read.row.results <= jobs'[read.job].results
                      /\ read.stage \in {"results", "urls"} => read.row.urls <= jobs'[read.job].urls
                      /\ read.stage \in {"urls", "done"} => SumFunction(read.results) >= read.row.results
                      /\ read.stage = "done" =>
                           /\ Latest(read.urls) \in Nat
                           /\ Latest(read.urls) + Cardinality(Deleted(read.job)') >= read.row.urls
    BY <1>1 DEF DetailInv
  <2>1. CASE read.stage = "none"
    BY <2>1
  <2>2. CASE read.stage # "none"
    <3>1. /\ read.stage = "results" => read.row.results <= jobs[read.job].results
          /\ read.stage \in {"results", "urls"} => read.row.urls <= jobs[read.job].urls
          /\ read.stage \in {"urls", "done"} => SumFunction(read.results) >= read.row.results
          /\ read.stage = "done" =>
               /\ Latest(read.urls) \in Nat
               /\ Latest(read.urls) + Cardinality(Deleted(read.job)) >= read.row.urls
      BY <1>6, <2>2 DEF IInv, DetailInv
    <3> QED
      BY <1>6, <2>2, <3>1
  <2> QED
    BY <2>1, <2>2
<1>8. DownloadInv'
  <2> SUFFICES ASSUME read.kind = "download", read.job \in LiveJobs'
               PROVE  /\ read.stage = "results" => read.row.results <= jobs'[read.job].results
                      /\ read.stage = "done" => Cardinality(read.results) >= read.row.results
    BY <1>1 DEF DownloadInv
  <2>1. CASE read.stage = "none"
    BY <2>1
  <2>2. CASE read.stage # "none"
    BY <1>6, <2>2 DEF IInv, DownloadInv
  <2> QED
    BY <2>1, <2>2
<1>9. FigureInv'
  <2> SUFFICES ASSUME read.kind \in {"figures", "overview", "usage"}, ~since'.created, ~since'.removed
               PROVE  /\ read.stage # "counts" => SumFunction(read.counts) = Cardinality(LiveJobs')
                      /\ read.stage \in {"last", "month", "done"} => read.total = Cardinality(LiveJobs')
                      /\ read.kind = "overview" /\ read.stage = "done" =>
                           Len(read.recent) = Min({Recent, read.total})
    BY <1>1 DEF FigureInv
  <2>1. read # Idle
    BY DEF Idle
  <2>2. since.created \in BOOLEAN /\ since.removed \in BOOLEAN
    BY DEF IInv
  <2>3. ~since.created /\ ~since.removed /\ LiveJobs' = LiveJobs
    BY <2>1, <2>2 DEF Effect
  <2> QED
    BY <2>3 DEF IInv, FigureInv
<1> QED
  BY <1>1, <1>2, <1>3, <1>5, <1>7, <1>8, <1>9 DEF IInv

-----------------------------------------------------------------------------
(* Reads: what each of them leaves, by its kind. *)

Still == UNCHANGED <<jobs, rows, since>>

LEMMA StillState ==
    ASSUME IInv, Still
    PROVE  /\ Types' /\ TypeOK' /\ LiveJobs' = LiveJobs /\ LiveRows' = LiveRows
           /\ since' = since /\ since'.created \in BOOLEAN /\ since'.removed \in BOOLEAN
<1>0. Types /\ TypeOK /\ since.created \in BOOLEAN /\ since.removed \in BOOLEAN
      /\ jobs' = jobs /\ rows' = rows /\ since' = since
  BY DEF IInv, Still
<1>1. LiveJobs' = LiveJobs /\ LiveRows' = LiveRows
  BY <1>0 DEF LiveJobs, LiveRows
<1>2. Types'
  BY <1>0 DEF Types
<1>3. ASSUME NEW k \in LiveJobs PROVE Counters(k)'
  <2>1. Counters(k)
    BY <1>0 DEF TypeOK
  <2>2. Of("results", k)' = Of("results", k) /\ UrlRows(k)' = UrlRows(k)
    BY <1>0, <1>1 DEF Of, UrlRows
  <2> QED
    BY <1>0, <2>1, <2>2 DEF Counters, UrlRows
<1>4. TypeOK'
  BY <1>0, <1>1, <1>3 DEF TypeOK
<1> QED
  BY <1>0, <1>1, <1>2, <1>4

LEMMA ListStep ==
    ASSUME IInv, Still, read'.kind = "list", ListFields', ListInv'
    PROVE  IInv'
<1>1. Types' /\ TypeOK' /\ since'.created \in BOOLEAN /\ since'.removed \in BOOLEAN
  BY StillState
<1>2. ReadFields' /\ JobKnown' /\ DetailInv' /\ DownloadInv' /\ FigureInv'
  BY DEF ReadFields, JobKnown, DetailInv, DownloadInv, FigureInv
<1> QED
  BY <1>1, <1>2 DEF IInv

LEMMA DetailStep ==
    ASSUME IInv, Still, read'.kind = "detail", DetailFields', JobKnown', DetailInv'
    PROVE  IInv'
<1>1. Types' /\ TypeOK' /\ since'.created \in BOOLEAN /\ since'.removed \in BOOLEAN
  BY StillState
<1>2. ReadFields' /\ ListInv' /\ DownloadInv' /\ FigureInv'
  BY DEF ReadFields, ListInv, DownloadInv, FigureInv
<1> QED
  BY <1>1, <1>2 DEF IInv

LEMMA DownloadStep ==
    ASSUME IInv, Still, read'.kind = "download", DownloadFields', JobKnown', DownloadInv'
    PROVE  IInv'
<1>1. Types' /\ TypeOK' /\ since'.created \in BOOLEAN /\ since'.removed \in BOOLEAN
  BY StillState
<1>2. ReadFields' /\ ListInv' /\ DetailInv' /\ FigureInv'
  BY DEF ReadFields, ListInv, DetailInv, FigureInv
<1> QED
  BY <1>1, <1>2 DEF IInv

LEMMA FigureStep ==
    ASSUME IInv, Still, read'.kind \in {"figures", "overview", "usage"}, FigureFields', FigureInv'
    PROVE  IInv'
<1>1. Types' /\ TypeOK' /\ since'.created \in BOOLEAN /\ since'.removed \in BOOLEAN
  BY StillState
<1>2. ReadFields' /\ ListInv' /\ JobKnown' /\ DetailInv' /\ DownloadInv'
  BY DEF ReadFields, ListInv, JobKnown, DetailInv, DownloadInv
<1> QED
  BY <1>1, <1>2 DEF IInv

LEMMA ExportStep ==
    ASSUME IInv, Still, read'.kind = "export", read'.stage = "done"
    PROVE  IInv'
<1>1. Types' /\ TypeOK' /\ since'.created \in BOOLEAN /\ since'.removed \in BOOLEAN
  BY StillState
<1>2. ReadFields' /\ ListInv' /\ JobKnown' /\ DetailInv' /\ DownloadInv' /\ FigureInv'
  BY DEF ReadFields, ListInv, JobKnown, DetailInv, DownloadInv, FigureInv
<1> QED
  BY <1>1, <1>2 DEF IInv

\* The stage of a read tells its kind.
LEMMA KindOf ==
    ASSUME ReadFields
    PROVE  /\ read.stage \in {"check", "count", "page", "answered"} => read.kind = "list" /\ ListFields
           /\ read.stage = "urls" => read.kind = "detail" /\ DetailFields
           /\ read.stage = "results" => \/ read.kind = "detail" /\ DetailFields
                                        \/ read.kind = "download" /\ DownloadFields
           /\ read.stage \in {"counts", "sums", "total", "last", "month"} =>
                read.kind \in {"figures", "usage"} /\ FigureFields
  BY DEF ReadFields, ListFields, DetailFields, DownloadFields, FigureFields

-----------------------------------------------------------------------------
(* Lists. *)

\* A step that leaves what is listed.
LEMMA SameList ==
    ASSUME Still, read'.table = read.table, read'.job = read.job, read'.status = read.status
    PROVE  /\ Matching' = Matching
           /\ \A x : Time(x)' = Time(x) /\ Newer(x)' = Newer(x) /\ (Untied(x)' <=> Untied(x))
<1>1. jobs' = jobs /\ rows' = rows
  BY DEF Still
<1>2. Matching' = Matching
  BY <1>1 DEF Matching, Selected, Of, LiveJobs, LiveRows
<1>3. \A x : Time(x)' = Time(x)
  BY <1>1 DEF Time
<1> QED
  BY <1>2, <1>3 DEF Untied, Newer

LEMMA ListBegins ==
    ASSUME IdAssumption, IInv, NEW table \in Tables, NEW j, NEW status,
           NEW stage \in {"check", "count"}, List(table, j, status, stage)
    PROVE  IInv'
<1>1. /\ Still /\ read'.kind = "list" /\ read'.stage = stage /\ read'.offset = 0 /\ read'.total = 0
      /\ read'.table = table /\ read'.job = j /\ read'.status = status
      /\ read'.unseen = Selected(table, j, status)
      /\ DOMAIN read' = {"kind", "stage", "table", "job", "status", "offset", "total", "page", "unseen"}
  BY DEF List, Begin, Still
<1>2. ListFields'
  BY <1>1 DEF ListFields
<1>3. Matching' = Selected(table, j, status)
  BY <1>1 DEF Matching, Selected, Of, LiveJobs, LiveRows, Still
<1>4. \A x : Cardinality(Newer(x)') >= 0
  <2> SUFFICES ASSUME NEW x PROVE Cardinality(Newer(x)') >= 0
    OBVIOUS
  <2>1. Newer(x)' \in SUBSET Matching'
    BY DEF Newer
  <2>2. Newer(x)' \in SUBSET Jobs \/ Newer(x)' \in SUBSET Rows
    BY <1>3, <2>1 DEF Selected, Of, LiveJobs, LiveRows
  <2>3. Cardinality(Newer(x)') \in Nat
    BY <2>2, Finite
  <2> QED
    BY <2>3
<1>5. ListInv'
  BY <1>1, <1>3, <1>4 DEF ListInv
<1> QED
  BY <1>1, <1>2, <1>5, ListStep

LEMMA CheckJobInv ==
    ASSUME IInv, CheckJob
    PROVE  IInv'
<1>1. read.stage = "check" /\ read.kind = "list" /\ ListFields /\ ListInv
  BY KindOf DEF CheckJob, IInv
<1>2. /\ Still /\ read'.stage \in {"count", "done"} /\ read'.kind = "list" /\ DOMAIN read' = DOMAIN read
      /\ read'.table = read.table /\ read'.job = read.job /\ read'.status = read.status
      /\ read'.offset = read.offset /\ read'.total = read.total /\ read'.unseen = read.unseen
  BY <1>1 DEF CheckJob, Go, Still, ListFields
<1>3. ListFields'
  BY <1>1, <1>2 DEF ListFields
<1>4. /\ Matching' = Matching /\ since' = since
      /\ \A x : Time(x)' = Time(x) /\ Newer(x)' = Newer(x) /\ (Untied(x)' <=> Untied(x))
  BY <1>2, SameList, StillState
<1>5. ListInv'
  BY <1>1, <1>2, <1>4 DEF ListInv
<1> QED
  BY <1>2, <1>3, <1>5, ListStep

LEMMA CountRowsInv ==
    ASSUME IdAssumption, IInv, CountRows
    PROVE  IInv'
<1>1. read.stage = "count" /\ read.kind = "list" /\ ListFields /\ ListInv
  BY KindOf DEF CountRows, IInv
<1>2. /\ Still /\ read'.stage = "page" /\ read'.kind = "list" /\ DOMAIN read' = DOMAIN read
      /\ read'.table = read.table /\ read'.job = read.job /\ read'.status = read.status
      /\ read'.offset = read.offset /\ read'.total = Cardinality(Matching)
      /\ read'.unseen = read.unseen
  BY <1>1 DEF CountRows, Go, Still, ListFields
<1>3. Cardinality(Matching) \in Nat
  BY MatchingFinite
<1>4. ListFields'
  BY <1>1, <1>2, <1>3 DEF ListFields
<1>5. /\ Matching' = Matching /\ since' = since
      /\ \A x : Time(x)' = Time(x) /\ Newer(x)' = Newer(x) /\ (Untied(x)' <=> Untied(x))
  BY <1>2, SameList, StillState
<1>6. ListInv'
  BY <1>1, <1>2, <1>3, <1>5 DEF ListInv
<1> QED
  BY <1>2, <1>4, <1>6, ListStep

\* What a page does not reach has at least a page more before it.
LEMMA FetchPageInv ==
    ASSUME NullAssumption, IdAssumption, LimitAssumption, IInv, FetchPage
    PROVE  IInv'
<1>1. read.stage = "page" /\ read.kind = "list" /\ ListFields /\ ListInv
  BY KindOf DEF FetchPage, IInv
<1>2. PICK s \in Orders(Matching) :
         Go([read EXCEPT !.stage = "answered", !.page = Slice(s, read.offset),
                         !.unseen = @ \ Range(Slice(s, read.offset))])
  BY DEF FetchPage
<1> DEFINE p == Slice(s, read.offset)
           N == Cardinality(Matching)
<1>3. /\ Still /\ read'.stage = "answered" /\ read'.kind = "list" /\ DOMAIN read' = DOMAIN read
      /\ read'.table = read.table /\ read'.job = read.job /\ read'.status = read.status
      /\ read'.offset = read.offset /\ read'.total = read.total
      /\ read'.page = p /\ read'.unseen = read.unseen \ Range(p)
  BY <1>1, <1>2 DEF Go, Still, ListFields
<1>4. ListFields'
  BY <1>1, <1>3 DEF ListFields
<1>5. /\ Matching' = Matching /\ since' = since
      /\ \A x : Time(x)' = Time(x) /\ Newer(x)' = Newer(x) /\ (Untied(x)' <=> Untied(x))
  BY <1>3, SameList, StillState
<1>6. read.offset \in Nat /\ read.total \in Nat /\ Limit \in Nat
  BY <1>1 DEF ListFields, LimitAssumption
<1>7. IsFiniteSet(Matching)
  BY MatchingFinite
<1>8. /\ N \in Nat /\ s \in [1..N -> Matching] /\ s \in Seq(Matching) /\ Len(s) = N
      /\ \A x \in Matching : \E m \in 1..N : s[m] = x
      /\ \A m, n \in 1..N : m < n => s[m] # s[n] /\ Time(s[m]) >= Time(s[n])
  BY <1>7, OrdersOf
<1>9. /\ Len(p) \in Nat /\ Len(p) >= Min({Limit, Len(s) - read.offset})
      /\ \A m \in 1..Len(s) : read.offset < m /\ m <= read.offset + Limit => s[m] \in Range(p)
      /\ \A y \in Range(p) : \E m \in 1..Len(s) : m <= read.offset + Limit /\ s[m] = y
  BY <1>6, <1>8, PageOf
<1> HIDE DEF p, N
<1>10. Range(p) \subseteq Matching
  BY <1>8, <1>9
<1>11. ASSUME ~since.removed PROVE Len(p) >= Min({Limit, read.total - read.offset})
  <2>1. read.total <= N
    BY <1>1, <1>11 DEF ListInv, N
  <2>2. Min({Limit, N - read.offset}) = IF Limit <= N - read.offset THEN Limit ELSE N - read.offset
    BY <1>6, <1>8, LesserOf
  <2>3. Min({Limit, read.total - read.offset}) =
            IF Limit <= read.total - read.offset THEN Limit ELSE read.total - read.offset
    BY <1>6, LesserOf
  <2>4. Len(p) >= Min({Limit, N - read.offset})
    BY <1>8, <1>9
  <2> QED
    BY <1>6, <1>8, <1>9, <2>1, <2>2, <2>3, <2>4
<1>12. ASSUME ~since.removed, NEW x \in read.unseen \ Range(p), Untied(x)
       PROVE  /\ Cardinality(Newer(x)) >= read.offset + Limit
              /\ \A y \in Range(p) : Time(x) < Time(y)
  <2>1. x \in Matching /\ Cardinality(Newer(x)) >= read.offset
    BY <1>1, <1>12 DEF ListInv
  <2>2. PICK m \in 1..N : s[m] = x
    BY <1>8, <2>1
  <2>3. \A y \in Matching : Time(y) \in Nat
    <3>1. Matching \subseteq LiveJobs \cup LiveRows
      BY DEF Matching, Selected, Of
    <3> QED
      BY <3>1, Times DEF IInv
  <2>4. Cardinality(Newer(x)) = m - 1
    <3>1. \A y \in Matching : Time(s[m]) = Time(y) => s[m] = y
      BY <1>12, <2>2 DEF Untied
    <3>2. Cardinality({y \in Matching : Time(y) > Time(s[m])}) = m - 1
      BY <1>7, <2>3, <3>1, PlaceOf DEF N
    <3> QED
      BY <2>2, <3>2 DEF Newer
  <2>5. m > read.offset + Limit
    <3>1. ~(read.offset < m /\ m <= read.offset + Limit)
      BY <1>8, <1>9, <1>12, <2>2
    <3>2. read.offset < m
      BY <1>6, <1>8, <2>1, <2>4
    <3> QED
      BY <1>6, <1>8, <3>1, <3>2
  <2>6. ASSUME NEW y \in Range(p) PROVE Time(x) < Time(y)
    <3>1. PICK n \in 1..N : n <= read.offset + Limit /\ s[n] = y
      BY <1>8, <1>9
    <3>2. n < m
      BY <1>6, <1>8, <2>5, <3>1
    <3>3. x # y /\ Time(y) >= Time(x)
      BY <1>8, <2>2, <3>1, <3>2
    <3>4. Time(x) # Time(y) /\ Time(x) \in Nat /\ Time(y) \in Nat
      BY <1>10, <1>12, <2>1, <2>3, <3>3 DEF Untied
    <3> QED
      BY <3>3, <3>4
  <2>7. Cardinality(Newer(x)) >= read.offset + Limit
    BY <1>6, <1>8, <2>4, <2>5
  <2> QED
    BY <2>6, <2>7
<1>13. ListInv'
  <2> SUFFICES ASSUME ~since.removed
               PROVE  /\ read.unseen \ Range(p) \subseteq Matching
                      /\ Range(p) \subseteq Matching
                      /\ Len(p) >= Min({Limit, read.total - read.offset})
                      /\ \A x \in read.unseen \ Range(p) : Untied(x) =>
                             /\ Cardinality(Newer(x)) >= read.offset + Limit
                             /\ \A y \in Range(p) : Time(x) < Time(y)
    BY <1>3, <1>5 DEF ListInv
  <2>1. read.unseen \subseteq Matching
    BY <1>1 DEF ListInv
  <2> QED
    BY <1>10, <1>11, <1>12, <2>1
<1> QED
  BY <1>3, <1>4, <1>13, ListStep

LEMMA NextPageInv ==
    ASSUME LimitAssumption, IInv, NextPage
    PROVE  IInv'
<1>1. read.stage = "answered" /\ read.kind = "list" /\ ListFields /\ ListInv
  BY KindOf DEF NextPage, IInv
<1>2. /\ Still /\ read'.kind = "list" /\ DOMAIN read' = DOMAIN read
      /\ read'.table = read.table /\ read'.job = read.job /\ read'.status = read.status
      /\ read'.unseen = read.unseen
      /\ read'.stage \in {"check", "count"}
      /\ read'.offset = read.offset + Limit /\ read'.total = 0
  BY <1>1 DEF NextPage, Go, Still, ListFields
<1>3. ListFields'
  BY <1>1, <1>2 DEF ListFields, LimitAssumption
<1>4. /\ Matching' = Matching /\ since' = since
      /\ \A x : Time(x)' = Time(x) /\ Newer(x)' = Newer(x) /\ (Untied(x)' <=> Untied(x))
  BY <1>2, SameList, StillState
<1>5. ListInv'
  <2> SUFFICES ASSUME ~since.removed
               PROVE  /\ read.unseen \subseteq Matching
                      /\ \A x \in read.unseen : Untied(x) => Cardinality(Newer(x)) >= read'.offset
    BY <1>2, <1>4 DEF ListInv
  <2> QED
    BY <1>1, <1>2 DEF ListInv
<1> QED
  BY <1>2, <1>3, <1>5, ListStep

-----------------------------------------------------------------------------
(* One job. *)

\* A live job's counters, and its rows.
LEMMA LiveCounters ==
    ASSUME IInv, NEW j \in LiveJobs
    PROVE  /\ j \in Jobs /\ jobs[j] \in JobRows /\ jobs[j] # Null
           /\ jobs[j].results = Cardinality(Of("results", j))
           /\ jobs[j].urls = Cardinality(UrlRows(j))
  BY DEF IInv, Types, TypeOK, Counters, UrlRows, LiveJobs

\* Pages by the second are as many as the pages.
LEMMA ThroughputSum ==
    ASSUME NEW S, IsFiniteSet(S)
    PROVE  SumFunction(Throughput(S)) = Cardinality(S)
<1> DEFINE h == [i \in S |-> Second(i)]
           D == Seconds(S)
<1>1. h \in [S -> D] /\ \A i \in S : h[i] = Second(i)
  BY DEF Seconds
<1>2. IsFiniteSet(D)
  <2>1. h \in Surjection(S, D)
    BY <1>1 DEF Surjection, Seconds
  <2> HIDE DEF h, D
  <2> QED
    BY <2>1, FS_Surjection
<1> HIDE DEF h
<1>3. Throughput(S) = [t \in D |-> Cardinality({i \in S : h[i] = t})]
  <2>1. \A t \in D : {i \in S : Second(i) = t} = {i \in S : h[i] = t}
    BY <1>1
  <2> QED
    BY <2>1 DEF Throughput
<1> HIDE DEF D
<1>4. SumFunction([t \in D |-> Cardinality({i \in S : h[i] = t})]) = Cardinality(S)
  BY <1>1, <1>2, SumCounts
<1> QED
  BY <1>3, <1>4, Zenon

\* The last point of the history of URLs counts them all.
LEMMA LatestIsAll ==
    ASSUME TimeAssumption, NEW S, IsFiniteSet(S), \A i \in S : rows[i].at \in 0..MaxTime
    PROVE  Latest(Cumulative(S)) = Cardinality(S)
<1>1. DOMAIN Cumulative(S) = Seconds(S)
  BY DEF Cumulative
<1>2. CASE S = {}
  <2>1. Seconds(S) = {}
    BY <1>2 DEF Seconds
  <2> QED
    BY <1>1, <1>2, <2>1, FS_EmptySet DEF Latest
<1>3. CASE S # {}
  <2>1. Seconds(S) # {}
    BY <1>3 DEF Seconds
  <2>2. \A i \in S : Second(i) \in 0..MaxTime /\ Second(i) \in Seconds(S)
    BY DEF Second, Seconds, TimeAssumption
  <2>3. Seconds(S) \in SUBSET (0..MaxTime)
    BY <2>2 DEF Seconds
  <2> DEFINE t == Max(Seconds(S))
  <2>4. t \in Seconds(S) /\ \A u \in Seconds(S) : t >= u
    BY <2>1, <2>3, Greatest DEF TimeAssumption
  <2> HIDE DEF t
  <2>5. \A i \in S : Second(i) <= t
    BY <2>2, <2>3, <2>4
  <2>6. {i \in S : Second(i) <= t} = S
    BY <2>5
  <2>7. Latest(Cumulative(S)) = Cumulative(S)[t]
    BY <1>1, <2>1 DEF Latest, t
  <2>8. Cumulative(S)[t] = Cardinality({i \in S : Second(i) <= t})
    BY <2>4 DEF Cumulative
  <2> QED
    BY <2>6, <2>7, <2>8
<1> QED
  BY <1>2, <1>3

LEMMA GetCrawlInv ==
    ASSUME IInv, NEW j \in Jobs, GetCrawl(j)
    PROVE  IInv'
<1>1. /\ Still /\ read'.kind = "detail" /\ read'.job = j /\ read'.row = jobs[j]
      /\ read'.stage = (IF j \in LiveJobs THEN "results" ELSE "none")
      /\ DOMAIN read' = {"kind", "stage", "job", "row", "results", "urls"}
  BY DEF GetCrawl, Begin, Still
<1>2. j \in LiveJobs => /\ jobs[j] \in JobRows /\ jobs[j] # Null
                        /\ jobs[j].results \in Nat /\ jobs[j].urls \in Nat
  BY LiveCounters DEF JobRows
<1>3. LiveJobs' = LiveJobs /\ jobs' = jobs
  BY <1>1, StillState DEF Still
<1>4. DetailFields'
  BY <1>1, <1>2 DEF DetailFields
<1>5. JobKnown'
  BY <1>1, <1>2, <1>3 DEF JobKnown
<1>6. DetailInv'
  BY <1>1, <1>2, <1>3 DEF DetailInv
<1> QED
  BY <1>1, <1>4, <1>5, <1>6, DetailStep

LEMMA DownloadCrawlInv ==
    ASSUME IInv, NEW j \in Jobs, DownloadCrawl(j)
    PROVE  IInv'
<1>1. /\ Still /\ read'.kind = "download" /\ read'.job = j /\ read'.row = jobs[j]
      /\ read'.stage = (IF j \in LiveJobs THEN "results" ELSE "none")
      /\ DOMAIN read' = {"kind", "stage", "job", "row", "results"}
  BY DEF DownloadCrawl, Begin, Still
<1>2. j \in LiveJobs => /\ jobs[j] \in JobRows /\ jobs[j] # Null /\ jobs[j].results \in Nat
  BY LiveCounters DEF JobRows
<1>3. LiveJobs' = LiveJobs /\ jobs' = jobs
  BY <1>1, StillState DEF Still
<1>4. DownloadFields'
  BY <1>1, <1>2 DEF DownloadFields
<1>5. JobKnown'
  BY <1>1, <1>2, <1>3 DEF JobKnown
<1>6. DownloadInv'
  BY <1>1, <1>2, <1>3 DEF DownloadInv
<1> QED
  BY <1>1, <1>4, <1>5, <1>6, DownloadStep

LEMMA ReadResultsInv ==
    ASSUME IdAssumption, IInv, ReadResults
    PROVE  IInv'
<1>1. /\ read.stage = "results"
      /\ \/ read.kind = "detail" /\ DetailFields
         \/ read.kind = "download" /\ DownloadFields
  <2>1. read.stage = "results" /\ ReadFields
    BY DEF ReadResults, IInv
  <2> QED
    BY <2>1, KindOf
<1>2. Still
  BY DEF ReadResults, Go, Still
<1>3. LiveJobs' = LiveJobs /\ jobs' = jobs
  BY <1>2, StillState DEF Still
<1>4. read.job \in Jobs /\ read.row \in JobRows /\ read.row.results \in Nat
      /\ jobs[read.job] # Null
  BY <1>1 DEF DetailFields, DownloadFields, JobRows, JobKnown, IInv
<1>5. IsFiniteSet(Of("results", read.job))
  <2>1. Of("results", read.job) \in SUBSET Rows
    BY DEF Of, LiveRows
  <2> QED
    BY <2>1, Finite
<1>6. CASE read.kind = "detail"
  <2>1. /\ read'.kind = "detail" /\ read'.stage = "urls" /\ DOMAIN read' = DOMAIN read
        /\ read'.job = read.job /\ read'.row = read.row
        /\ read'.results = Throughput(Of("results", read.job))
    BY <1>1, <1>6 DEF ReadResults, Go, DetailFields
  <2>2. DetailFields'
    BY <1>1, <1>4, <1>6, <2>1 DEF DetailFields
  <2>3. JobKnown'
    BY <1>3, <1>4, <2>1 DEF JobKnown
  <2>4. SumFunction(read'.results) = Cardinality(Of("results", read.job))
    BY <1>5, <2>1, ThroughputSum
  <2>5. DetailInv'
    <3> SUFFICES ASSUME read.job \in LiveJobs
                 PROVE  /\ read.row.urls <= jobs[read.job].urls
                        /\ SumFunction(read'.results) >= read.row.results
      BY <1>3, <2>1 DEF DetailInv
    <3>1. /\ read.row.results <= jobs[read.job].results /\ read.row.urls <= jobs[read.job].urls
      BY <1>1, <1>6 DEF IInv, DetailInv
    <3>2. jobs[read.job].results = Cardinality(Of("results", read.job))
          /\ jobs[read.job].results \in Nat
      BY LiveCounters DEF JobRows
    <3> QED
      BY <1>4, <2>4, <3>1, <3>2
  <2> QED
    BY <1>2, <2>1, <2>2, <2>3, <2>5, DetailStep
<1>7. CASE read.kind = "download"
  <2>1. /\ read'.kind = "download" /\ read'.stage = "done" /\ DOMAIN read' = DOMAIN read
        /\ read'.job = read.job /\ read'.row = read.row
        /\ read'.results = Of("results", read.job)
    BY <1>1, <1>7 DEF ReadResults, Go, DownloadFields
  <2>2. DownloadFields'
    BY <1>1, <1>4, <1>7, <2>1 DEF DownloadFields
  <2>3. JobKnown'
    BY <1>3, <1>4, <2>1 DEF JobKnown
  <2>4. DownloadInv'
    <3> SUFFICES ASSUME read.job \in LiveJobs
                 PROVE  Cardinality(Of("results", read.job)) >= read.row.results
      BY <1>3, <2>1 DEF DownloadInv
    <3>1. read.row.results <= jobs[read.job].results
      BY <1>1, <1>7 DEF IInv, DownloadInv
    <3>2. jobs[read.job].results = Cardinality(Of("results", read.job))
          /\ jobs[read.job].results \in Nat
      BY LiveCounters DEF JobRows
    <3> QED
      BY <1>4, <3>1, <3>2
  <2> QED
    BY <1>2, <2>1, <2>2, <2>3, <2>4, DownloadStep
<1> QED
  BY <1>1, <1>6, <1>7

\* What is listed of a job's URLs and what has been deleted of them are all it counted.
LEMMA ReadUrlsInv ==
    ASSUME NullAssumption, IdAssumption, TimeAssumption, IInv, ReadUrls
    PROVE  IInv'
<1>1. read.stage = "urls" /\ read.kind = "detail" /\ DetailFields
  BY KindOf DEF ReadUrls, IInv
<1>2. /\ Still /\ read'.kind = "detail" /\ read'.stage = "done" /\ DOMAIN read' = DOMAIN read
      /\ read'.job = read.job /\ read'.row = read.row /\ read'.results = read.results
      /\ read'.urls = Cumulative(Of("urls", read.job))
  BY <1>1 DEF ReadUrls, Go, Still, DetailFields
<1>3. LiveJobs' = LiveJobs /\ LiveRows' = LiveRows /\ jobs' = jobs /\ rows' = rows
  BY <1>2, StillState DEF Still
<1>4. read.job \in Jobs /\ read.row \in JobRows /\ read.row.urls \in Nat /\ jobs[read.job] # Null
  BY <1>1 DEF DetailFields, JobRows, JobKnown, IInv
<1> DEFINE U == Of("urls", read.job)
           X == Deleted(read.job)
<1>5. /\ IsFiniteSet(U) /\ Cardinality(U) \in Nat /\ IsFiniteSet(X) /\ Cardinality(X) \in Nat
      /\ IsFiniteSet(U \cap X) /\ Cardinality(U \cap X) \in Nat
  <2>1. U \in SUBSET Rows /\ X \in SUBSET Rows /\ U \cap X \in SUBSET Rows
    BY DEF Of, Deleted, LiveRows
  <2> QED
    BY <2>1, Finite
<1>6. Latest(read'.urls) = Cardinality(U)
  <2>1. \A i \in U : rows[i].at \in 0..MaxTime
    BY DEF Of, IInv, TypeOK
  <2> HIDE DEF U
  <2>2. Latest(Cumulative(U)) = Cardinality(U)
    BY <1>5, <2>1, LatestIsAll
  <2> QED
    BY <1>2, <2>2 DEF U
<1>7. X' = X
  BY <1>2, <1>3 DEF Deleted
<1>8. UrlRows(read.job) = U \cup X
  <2>1. /\ U = {i \in Mine(read.job) : "urls" \in rows[i].tables}
        /\ UrlRows(read.job) = {i \in Mine(read.job) : rows[i].tables # {"logs"}}
        /\ X = {i \in Mine(read.job) : rows[i].tables \in {{}, {"results"}}}
    BY <1>4, CountersOf
  <2>2. \A i \in Mine(read.job) :
           rows[i].tables # {"logs"} <=> "urls" \in rows[i].tables \/ rows[i].tables \in {{}, {"results"}}
    <3> SUFFICES ASSUME NEW i \in Mine(read.job)
                 PROVE  rows[i].tables # {"logs"} <=>
                            "urls" \in rows[i].tables \/ rows[i].tables \in {{}, {"results"}}
      OBVIOUS
    <3>1. rows[i].tables \in Stores \cup {{}, {"results"}}
      BY DEF Mine, IInv, TypeOK
    <3> QED
      BY <3>1 DEF Stores
  <2> HIDE DEF U, X
  <2> QED
    BY <2>1, <2>2
<1> HIDE DEF U, X
<1>9. Cardinality(U \cup X) = Cardinality(U) + Cardinality(X) - Cardinality(U \cap X)
  BY <1>5, FS_Union
<1>10. DetailFields'
  BY <1>1, <1>2, <1>4 DEF DetailFields
<1>11. JobKnown'
  BY <1>2, <1>3, <1>4 DEF JobKnown
<1>12. DetailInv'
  <2> SUFFICES ASSUME read.job \in LiveJobs
               PROVE  /\ SumFunction(read.results) >= read.row.results
                      /\ Cardinality(U) \in Nat
                      /\ Cardinality(U) + Cardinality(X) >= read.row.urls
    BY <1>2, <1>3, <1>6, <1>7 DEF DetailInv, X
  <2>1. /\ SumFunction(read.results) >= read.row.results
        /\ read.row.urls <= jobs[read.job].urls
    BY <1>1 DEF IInv, DetailInv
  <2>2. jobs[read.job].urls = Cardinality(U \cup X) /\ jobs[read.job].urls \in Nat
    BY <1>8, LiveCounters DEF JobRows
  <2> QED
    BY <1>4, <1>5, <1>9, <2>1, <2>2
<1> QED
  BY <1>2, <1>10, <1>11, <1>12, DetailStep

-----------------------------------------------------------------------------
(* The figures. *)

\* Every job has one of the statuses.
LEMMA StatusesCover ==
    ASSUME IdAssumption, IInv
    PROVE  SumFunction(StatusCounts) = Cardinality(LiveJobs)
<1> DEFINE h == [j \in LiveJobs |-> jobs[j].status]
<1>1. h \in [LiveJobs -> Statuses] /\ \A j \in LiveJobs : h[j] = jobs[j].status
  BY DEF IInv, TypeOK
<1>2. IsFiniteSet(Statuses)
  <2>1. Statuses = {"queued", "running"} \cup {"settled"}
    BY DEF Statuses
  <2>2. IsFiniteSet({"queued"}) /\ IsFiniteSet({"running"}) /\ IsFiniteSet({"settled"})
    BY FS_Singleton
  <2>3. IsFiniteSet({"queued"} \cup {"running"})
    BY <2>2, FS_Union
  <2>4. {"queued", "running"} = {"queued"} \cup {"running"}
    OBVIOUS
  <2> QED
    BY <2>1, <2>2, <2>3, <2>4, FS_Union
<1> HIDE DEF h
<1>3. StatusCounts = [s \in Statuses |-> Cardinality({j \in LiveJobs : h[j] = s})]
  <2>1. \A s \in Statuses : {j \in LiveJobs : jobs[j].status = s} = {j \in LiveJobs : h[j] = s}
    BY <1>1
  <2> QED
    BY <2>1 DEF StatusCounts
<1>4. SumFunction([s \in Statuses |-> Cardinality({j \in LiveJobs : h[j] = s})])
          = Cardinality(LiveJobs)
  BY <1>1, <1>2, Finite, SumCounts
<1> QED
  BY <1>3, <1>4, Zenon

LEMMA GetFiguresInv ==
    ASSUME IInv, GetFigures
    PROVE  IInv'
<1>1. /\ Still /\ read'.kind = "figures" /\ read'.stage = "counts"
      /\ DOMAIN read' = {"kind", "stage", "counts", "scraped", "total", "month",
                         "scrapedInMonth", "recent"}
  BY DEF GetFigures, Begin, Still
<1>2. FigureFields' /\ FigureInv'
  BY <1>1 DEF FigureFields, FigureInv
<1> QED
  BY <1>1, <1>2, FigureStep

LEMMA CountStatusesInv ==
    ASSUME IdAssumption, IInv, CountStatuses
    PROVE  IInv'
<1>1. read.stage = "counts" /\ read.kind \in {"figures", "usage"} /\ FigureFields
  BY KindOf DEF CountStatuses, IInv
<1>2. /\ Still /\ read'.stage = "sums" /\ read'.kind = read.kind /\ DOMAIN read' = DOMAIN read
      /\ read'.counts = StatusCounts
  BY <1>1 DEF CountStatuses, Go, Still, FigureFields
<1>3. SumFunction(StatusCounts) = Cardinality(LiveJobs) /\ LiveJobs' = LiveJobs
  BY <1>2, StatusesCover, StillState
<1>4. FigureFields' /\ FigureInv'
  BY <1>1, <1>2, <1>3 DEF FigureFields, FigureInv
<1> QED
  BY <1>1, <1>2, <1>4, FigureStep

LEMMA SumUrlsInv ==
    ASSUME IInv, SumUrls
    PROVE  IInv'
<1>1. read.stage = "sums" /\ read.kind \in {"figures", "usage"} /\ FigureFields /\ FigureInv
  BY KindOf DEF SumUrls, IInv
<1>2. /\ Still /\ read'.stage = "total" /\ read'.kind = read.kind /\ DOMAIN read' = DOMAIN read
      /\ read'.counts = read.counts
  BY <1>1 DEF SumUrls, Go, Still, FigureFields
<1>3. LiveJobs' = LiveJobs /\ since' = since
  BY <1>2, StillState
<1>4. FigureFields' /\ FigureInv'
  BY <1>1, <1>2, <1>3 DEF FigureFields, FigureInv
<1> QED
  BY <1>1, <1>2, <1>4, FigureStep

LEMMA CountJobsInv ==
    ASSUME IInv, CountJobs
    PROVE  IInv'
<1>1. read.stage = "total" /\ read.kind \in {"figures", "usage"} /\ FigureFields /\ FigureInv
  BY KindOf DEF CountJobs, IInv
<1>2. /\ Still /\ read'.stage = "last" /\ read'.kind = read.kind /\ DOMAIN read' = DOMAIN read
      /\ read'.counts = read.counts /\ read'.total = Cardinality(LiveJobs)
  BY <1>1 DEF CountJobs, Go, Still, FigureFields
<1>3. LiveJobs' = LiveJobs /\ since' = since
  BY <1>2, StillState
<1>4. FigureFields' /\ FigureInv'
  BY <1>1, <1>2, <1>3 DEF FigureFields, FigureInv
<1> QED
  BY <1>1, <1>2, <1>4, FigureStep

LEMMA RecentJobsInv ==
    ASSUME IdAssumption, LimitAssumption, IInv, RecentJobs
    PROVE  IInv'
<1>1. read.stage = "last" /\ read.kind \in {"figures", "usage"} /\ FigureFields /\ FigureInv
  BY KindOf DEF RecentJobs, IInv
<1>2. PICK s \in Orders(LiveJobs) :
         Go([read EXCEPT !.kind = "overview", !.stage = "done",
                         !.recent = SubSeq(s, 1, Min({Recent, Len(s)}))])
  BY DEF RecentJobs
<1>3. /\ Still /\ read'.stage = "done" /\ read'.kind = "overview" /\ DOMAIN read' = DOMAIN read
      /\ read'.counts = read.counts /\ read'.total = read.total
      /\ read'.recent = SubSeq(s, 1, Min({Recent, Len(s)}))
  BY <1>1, <1>2 DEF Go, Still, FigureFields
<1>4. LiveJobs' = LiveJobs /\ since' = since
  BY <1>3, StillState
<1>5. s \in Seq(LiveJobs) /\ Len(s) = Cardinality(LiveJobs) /\ Len(s) \in Nat
  BY Finite, OrdersOf
<1>6. Len(read'.recent) = Min({Recent, Cardinality(LiveJobs)})
  <2> DEFINE e == Min({Recent, Len(s)})
  <2>1. e \in Nat /\ e <= Len(s)
    BY <1>5, LesserOf DEF LimitAssumption
  <2> HIDE DEF e
  <2>2. 1 \in Int /\ e \in Int /\ \A i \in 1..e : s[i] \in LiveJobs
    BY <1>5, <2>1
  <2>3. Len(SubSeq(s, 1, e)) = IF 1 <= e THEN e - 1 + 1 ELSE 0
    BY <1>5, <2>2, SubSeqProperties
  <2>4. Len(SubSeq(s, 1, e)) = e
    BY <2>1, <2>3
  <2> QED
    BY <1>3, <1>5, <2>4 DEF e
<1>7. FigureFields' /\ FigureInv'
  BY <1>1, <1>3, <1>4, <1>6 DEF FigureFields, FigureInv
<1> QED
  BY <1>3, <1>7, FigureStep

LEMMA CountMonthInv ==
    ASSUME IInv, CountMonth
    PROVE  IInv'
<1>1. read.stage = "last" /\ read.kind \in {"figures", "usage"} /\ FigureFields /\ FigureInv
  BY KindOf DEF CountMonth, IInv
<1>2. /\ Still /\ read'.stage = "month" /\ read'.kind = "usage" /\ DOMAIN read' = DOMAIN read
      /\ read'.counts = read.counts /\ read'.total = read.total
  BY <1>1 DEF CountMonth, Go, Still, FigureFields
<1>3. LiveJobs' = LiveJobs /\ since' = since
  BY <1>2, StillState
<1>4. FigureFields' /\ FigureInv'
  BY <1>1, <1>2, <1>3 DEF FigureFields, FigureInv
<1> QED
  BY <1>2, <1>4, FigureStep

LEMMA SumMonthInv ==
    ASSUME IInv, SumMonth
    PROVE  IInv'
<1>1. read.stage = "month" /\ read.kind \in {"figures", "usage"} /\ FigureFields /\ FigureInv
  BY KindOf DEF SumMonth, IInv
<1>2. /\ Still /\ read'.stage = "done" /\ read'.kind = read.kind /\ DOMAIN read' = DOMAIN read
      /\ read'.counts = read.counts /\ read'.total = read.total
  BY <1>1 DEF SumMonth, Go, Still, FigureFields
<1>3. LiveJobs' = LiveJobs /\ since' = since
  BY <1>2, StillState
<1>4. FigureFields' /\ FigureInv'
  BY <1>1, <1>2, <1>3 DEF FigureFields, FigureInv
<1> QED
  BY <1>1, <1>2, <1>4, FigureStep

-----------------------------------------------------------------------------
(* The invariant holds. *)

LEMMA InitInv ==
    ASSUME NullAssumption, IdAssumption, TimeAssumption, Init
    PROVE  IInv
<1>1. LiveJobs = {} /\ LiveRows = {} /\ read.kind = "idle" /\ read.stage = "none"
  BY DEF Init, LiveJobs, LiveRows, Idle
<1>2. Types /\ TypeOK
  BY <1>1 DEF Init, Types, TypeOK, TimeAssumption
<1>3. since.created \in BOOLEAN /\ since.removed \in BOOLEAN
  BY DEF Init, Nothing
<1>4. ReadFields /\ ListInv /\ JobKnown /\ DetailInv /\ DownloadInv /\ FigureInv
  BY <1>1 DEF ReadFields, ListInv, JobKnown, DetailInv, DownloadInv, FigureInv
<1> QED
  BY <1>2, <1>3, <1>4 DEF IInv

LEMMA WritesKeep ==
    ASSUME NullAssumption, IdAssumption, LimitAssumption, TimeAssumption, IInv, Write
    PROVE  IInv'
<1>1. ASSUME NEW j \in Jobs, NEW at \in 0..MaxTime, CreateJob(j, at) PROVE IInv'
  BY <1>1, CreateJobEffect, WriteInv
<1>2. ASSUME NEW j \in Jobs, NEW s \in Statuses, SetStatus(j, s) PROVE IInv'
  BY <1>2, SetStatusEffect, WriteInv
<1>3. ASSUME NEW j \in Jobs, DeleteJob(j) PROVE IInv'
  BY <1>3, DeleteJobEffect, WriteInv
<1>4. ASSUME NEW j \in Jobs, NEW i \in Rows, NEW tables \in Stores, NEW at \in 0..MaxTime,
             StoreRow(i, tables, j, at)
      PROVE  IInv'
  BY <1>4, StoreRowEffect, WriteInv
<1>5. ASSUME NEW i \in Rows, DeleteUrl(i) PROVE IInv'
  BY <1>5, DeleteUrlEffect, WriteInv
<1> QED
  BY <1>1, <1>2, <1>3, <1>4, <1>5 DEF Write

LEMMA ReadsKeep ==
    ASSUME NullAssumption, IdAssumption, LimitAssumption, TimeAssumption, IInv, Read
    PROVE  IInv'
<1>1. ASSUME NEW s, ListCrawls(s) PROVE IInv'
  BY <1>1, ListBegins DEF ListCrawls, Tables
<1>2. ASSUME NEW j, ListData(j) PROVE IInv'
  BY <1>2, ListBegins DEF ListData, Tables
<1>3. ASSUME NEW j, GetLogs(j) PROVE IInv'
  BY <1>3, ListBegins DEF GetLogs, Tables
<1>4. ASSUME NEW j, ListDiscovered(j) PROVE IInv'
  BY <1>4, ListBegins DEF ListDiscovered, Tables
<1>5. ASSUME NEW j \in Jobs, GetCrawl(j) PROVE IInv'
  BY <1>5, GetCrawlInv
<1>6. ASSUME NEW j \in Jobs, DownloadCrawl(j) PROVE IInv'
  BY <1>6, DownloadCrawlInv
<1>7. ASSUME NEW ids, NEW j, ExportData(ids, j) PROVE IInv'
  <2>1. Still /\ read'.kind = "export" /\ read'.stage = "done"
    BY <1>7 DEF ExportData, Begin, Still
  <2> QED
    BY <2>1, ExportStep
<1>8. ASSUME NEW i, GetDataItem(i) PROVE IInv'
  BY <1>7, <1>8 DEF GetDataItem
<1>9. CASE CheckJob
  BY <1>9, CheckJobInv
<1>10. CASE CountRows
  BY <1>10, CountRowsInv
<1>11. CASE FetchPage
  BY <1>11, FetchPageInv
<1>12. CASE NextPage
  BY <1>12, NextPageInv
<1>13. CASE ReadResults
  BY <1>13, ReadResultsInv
<1>14. CASE ReadUrls
  BY <1>14, ReadUrlsInv
<1>15. CASE GetFigures
  BY <1>15, GetFiguresInv
<1>16. CASE CountStatuses
  BY <1>16, CountStatusesInv
<1>17. CASE SumUrls
  BY <1>17, SumUrlsInv
<1>18. CASE CountJobs
  BY <1>18, CountJobsInv
<1>19. CASE RecentJobs
  BY <1>19, RecentJobsInv
<1>20. CASE CountMonth
  BY <1>20, CountMonthInv
<1>21. CASE SumMonth
  BY <1>21, SumMonthInv
<1> QED
  BY <1>1, <1>2, <1>3, <1>4, <1>5, <1>6, <1>7, <1>8, <1>9, <1>10, <1>11, <1>12, <1>13, <1>14,
     <1>15, <1>16, <1>17, <1>18, <1>19, <1>20, <1>21 DEF Read

LEMMA StutterKeeps ==
    ASSUME IInv, UNCHANGED vars
    PROVE  IInv'
<1>1. Still /\ read' = read
  BY DEF vars, Still
<1>2. /\ Types' /\ TypeOK' /\ LiveJobs' = LiveJobs /\ LiveRows' = LiveRows
      /\ since' = since /\ since'.created \in BOOLEAN /\ since'.removed \in BOOLEAN
  BY <1>1, StillState
<1>3. /\ Matching' = Matching
      /\ \A x : Time(x)' = Time(x) /\ Newer(x)' = Newer(x) /\ (Untied(x)' <=> Untied(x))
  BY <1>1, SameList
<1>4. ReadFields'
  BY <1>1 DEF IInv, ReadFields, ListFields, DetailFields, DownloadFields, FigureFields
<1>5. ListInv'
  BY <1>1, <1>2, <1>3 DEF IInv, ListInv
<1>6. Deleted(read.job)' = Deleted(read.job)
  BY <1>1, <1>2 DEF Deleted, Still
<1>7. JobKnown' /\ DetailInv' /\ DownloadInv' /\ FigureInv'
  BY <1>1, <1>2, <1>6 DEF IInv, JobKnown, DetailInv, DownloadInv, FigureInv, Still
<1> QED
  BY <1>2, <1>4, <1>5, <1>7 DEF IInv

\* The inductive invariant, from the assumptions on the constants.
THEOREM Invariance == Spec => []IInv
<1>1. Init => IInv
  BY InitInv, NullAssumption, IdAssumption, TimeAssumption
<1>2. IInv /\ [Next]_vars => IInv'
  BY WritesKeep, ReadsKeep, StutterKeeps,
     NullAssumption, IdAssumption, LimitAssumption, TimeAssumption DEF Next
<1> QED
  BY <1>1, <1>2, PTL DEF Spec

-----------------------------------------------------------------------------
(* What it gives. *)

\* The variables have their types, and the counters a job's row shows are those
\* of the rows stored for it, deleted URLs included.
THEOREM CountersAreRows == Spec => []TypeOK
<1>1. IInv => TypeOK
  BY DEF IInv
<1> QED
  BY <1>1, Invariance, PTL

\* A page is as long as the total given with it promises, and a client that pages
\* through a list passes over no row whose time no other row has, while nothing is
\* removed, however late what is stored meanwhile is committed: GET /crawls, /data,
\* /crawls/{id}/logs and /crawls/{id}/discovered, for any page size.
THEOREM PagesLeaveNoGap == Spec => []ListsAreWhole
<1>1. IInv => ListsAreWhole
  BY DEF IInv, ListInv, ListsAreWhole, PageKeepsPromise, WalkLeavesNoGap
<1> QED
  BY <1>1, Invariance, PTL

\* The histories and the download of a job cover the counters read before them:
\* GET /crawls/{id} and /crawls/{id}/download while the job goes on.
THEOREM HistoriesCoverCounters == Spec => []RowsCoverCounters
<1>1. IInv => RowsCoverCounters
  BY DEF IInv, DetailInv, DownloadInv, RowsCoverCounters, Answered
<1> QED
  BY <1>1, Invariance, PTL

\* The counts by status of the dashboard and of the account's usage add up to the
\* total read after them, and the dashboard shows as many recent jobs as it can.
THEOREM FiguresAddUp == Spec => []OverviewAddsUp
<1>1. IInv => OverviewAddsUp
  BY DEF IInv, FigureInv, OverviewAddsUp, Answered
<1> QED
  BY <1>1, Invariance, PTL
=============================================================================
