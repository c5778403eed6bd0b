---------------------------- MODULE CrawlConfig ----------------------------
(***************************************************************************)
(* What becomes of the settings and filters of a crawl on their way to the *)
(* engine: the schemas that complete a request body                        *)
(* (src/src/api/v1/crawler/schema.py), the bodies the agent's tools write  *)
(* (src/src/agent/tools.py) and the worker's builder                       *)
(* (src/src/worker/settings_builder.py).  A path, a keyword and a pattern  *)
(* are sequences of segments, "/" and "*"; a date is a day, and a          *)
(* similarity is in percent.  Of the thirty fields those are kept that are *)
(* not simply passed on.                                                   *)
(***************************************************************************)
EXTENDS Integers, FiniteSetsExt, SequencesExt

CONSTANTS
    Null,       \* None
    Words,      \* path segments, and what a filter looks for
    Dates,      \* dates of pages
    Scores,     \* their similarities to what a filter asks for
    MaxSegments \* length of the longest path

ASSUME PagesAssumption == Dates \subseteq Nat /\ Scores \subseteq Nat /\ MaxSegments \in Nat

-----------------------------------------------------------------------------
(* The schema: a field the body leaves out gets its default. *)

DefaultLimit == 50

Defaults == [limit |-> DefaultLimit, include |-> Null, exclude |-> Null, human |-> FALSE,
             behavior |-> Null, genai |-> Null]

\* CrawlSettingsIn.  The stored settings are its model_dump: every field.
Filled(body) ==
    [f \in DOMAIN Defaults |-> IF f \in DOMAIN body THEN body[f] ELSE Defaults[f]]

\* The agent's tools leave out what the model did not ask for.
AgentBody(args) == [f \in {g \in DOMAIN args : args[g] # Null} |-> args[f]]

\* The URL validator: a schemeless URL gets https.  A URL that contains "://"
\* further on passes for one with a scheme, and is refused for having none.
Normalized(url) ==
    IF url.scheme = Null /\ ~url.nested THEN [url EXCEPT !.scheme = "https"] ELSE url

Navigable(url) == url.scheme \in {"http", "https"} /\ url.host

-----------------------------------------------------------------------------
(* Link patterns. *)

Strip(k) ==
    LET kept == {i \in DOMAIN k : k[i] # "/"} IN
    IF kept = {} THEN <<>> ELSE SubSeq(k, Min(kept), Max(kept))

Pattern(k) == <<"/">> \o Strip(k) \o <<"/", "*">>

\* No keywords is no restriction, not an empty one.
ToLinkPatterns(ks) ==
    IF ks \in {Null, <<>>} THEN Null ELSE [i \in DOMAIN ks |-> Pattern(ks[i])]

\* fnmatch over the whole path, as the engine applies it.
Matches(p, s) ==
    LET \* where in s the rest of p, from its i-th part on, matches to the end
        from[i \in 1..Len(p) + 1] ==
            LET next == from[i + 1] IN
            IF i > Len(p) THEN {Len(s) + 1}
            ELSE IF p[i] = "*" THEN {j \in 1..Len(s) + 1 : \E n \in next : j <= n}
            ELSE {j \in 1..Len(s) : s[j] = p[i] /\ j + 1 \in next}
    IN 1 \in from[1]

Admits(patterns, path) ==
    patterns = Null \/ \E i \in DOMAIN patterns : Matches(patterns[i], path)

\* No patterns exclude nothing.
Visits(s, path) ==
    Admits(s.include, path) /\ (s.exclude = Null \/ ~Admits(s.exclude, path))

-----------------------------------------------------------------------------
(* The engine's settings. *)

DefaultBehavior == "library default"

HumanBehavior(s) ==
    IF ~s.human THEN Null
    ELSE IF s.behavior # Null THEN s.behavior ELSE DefaultBehavior

\* A type the builder does not know is a string; Optional[...] may be missing.
BaseTypes == {"str", "int", "float", "bool", "list[str]"}
FieldType(t) ==
    [type |-> IF t.base \in BaseTypes THEN t.base ELSE "str", required |-> ~t.optional]
OutputSchema(fields) ==
    IF fields = <<>> THEN Null ELSE [f \in DOMAIN fields |-> FieldType(fields[f])]

\* An empty key in the payload is a key.
GenAI(g, keys) ==
    IF g = Null THEN Null
    ELSE [provider |-> g.provider,
          key |-> IF g.key = Null THEN keys[g.provider] ELSE g.key,
          schema |-> OutputSchema(g.fields)]

BuildSettings(s, keys) ==
    [limit |-> s.limit,
     include |-> ToLinkPatterns(s.include), exclude |-> ToLinkPatterns(s.exclude),
     behavior |-> HumanBehavior(s), genai |-> GenAI(s.genai, keys)]

-----------------------------------------------------------------------------
(* Filters.  The three kinds that take a list are treated alike: by_list.  *)

DefaultThreshold == 25

Nodes ==
    [kind : {"by_date"}, start : Nat \cup {Null}, end : Nat \cup {Null}] \cup
    [kind : {"by_list"}, list : {Null} \cup SUBSET Words] \cup
    [kind : {"by_cosine_similarity"}, threshold : Nat \cup {Null}]

Groups == [mode : {"AND", "OR"}, chain : Seq(Nodes)]

Or(value, default) == IF value \in {Null, 0} THEN default ELSE value

\* What a node leaves out is filled in.
Predicate(node) ==
    CASE node.kind = "by_list" -> [node EXCEPT !.list = IF @ = Null THEN {} ELSE @]
      [] node.kind = "by_cosine_similarity" -> [node EXCEPT !.threshold = Or(@, DefaultThreshold)]
      [] OTHER -> node

\* No filters, or an empty chain, are no chain.
BuildFilterChain(group) ==
    IF group = Null \/ group.chain = <<>> THEN Null
    ELSE [mode |-> group.mode,
          chain |-> [i \in DOMAIN group.chain |-> Predicate(group.chain[i])]]

\* The library's predicates and their combinations.
Pages == [date : Dates, words : SUBSET Words, score : Scores]

Accepts(p, page) ==
    CASE p.kind = "by_date" -> /\ p.start = Null \/ p.start <= page.date
                               /\ p.end = Null \/ page.date <= p.end
      [] p.kind = "by_list" -> p.list \cap page.words # {}
      [] OTHER -> page.score >= p.threshold

Passes(group, page) ==
    \/ group = Null
    \/ IF group.mode = "AND"
         THEN \A i \in DOMAIN group.chain : Accepts(group.chain[i], page)
         ELSE \E i \in DOMAIN group.chain : Accepts(group.chain[i], page)

-----------------------------------------------------------------------------
(* What a client means by keywords, groups and paths. *)

\* Paths of up to MaxSegments segments, "/a/b" being <<"/", "a", "/", "b">>.
Paths ==
    {[i \in 1..2 * Len(ws) |-> IF i % 2 = 1 THEN "/" ELSE ws[i \div 2]] :
        ws \in BoundedSeq(Words, MaxSegments) \ {<<>>}}

\* A keyword names the section "/keyword/", with or without slashes of its own.
InSection(k, path) == IsPrefix(<<"/">> \o Strip(k) \o <<"/">>, path)

Wanted(ks, path) == ks \in {Null, <<>>} \/ \E i \in DOMAIN ks : InSection(ks[i], path)

Unwanted(ks, path) == ks \notin {Null, <<>>} /\ \E i \in DOMAIN ks : InSection(ks[i], path)

\* A node looks for what it is given; a list or date left out asks for none,
\* and a threshold left out is the default.
Meets(node, page) ==
    CASE node.kind = "by_date" ->
            {d \in {node.start} : d # Null /\ d > page.date}
            \cup {d \in {node.end} : d # Null /\ d < page.date} = {}
      [] node.kind = "by_list" ->
            node.list # Null /\ \E w \in page.words : w \in node.list
      [] OTHER -> page.score >= IF node.threshold = Null THEN DefaultThreshold
                                ELSE node.threshold

\* No filters, and an empty chain, ask for nothing.
MeetsGroup(group, page) ==
    \/ group = Null
    \/ group.chain = <<>>
    \/ LET met == {i \in DOMAIN group.chain : Meets(group.chain[i], page)} IN
       IF group.mode = "AND" THEN met = DOMAIN group.chain ELSE met # {}

AsksForZero(group) ==
    group # Null /\ \E i \in DOMAIN group.chain :
        group.chain[i].kind = "by_cosine_similarity" /\ group.chain[i].threshold = 0
=============================================================================
