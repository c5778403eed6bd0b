--------------------------- MODULE AgentSettings ---------------------------
(***************************************************************************)
(* One user's agent configuration: the agent_settings row that the         *)
(* /settings/agent handlers of src/src/api/v1/agent/router.py write, the   *)
(* resolution every chat makes of it, and the process-wide cache of agents *)
(* in src/src/agent/executor.py.  A stored value is named after the save   *)
(* that brought it, so that values of two saves can be told apart.         *)
(***************************************************************************)
EXTENDS Naturals, FiniteSets, SequencesExt

CONSTANTS
    Saves,      \* PUT requests, each made once
    Requests,   \* DELETE and chat requests, each made once
    Providers,  \* provider names in use
    Overrides,  \* model names a chat may ask for
    Null,       \* SQL NULL, None in Python
    Blank,      \* the empty model name
    MaxCached   \* _MAX_CACHED_AGENTS

Compatible == "openai_compatible"
Supported == {"openai", "openrouter", "anthropic", "google", Compatible}

ASSUME NullAssumption == /\ Null # Blank
                         /\ {Null, Blank} \cap (Saves \cup Overrides) = {}
                         /\ Null \notin Providers \cup Supported
ASSUME CacheAssumption == MaxCached \in Nat \ {0}

DefaultModel == "local-model"

NoLLM == [provider |-> Null, model |-> Null, key |-> Null, url |-> Null]
NoRow == [llm |-> NoLLM, search |-> Null, updated |-> 0]
Fresh == [op |-> "new", scope |-> "none", copy |-> NoRow,
          call |-> NoLLM, agent |-> NoLLM]

VARIABLES
    row,        \* the user's agent_settings row, or NoRow
    clock,      \* writes to the row so far: now() of the latest
    todo,       \* saves still to come
    saved,      \* the llm part each save carried
    req,        \* each DELETE or chat request
    cache,      \* _agent_cache, least recently used first
    used        \* ghost: the cache keys asked for, in order

vars == <<row, clock, todo, saved, req, cache, used>>

Exists == row # NoRow

Init ==
    /\ row = NoRow
    /\ clock = 0
    /\ todo = Saves
    /\ saved = [s \in Saves |-> NoLLM]
    /\ req = [r \in Requests |-> Fresh]
    /\ cache = <<>>
    /\ used = <<>>

-----------------------------------------------------------------------------
(* The settings handlers. *)

\* What the validator of LLMConfigIn lets through.
ValidLLM(s) ==
    {c \in [provider : Providers, model : {s, Blank}, key : {s, Null}, url : {s, Null}] :
        IF c.provider = Compatible THEN c.url = s ELSE c.model = s /\ c.key = s}

\* Mutant: a field the request leaves out keeps its stored value.
MergeLLM(llm) == [f \in DOMAIN llm |-> IF llm[f] = Null THEN row.llm[f] ELSE llm[f]]

\* A given llm part replaces all four columns; NoLLM is a request without it.
NewLLM(llm) == IF llm = NoLLM THEN row.llm ELSE llm

\* One INSERT ... ON CONFLICT DO UPDATE of the parts given.  The conflict
\* branch sets those columns only: updated_at keeps its value.
SetAgentSettings(s, llm, search) ==
    /\ s \in todo
    /\ llm # NoLLM \/ search
    /\ clock' = clock + 1
    /\ row' = [llm |-> NewLLM(llm),
               search |-> IF search THEN s ELSE row.search,
               updated |-> IF Exists THEN row.updated ELSE clock + 1]
    /\ todo' = todo \ {s}
    /\ saved' = [saved EXCEPT ![s] = llm]
    /\ UNCHANGED <<req, cache, used>>

Step(r, new) == req' = [req EXCEPT ![r] = new]

ReadForClear(r, scope) ==
    /\ req[r].op = "new"
    /\ Step(r, [Fresh EXCEPT !.op = IF Exists THEN "clear" ELSE "done",
                             !.scope = scope, !.copy = row])
    /\ UNCHANGED <<row, clock, todo, saved, cache, used>>

\* Mutant: the whole row is written back, as it was read.
WriteBack(copy, scope) ==
    [row EXCEPT
        !.llm = IF scope = "llm" THEN NoLLM ELSE copy.llm,
        !.search = IF scope = "search" THEN Null ELSE copy.search,
        !.updated = clock + 1]

\* The ORM writes the columns that were not null when they were read.
NullOut(copy, scope) ==
    [row EXCEPT
        !.llm = IF scope # "llm" THEN @
                ELSE [f \in DOMAIN @ |-> IF copy.llm[f] # Null THEN Null ELSE @[f]],
        !.search = IF scope # "search" \/ copy.search = Null THEN @ ELSE Null,
        !.updated = clock + 1]

Dirty(copy, scope) ==
    \/ scope = "llm" /\ copy.llm # NoLLM
    \/ scope = "search" /\ copy.search # Null

\* DELETE of a row that is gone has no effect, UPDATE of one raises, and an
\* object without changes is not written.
CommitClear(r) ==
    LET copy == req[r].copy
        scope == req[r].scope
    IN
    /\ req[r].op = "clear"
    /\ IF Exists /\ (scope = "all" \/ Dirty(copy, scope))
         THEN /\ row' = IF scope = "all" THEN NoRow ELSE NullOut(copy, scope)
              /\ clock' = clock + 1
         ELSE UNCHANGED <<row, clock>>
    /\ Step(r, [req[r] EXCEPT !.op = "done"])
    /\ UNCHANGED <<todo, saved, cache, used>>

-----------------------------------------------------------------------------
(* A chat's use of the settings. *)

Or(override, stored) == IF override = Null THEN stored ELSE override

Model(provider, model) ==
    IF provider = Compatible /\ model \in {Null, Blank} THEN DefaultModel ELSE model

\* Key and URL are reused only when the call stays with the saved provider.
Resolved(p, m) ==
    LET provider == Or(p, row.llm.provider)
        same == Exists /\ row.llm.provider = provider
    IN [provider |-> provider,
        model |-> Model(provider, Or(m, row.llm.model)),
        key |-> IF same THEN row.llm.key ELSE Null,
        url |-> IF same THEN row.llm.url ELSE Null]

Configured(c) ==
    IF c.provider = Compatible THEN c.url # Null
    ELSE /\ c.provider # Null
         /\ c.model \notin {Null, Blank}
         /\ c.key # Null

\* _resolve_agent_settings: 422 unless configured.
Resolve(r, p, m) ==
    /\ req[r].op = "new"
    /\ Step(r, IF Configured(Resolved(p, m))
                 THEN [Fresh EXCEPT !.op = "resolved", !.call = Resolved(p, m)]
                 ELSE [Fresh EXCEPT !.op = "done"])
    /\ UNCHANGED <<row, clock, todo, saved, cache, used>>

\* Mutant: the cache is keyed without the secrets.
KeyWithoutSecrets(c) == [c EXCEPT !.key = Null, !.url = Null]

CacheKey(c) == c

Cached(k) == \E i \in 1..Len(cache) : cache[i].key = k
Place(k) == CHOOSE i \in 1..Len(cache) : cache[i].key = k
Entry(k) == cache[Place(k)]

\* move_to_end
Touch(k) == Append(RemoveAt(cache, Place(k)), Entry(k))

\* Mutant: popitem() drops the entry that was just added.
AddAndPop(e) ==
    LET grown == Append(cache, e) IN
    IF Len(grown) > MaxCached THEN Front(grown) ELSE grown

\* Insertion; one too many drops the entry used least recently.
Add(e) ==
    LET grown == Append(cache, e) IN
    IF Len(grown) > MaxCached THEN Tail(grown) ELSE grown

\* get_agent does not await: one step.  An unsupported provider raises.
GetAgent(r) ==
    LET c == req[r].call
        k == CacheKey(c)
        new == [key |-> k, agent |-> c]
    IN
    /\ req[r].op = "resolved"
    /\ IF Cached(k) \/ c.provider \in Supported
         THEN /\ cache' = IF Cached(k) THEN Touch(k) ELSE Add(new)
              /\ used' = Append(used, k)
              /\ Step(r, [req[r] EXCEPT
                            !.op = "served",
                            !.agent = IF Cached(k) THEN Entry(k).agent ELSE c])
         ELSE Step(r, [req[r] EXCEPT !.op = "done"]) /\ UNCHANGED <<cache, used>>
    /\ UNCHANGED <<row, clock, todo, saved>>

-----------------------------------------------------------------------------
Scopes == {"all", "llm", "search"}

Next ==
    \/ \E s \in Saves : \E llm \in ValidLLM(s) \cup {NoLLM}, search \in BOOLEAN :
           SetAgentSettings(s, llm, search)
    \/ \E r \in Requests :
         \/ \E scope \in Scopes : ReadForClear(r, scope)
         \/ CommitClear(r)
         \/ \E p \in Providers \cup {Null}, m \in Overrides \cup {Null} : Resolve(r, p, m)
         \/ GetAgent(r)

Spec == Init /\ [][Next]_vars

-----------------------------------------------------------------------------
(* Properties. *)

Values == Saves \cup {Null}
LLMs == [provider : Providers \cup {Null}, model : Values \cup {Blank}, key : Values, url : Values]
Calls == [provider : Providers \cup {Null},
          model : Values \cup Overrides \cup {DefaultModel}, key : Values, url : Values]
Rows == [llm : LLMs, search : Values, updated : Nat]

\* Every variable has its type; a chat is never resolved to an empty model name.
TypeOK ==
    /\ row \in Rows
    /\ clock \in Nat
    /\ todo \subseteq Saves
    /\ saved \in [Saves -> LLMs]
    /\ req \in [Requests -> [op : {"new", "clear", "resolved", "served", "done"},
                             scope : Scopes \cup {"none"}, copy : Rows,
                             call : Calls, agent : Calls]]
    /\ cache \in Seq([key : Calls, agent : Calls])
    /\ used \in Seq(Calls)

\* However saves and partial clears overlap, even where they leave a row with
\* half of an llm configuration, no chat runs with a key or an endpoint saved
\* for another provider, or with the key of one save at the endpoint of another.
NoBorrowedKey ==
    \A r \in Requests :
        LET c == req[r].call IN
        /\ \A f \in {"key", "url"} : c[f] # Null => saved[c[f]].provider = c.provider
        /\ c.key # Null /\ c.url # Null => c.key = c.url

\* The agent a chat is served with was built for exactly the settings it
\* resolved, whatever was cached by earlier settings of the same provider.
ServesOwnSettings ==
    \A r \in Requests : req[r].op = "served" => req[r].agent = req[r].call

LastUse(k) == CHOOSE i \in 1..Len(used) :
    used[i] = k /\ \A n \in i + 1..Len(used) : used[n] # k
UsedAfter(k) == {used[n] : n \in LastUse(k) + 1..Len(used)}

\* The cache holds exactly the MaxCached keys used most recently, each once, in
\* the order of their last use.
CacheIsRecent ==
    LET keys == {cache[i].key : i \in 1..Len(cache)} IN
    /\ Cardinality(keys) = Len(cache)
    /\ keys = {k \in {used[i] : i \in 1..Len(used)} : Cardinality(UsedAfter(k)) < MaxCached}
    /\ \A m, n \in DOMAIN cache : m < n => LastUse(cache[m].key) < LastUse(cache[n].key)

\* Clearing one half of the settings leaves the other half as it is now, not
\* as the request had read it.
ClearStaysInScope ==
    [][\A r \in Requests :
           /\ req[r].op = "clear" /\ req'[r].op = "done"
           => /\ req[r].scope = "llm" => row'.search = row.search
              /\ req[r].scope = "search" => row'.llm = row.llm]_vars

=============================================================================
