------------------------------ MODULE Templates ------------------------------
(***************************************************************************)
(* One user's crawl templates and provider keys                            *)
(* (src/src/api/v1/settings/router.py), and the crawls started from them   *)
(* or by the agent, up to the settings their run gives the engine.  A      *)
(* handler reads, then commits, and does not see what others commit in     *)
(* between.  A template, a key and a crawl are named after the request     *)
(* that made them.                                                         *)
(***************************************************************************)
EXTENDS CrawlConfig

CONSTANTS
    Requests,   \* HTTP requests, each made once
    Names,      \* template names
    Providers,
    Bodies,     \* settings a client sends: records with some of the fields
    Filters,    \* filter groups a client sends, or Null
    ToolArgs,   \* arguments the model gives create_crawl
    Modes,      \* crawl modes in use
    Urls        \* target URLs: [scheme, nested, host]

\* What crawls are asked for with: a client's body, or the agent's.
AllBodies == Bodies \cup {AgentBody(args) : args \in ToolArgs}
Keywords == Seq(Words \cup {"/"})

ASSUME NullAssumption == /\ Null \notin Requests \cup Names \cup Providers
                         /\ Null \notin Seq(Seq(Words \cup {"/", "*"})) \cup Groups
                         /\ Null # DefaultBehavior
\* The types of the schemas.  A client's keywords hold no wildcard.
ASSUME BodyAssumption ==
    /\ \A body \in AllBodies :
         /\ "human" \in DOMAIN body => body.human \in BOOLEAN
         /\ "genai" \in DOMAIN body => body.genai = Null \/ body.genai.provider \in Providers
    /\ \A body \in Bodies : \A f \in {"include", "exclude"} \cap DOMAIN body :
         body[f] \in Seq(Keywords) \cup {Null}
    /\ Filters \subseteq Groups \cup {Null}
    /\ "*" \notin Words

VARIABLES
    templates,  \* id -> row or Null
    keys,       \* provider_api_keys: provider -> api_key or Null
    req,        \* each request
    jobs,       \* id -> crawl or Null
    gone        \* ghost: templates deleted

vars == <<templates, keys, req, jobs, gone>>

Idle == [op |-> "new"]
Done == [op |-> "done"]
Stored == {t \in Requests : templates[t] # Null}

Init ==
    /\ templates = [t \in Requests |-> Null]
    /\ keys = [p \in Providers |-> Null]
    /\ req = [r \in Requests |-> Idle]
    /\ jobs = [r \in Requests |-> Null]
    /\ gone = {}

Step(r, new) == req' = [req EXCEPT ![r] = new]

\* A write of template t overtakes the requests that have read it.
Overtake(r, t) ==
    req' = [q \in Requests |->
              IF q = r THEN Done
              ELSE IF req[q].op = "update" /\ req[q].template = t
                THEN [req[q] EXCEPT !.alone = FALSE]
              ELSE req[q]]

-----------------------------------------------------------------------------
(* Templates. *)

\* sent and alone are ghosts: the last save, and that nothing overlapped it.
Row(name, body, filters, alone) ==
    [name |-> name, settings |-> Filled(body), filters |-> filters,
     sent |-> [name |-> name, body |-> body, filters |-> filters], alone |-> alone]

\* The constraint on (user_id, name); the handlers answer 409.
Free(t, name) == \A u \in Stored \ {t} : templates[u].name # name

CreateTemplate(r, name, body, filters) ==
    /\ req[r] = Idle
    /\ templates' = IF Free(r, name)
                      THEN [templates EXCEPT ![r] = Row(name, body, filters, TRUE)]
                      ELSE templates
    /\ Step(r, Done)
    /\ UNCHANGED <<keys, jobs, gone>>

ReadForUpdate(r, t, name, body, filters) ==
    /\ req[r] = Idle
    /\ Step(r, IF t \in Stored
                 THEN [op |-> "update", template |-> t, copy |-> templates[t], alone |-> TRUE,
                       new |-> Row(name, body, filters, TRUE)]
                 ELSE Done)
    /\ UNCHANGED <<templates, keys, jobs, gone>>

\* Mutant: filters left out of the request stay.
KeepFilters(row, copy, new) ==
    [row EXCEPT !.name = new.name, !.settings = new.settings,
                !.filters = IF new.filters = Null THEN @ ELSE new.filters, !.sent = new.sent]

\* The UPDATE has the columns that differ from the copy.
Changed(row, copy, new) ==
    [f \in DOMAIN row |->
        IF f \in {"name", "settings", "filters"} /\ copy[f] = new[f] THEN row[f] ELSE new[f]]

\* An UPDATE that meets no row raises.
Updated(r) ==
    LET t == req[r].template IN
    [templates EXCEPT ![t] = IF t \in Stored
                               THEN [Changed(@, req[r].copy, req[r].new) EXCEPT !.alone = req[r].alone]
                               ELSE Null]

CommitUpdate(r) ==
    LET t == req[r].template IN
    /\ req[r].op = "update"
    /\ IF req[r].copy.name = req[r].new.name \/ Free(t, req[r].new.name)
         THEN templates' = Updated(r) /\ Overtake(r, t)
         ELSE Step(r, Done) /\ UNCHANGED templates
    /\ UNCHANGED <<keys, jobs, gone>>

ReadForDelete(r, t) ==
    /\ req[r] = Idle
    /\ Step(r, IF t \in Stored THEN [op |-> "delete", template |-> t] ELSE Done)
    /\ UNCHANGED <<templates, keys, jobs, gone>>

CommitDelete(r) ==
    /\ req[r].op = "delete"
    /\ templates' = [templates EXCEPT ![req[r].template] = Null]
    /\ gone' = gone \cup {req[r].template}
    /\ Step(r, Done)
    /\ UNCHANGED <<keys, jobs>>

-----------------------------------------------------------------------------
(* Provider keys. *)

ReadKey(r, op, p) ==
    /\ req[r] = Idle
    /\ Step(r, [op |-> op, provider |-> p, found |-> keys[p] # Null])
    /\ UNCHANGED <<templates, keys, jobs, gone>>

\* Mutant: an upsert, whatever was found.
Upserted(r) == [keys EXCEPT ![req[r].provider] = r]

\* An INSERT that meets a row raises, and so does an UPDATE that meets none.
WrittenKey(r) ==
    LET p == req[r].provider IN
    IF req[r].found = (keys[p] # Null) THEN [keys EXCEPT ![p] = r] ELSE keys

CommitSetKey(r) ==
    /\ req[r].op = "set"
    /\ keys' = WrittenKey(r)
    /\ Step(r, Done)
    /\ UNCHANGED <<templates, jobs, gone>>

\* Nothing is deleted unless a key was found; a DELETE may meet no row.
CommitClearKey(r) ==
    /\ req[r].op = "clear"
    /\ keys' = IF req[r].found THEN [keys EXCEPT ![req[r].provider] = Null] ELSE keys
    /\ Step(r, Done)
    /\ UNCHANGED <<templates, jobs, gone>>

-----------------------------------------------------------------------------
(* Crawls. *)

\* sent and alone are ghosts, as in a template.
Job(url, mode, settings, filters, sent, alone, agent) ==
    [url |-> Normalized(url), mode |-> mode, settings |-> settings, filters |-> filters,
     sent |-> sent, alone |-> alone, agent |-> agent, engine |-> Null]

\* Mutant: the patterns are expanded when they are stored, and again by the worker.
Expanded(url, mode, row) ==
    Job(url, mode, [row.settings EXCEPT !.include = ToLinkPatterns(@)], row.filters,
        row.sent, row.alone, FALSE)

\* The UI posts what it has read from the template.
FromTemplate(url, mode, row) ==
    Job(url, mode, Filled(row.settings), row.filters, row.sent, row.alone, FALSE)

FromAgent(url, mode, args) ==
    LET body == AgentBody(args) IN
    Job(url, mode, Filled(body), Null, [name |-> Null, body |-> body, filters |-> Null], TRUE, TRUE)

\* create_crawl stores a valid request; CrawlJobs has what follows.
CreateCrawl(r, job) ==
    /\ req[r] = Idle
    /\ IF Navigable(job.url)
         THEN jobs' = [jobs EXCEPT ![r] = job] /\ Step(r, [op |-> "crawl"])
         ELSE Step(r, Done) /\ UNCHANGED jobs
    /\ UNCHANGED <<templates, keys, gone>>

\* Only the crawler engine is given the filters.
EngineFilters(job) == IF job.mode = "crawler" THEN BuildFilterChain(job.filters) ELSE Null

\* The worker builds what it gives the engine when it picks the job up.
RunCrawl(r) ==
    /\ req[r].op = "crawl"
    /\ jobs' = [jobs EXCEPT ![r].engine =
                  [settings |-> BuildSettings(Filled(jobs[r].settings), keys),
                   filters |-> EngineFilters(jobs[r])]]
    /\ Step(r, Done)
    /\ UNCHANGED <<templates, keys, gone>>

Next ==
    \E r \in Requests :
      \/ \E name \in Names, body \in Bodies, filters \in Filters :
           \/ CreateTemplate(r, name, body, filters)
           \/ \E t \in Requests : ReadForUpdate(r, t, name, body, filters)
      \/ \E t \in Requests : ReadForDelete(r, t)
      \/ \E p \in Providers, op \in {"set", "clear"} : ReadKey(r, op, p)
      \/ \E url \in Urls, mode \in Modes :
           \/ \E t \in Stored : CreateCrawl(r, FromTemplate(url, mode, templates[t]))
           \/ \E args \in ToolArgs : CreateCrawl(r, FromAgent(url, mode, args))
      \/ CommitUpdate(r) \/ CommitDelete(r) \/ CommitSetKey(r) \/ CommitClearKey(r)
      \/ RunCrawl(r)

Spec == Init /\ [][Next]_vars

-----------------------------------------------------------------------------
(* Properties. *)

Started == {r \in Requests : jobs[r] # Null}
Built == {r \in Started : jobs[r].engine # Null}

\* Every variable has its type.
TypeOK ==
    /\ \A t \in Stored : /\ templates[t].name \in Names
                         /\ DOMAIN templates[t].settings = DOMAIN Defaults
                         /\ templates[t].filters \in Filters
    /\ keys \in [Providers -> Requests \cup {Null}]
    /\ DOMAIN req = Requests
    /\ \A r \in Started : DOMAIN jobs[r].settings = DOMAIN Defaults
    /\ gone \subseteq Requests

\* A template is what one save sent, unless that save overlapped another: then
\* it may hold one's settings and the other's filters.
TemplateIsOneSave ==
    \A t \in Stored :
        LET row == templates[t] IN
        row.alone => /\ row.name = row.sent.name
                     /\ row.settings = Filled(row.sent.body)
                     /\ row.filters = row.sent.filters

Given(body, f) == IF f \in DOMAIN body THEN body[f] ELSE Defaults[f]

\* Through template, job and worker, which each complete and store the settings
\* again, a crawl made of one save asks of the engine what the client sent: its
\* limit, its human behavior, and pages of the sections it named and did not
\* exclude (the agent's are GlobsReachEngine's matter).  In crawler mode the
\* engine's chain lets the pages pass that meet the filters sent.  Not in this
\* property: filters that ask for a similarity of zero, which the builder takes
\* for none given (settings_builder.py:156), and filters in another mode, which
\* the worker drops without a word though README.md:160 says that they narrow
\* which pages get scraped.
EngineMeetsBody ==
    \A r \in {q \in Built : jobs[q].alone} :
        LET job == jobs[r]
            engine == job.engine
            body == job.sent.body
        IN
        /\ engine.settings.limit = Given(body, "limit")
        /\ (engine.settings.behavior # Null) = Given(body, "human")
        /\ ~job.agent =>
             \A path \in Paths :
                 Visits(engine.settings, path) <=>
                    Wanted(Given(body, "include"), path) /\ ~Unwanted(Given(body, "exclude"), path)
        /\ job.mode = "crawler" /\ ~AsksForZero(job.sent.filters) =>
             \A page \in Pages :
                 Passes(engine.filters, page) <=> MeetsGroup(job.sent.filters, page)

\* What was deleted does not come back through a save that had read it.
DeletedStaysDeleted ==
    [][/\ \A t \in gone : templates'[t] = Null
       /\ \A r \in Requests :
            req[r].op = "set" /\ req[r].found /\ keys[req[r].provider] = Null /\ req'[r] = Done
            => keys'[req[r].provider] = Null]_vars

\* create_crawl's docstring: include_link_patterns are globs, matched against
\* the whole path; "*/articles/*" matches any path with that segment.
GlobsReachEngine ==
    \A r \in Built : jobs[r].agent =>
        LET globs == Given(jobs[r].sent.body, "include") IN
        \A path \in Paths : Admits(jobs[r].engine.settings.include, path) <=> Admits(globs, path)
=============================================================================
