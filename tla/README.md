# A TLA+ model of onecrawler-backend

This directory specifies the parts of the backend whose correctness depends on
order, overlap and failure: the life of a crawl job between the API, the queue
and the worker; what a crawl's settings become on the way; what the reading
handlers show meanwhile; the agent's conversations, event stream, settings and
tool calls; and accounts with their sessions. TLC checks the specifications on
small instances; TLAPS proves the safety of every one of them for every instance.
Paths below are relative to the repository root, `src/` of this project.

## 1. The system

FastAPI serves the HTTP API from one asyncio process over PostgreSQL
(SQLAlchemy's async sessions, READ COMMITTED, `expire_on_commit=False`); an arq
worker, started separately, takes crawl jobs from a Redis queue and runs the
`onecrawler` engine. The two processes share the database and the queue and
nothing else. An agent built on `deepharness` runs inside the API process and
acts through the same HTTP API, as the user who is chatting.

| part | state it keeps | operations | talks to |
|---|---|---|---|
| Crawl API `src/api/v1/crawler/router.py` | none of its own; rows of `crawl_jobs`, `discovered_urls`, `crawl_result_items` | create, scrape discovered, retry, cancel, delete, delete a discovered URL; lists, details, downloads, logs | database; `enqueue_job` on the arq pool |
| Crawl worker `src/worker/tasks.py`, `src/worker/settings.py` | one in-memory `CrawlJob` and one session per run | `run_crawl_job` in the modes sitemap, link extraction (shallow, deep), crawler, scraper | database, engine |
| Job queue (arq on Redis) `src/core/pool.py` | an entry per job id, how often it was started | enqueue, start, finish, redeliver after a restart, give up after `max_tries` | worker |
| Settings builder `src/worker/settings_builder.py` | none | request JSON to engine settings: link patterns, filter chain | worker |
| Chat endpoints `src/api/v1/agent/router.py`, `helper.py` | `conversations`, `chat_messages`; a queue and a task per streamed response | chat, chat stream, list, read and delete conversations | database, agent |
| Agent settings, same router, `schema.py`, `src/agent/llm.py` | one `agent_settings` row per user | get, put (upsert), clear all or half; resolution at every chat | database |
| Agent cache `src/agent/executor.py` | process-wide LRU of built agents | `get_agent` | |
| Agent tools `src/agent/tools.py`, `core/client.py` | events put on a response's queue | one HTTP request to this API per tool | API, and through it the connection pool of `src/db/pg.py` |
| Accounts `src/api/users/`, `src/core/sessions.py`, `security.py` | `users`, `refresh_sessions`; a blocklist of access tokens in Redis | register, log in, refresh, log out, list and revoke sessions, change of name, email, password; seeding of the default account at a start | database, Redis |
| Templates and provider keys `src/api/v1/settings/router.py` | `crawl_templates`, `provider_api_keys`, unique names | create, update, delete; set and clear a key | database; the worker reads the keys |
| Data and dashboard `src/api/v1/data/router.py`, `dashboard/router.py` | none | lists, exports, overview and usage, several statements each | database |

### Where it is hard, and what makes each part correct

*Crawl jobs.* A handler reads a row, tests it, and commits in a later await;
the worker loads the same row once and writes through that copy for minutes.
No row is locked in between and no write is conditioned on what was read. arq
runs an entry again after a restart, from the start; `job_timeout` and a failed
flush end a run without a verdict; a request may die between its commit and its
enqueue. Correct means: the counters agree with the rows; a verdict is about
what the job holds; an active job has a run to come; a cancel takes effect
within a page; nothing is written into a job that is gone; every active job
settles.

*Conversations.* Turns of one conversation overlap. The history is read before
the run and the turn recorded after it, and the time of a row is the start of a
transaction, not of its commit. Correct means: a turn is stored whole or not at
all; the sidebar agrees with the messages; the agent is given every earlier
turn, whole and in order.

*Event stream.* A task, the tools inside it, and the generator share a queue,
and the client may leave at any await. Correct means: the client sees the run as
it happened and is told done only when the turn is recorded; the response always
ends and leaves no run behind.

*Agent settings and cache.* Saves, clears that read before they write, and chats
overlap; agents outlive the settings they were built from. Correct means: no
chat runs with a key or endpoint of another provider or save; a chat is served
by an agent built from exactly its settings; a clear stays in its scope.

*Tool calls.* A chat waits, with a database connection in hand, for tools that are
requests to the same process and need another one. Client and pool give up after
30 seconds each, the handler does not. Correct means: the agent is told the truth
about what it did, as far as it is told anything, and the process recovers from any
pile-up.

*Accounts.* Every handler reads and then commits, tokens outlive the rows they were
issued from, and expiry is compared in seconds here and in milliseconds there.
Correct means: an email names one account; a login is one line of sessions with one
live end, which its user can see; ending a session or changing the password ends the
line; a signed-out token stays out. For requests in flight at the same time the code
does not keep all of that (section 3).

*Templates, keys and settings.* A body is completed and stored three times, by a
template, by a job and by the worker, which then rewrites it for the engine; saves
overlap. Correct means: the engine is asked for what the client sent; a row is one save, not
two halves, unless two overlapped; what was deleted stays deleted.

*Reads.* An answer is made up of statements with a snapshot each, while rows come and
go. Correct means: totals, pages, histories and counters that are shown together
agree, as far as no row was removed in between.

The hazards in `PROJECT.json` list these, each at its line.

## 2. Modules

| module | what it is |
|---|---|
| `CrawlJobs` | API handlers, arq queue and worker over the rows of a job, composed in one specification because they meet in the same row |
| `JobView` | abstract: what a client that polls a job may see. `CrawlJobs` implements it |
| `CrawlJobsProofs` | the inductive invariant, the safety theorems and the refinement theorem |
| `ChatTurns` | overlapping turns over the conversation tables |
| `ChatTurnsProofs` | its inductive invariant and safety theorems |
| `ChatStream` | one streamed response |
| `StreamView` | abstract: what the client of a streamed response may see. `ChatStream` implements it |
| `ChatStreamProofs` | the inductive invariant, the safety theorems and the refinement theorem |
| `AgentSettings` | the settings row, its handlers, resolution, and the agent cache |
| `AgentSettingsProofs` | its inductive invariant and safety theorems |
| `ToolCalls` | chats, the client and the handler of each tool call, and the connection pool they share: the composition of agent and API |
| `ToolCallsProofs` | its inductive invariant and safety theorems |
| `Accounts` | users, refresh sessions, blocklist, restarts and time |
| `AccountsProofs` | its inductive invariant and safety theorems |
| `CrawlConfig` | pure: schema defaults, URL validator, tool bodies, link patterns, engine settings, filter groups and their reference meaning |
| `Templates` | templates and keys under overlapping saves, composed with `CrawlConfig`: from a body through a template and a job to the engine |
| `TemplatesProofs` | its inductive invariant and safety theorems, and what link patterns and filters mean |
| `CrawlReads` | the reading handlers, statement by statement, against the commits of the writers |
| `CrawlReadsProofs` | its inductive invariant and safety theorems, with lemmas on sums, orders and pages |
| `MC*` | instances for TLC: names of model values and symmetry sets |

Properties stand at the end of each module, after the actions. A definition
marked *Mutant* is the neighbouring definition with a plausible bug; no
specification uses it, and each exists to show that a property can fail.

### CrawlJobs

State: `status`, `mode`, `disc`, `scraped` are columns of `crawl_jobs`; `found`
is the set of `discovered_urls`, each named by the count at which it was
inserted; `items` counts `crawl_result_items`; `arq`, `tries` are the queue
entry; `pc`, `mem`, `locked` are a run's place, its loaded copy and whether its
open transaction holds the row lock; `req` is the request a client has open.
`late` and `lost` are ghosts: pages committed since a cancel, and jobs a fault
left active.

Handlers with a read and a later commit are two actions (`ReadForCancel` /
`CommitCancel`, and so on), creating is three (`CreateCrawl` or `InsertCopy`,
`Refresh`, `Enqueue`). The worker has one action for each transaction or for
each decision that reads the row: `SkipJob` / `LoadJob`, `StartRun`,
`BuildSettings` / `RejectSettings`, `OpenEngine`, then `CheckCancelled` and
`RecordPage` per page until `EndOfStream`, and `SettleRun`, `FailRun` or
`RunDies`, then `EndRun`. The five modes differ in three ways that the model
keeps: shallow link extraction commits its pages as one batch and holds the row
lock once `is_cancelled` has autoflushed them; crawler and scraper also store
result items; sitemap and shallow run nothing that may raise between the engine's
opening and its end. The environment may interrupt a run (arq redelivers), time
it out, reject a flush, or drop a request.

The ORM writes a column only when its value differs from the loaded one, so
`StartRun` of a job loaded as running leaves the status alone, and every write is
an UPDATE by primary key of the row *as it is now*.

Abstracted: timestamps, error texts (a rerun keeps an earlier `job.error`), log
rows, users, URL strings, and arq's one-day expiry of an entry.

### ChatTurns

One user: every row and every statement of these handlers is of one user, and no
property relates two. A turn is one request, named by its human message. `Open` is
`get_current_user`, whose SELECT begins the transaction; `now()` is that
transaction's start until it ends, so `clock` ticks at `Open`. `ReadHistory`
returns rows ordered by `created_at` with ties in any order. `Record` is the
upsert and the two inserts of `_record_turn` in one commit. A streamed turn may
find the dependency's session closed before its body runs, depending on the
FastAPI version, and then begins a new transaction: both outcomes are allowed.
Message ids are given in the order of recording; within a conversation the
upsert's row lock makes that so. `before` is a ghost: the turns recorded when a
request came in.

### ChatStream

What `deepharness` does next (a text delta, a tool call, an end) is free within
`MaxPuts` and `MaxCalls`; what the code puts on the queue for it, and what the
generator makes of the queue, follows the source. Assumed of deepharness: a run
ends with `Finished` or an `Exception`, and waits for its tool calls first. The
generator is at one of its awaits or yields in each state; a client that leaves
cancels it there, and its `finally` cancels the task. A commit under way when
the generator is cancelled, or when the connection breaks, may or may not have
taken effect.

`StreamView` knows no task, queue or commit: events appear one by one, a call is
shown once and its outcome once, the turn is saved when every call shown is settled,
one verdict ends the events, and only a client that leaves goes without. `ChatStream`
maps `Stage`, the generator's place as far as the client can tell, and `recorded`
to its state.

### AgentSettings

One user's row; the agents in the cache are those of that user. A stored value is
named after the save that brought it, so that values of two
saves can be told apart. `SetAgentSettings` is one upsert statement. A clear is
a read and a commit that nulls only the columns that were not null when read,
as the ORM does. `Resolve` is `_resolve_agent_settings`, `GetAgent` is
`get_agent`, one step because it does not await. The cache key is the whole
resolved call. Empty keys and URLs count as absent, as the code's truth tests
treat them; an empty model name is kept apart (`Blank`) because it is stored and
then replaced by `DEFAULT_LOCAL_MODEL`. The model has `updated_at` too: an upsert
that meets a row leaves it as it is (`router.py:381`), unlike a clear.

### ToolCalls

`chat` is a chat request's place, `caller` the chat that made each call, `request` the
server's side of the call, `told` what the agent was told of it, and `held` the set of
those who hold a connection. A chat may have several calls under way, as the toolbox
runs those of one model turn at the same time. A call's two sides are separate:
`ClientTimeout` ends the client's, and the handler goes on. Tools are told apart by
what their endpoint does. *create* stands for create, scrape and retry: one commit, a
`db.refresh` that takes a connection anew, then an enqueue. *cancel* does the same
without the enqueue, or finds the job inactive and answers 200 without a commit
(`CancelInactive`). *delete* commits and answers 204 with an empty body. *read* answers
JSON. *export* answers an archive, which `response.json()` cannot read: the agent gets
an error (`garbled`) for an export that worked, although `tools.py:278` promises an
identifier. A commit may fail (`CommitFails`), and so may what follows it (`Finish`,
`NoConnection`): 500 either way, with or without the change. A streamed chat may run
without a connection, depending on the FastAPI version (see ChatTurns); both outcomes
are allowed. The pool
is external: `PoolSize` stands for size and overflow, and its timeout fires for a
request that finds no connection. Requests of other clients are left out: they hold
a connection for their own work only and add nothing to who waits for whom.

### Accounts

A request reads in one action and commits in another; what it has in hand is its
`req`. Whoever opens a session gives it its name, which stands for the jti, the
refresh token and the access token issued with it. `clock` counts half seconds, so
that times kept in whole seconds (`exp`, the blocklist's lifetime) and in
milliseconds (`expires_at`) differ. `pw` and `clean` of a session and `ended` are
ghosts: the password the line began with; that no ending and no other refresh of the
same token overtook a request of the line; sessions ended on purpose. `Restart` drops the requests in flight and seeds
the default account unless its email is in use. Left out: `is_active`, which nothing
clears, and hashing.

### CrawlConfig and Templates

`CrawlConfig` has one operator for each function on the way of a body: `Filled` for
the schema's defaults, `Normalized` and `Navigable` for the URL, `AgentBody` for the
tools, `ToLinkPatterns`, `HumanBehavior`, `GenAI`, `BuildSettings` and
`BuildFilterChain` for the worker. `Visits`, `Accepts` and `Passes` are the engine's
use of what it is given; `Wanted`, `Unwanted` and `MeetsGroup` say what the client
meant, without reference to the builder. Patterns and paths are sequences of segments
and `*`; `Matches` is `fnmatch`. Fields that are only passed on are left out.
`Templates` stores such bodies and their filters, and `RunCrawl` is what the worker
gives the engine for a job: its settings, and in crawler mode the chain of its
filters. An update is a read and a commit that writes the columns that differ from the
copy, as the ORM does; a key's save inserts or updates by what it found, and raises if the row has
come or gone meanwhile. `sent` and `alone` are ghosts: what the last save sent, and
that no other overlapped it.

### CrawlReads

One reader at a time, one action for each SQL statement, and the writers' commits in
between, reduced to what a reader can see: a row with the counter raised with it, a
status, a deletion. A row and a job are stamped before they are committed
(`crawler/router.py:51`, `tasks.py:161`, `200`, `206`), so `at` is any time: a row may
appear behind or between rows already shown. A job may be deleted once it has been
settled (`ended`), whatever it is by the time of the commit. `unseen` and `since` are
ghosts: what a read has still to show, and what happened since it began. The history of a job is a count for each second in
which something was stored, and `PerSecond` is the number of ticks in one.

## 3. Runs

| run | instance | shows |
|---|---|---|
| `crawl_races` | 1 job in each of 5 modes, 2 requests at once, 2 pages, 2 tries, 2 restarts, 1 fault | counters, verdicts, stranding, overshoot, and the client's view, however the two requests meet the run |
| `crawl_pair` | 2 jobs, 1 slot, 1 request at a time, 1 page, 1 restart | the same with a job copied by retry or scrape; liveness |
| `cancel_lost` | as `crawl_races`, small | **violation**: a cancel between the worker's load and its first commit, or between its last check and its verdict, is overwritten |
| `chat_turns` | 3 turns, 2 conversations, both endpoints | whole turns, the sidebar for turns that do not overlap, the agent's memory |
| `reply_first` | 2 turns | **violation**: a reply may be replayed before its message |
| `chat_stream` | 5 puts, 2 tool calls | faithful events, a truthful done, settled calls, the client's view, nothing after the end, and the end itself |
| `settings_races` | 2 saves, 3 clears or chats, 3 providers, one of them unsupported, a model of the chat's own, a cache of 2 | no borrowed key or endpoint, own settings, the cache keeps the keys used last, clears in scope |
| `tool_calls` | 2 chats, 2 connections, 2 calls | who holds a connection; the agent is told the truth; every chat ends; the pool recovers |
| `accounts` | 4 requests, 2 emails, 2 passwords, 1 restart, 4 half seconds | unique emails, sessions of refreshes that do not overlap in one line, no line outlives a password or an ending, the blocklist, independent columns |
| `crawl_config` | 4 requests, 2 names, 2 providers, 2 bodies, filters, 2 tool arguments, 2 modes | templates of one save, the engine gets what was sent, deletions |
| `glob_patterns` | 2 requests | **violation**: a glob written as the tool's docstring says is wrapped like a keyword |
| `crawl_reads` | a job with 3 rows or 2 jobs with 1, 3 times, pages of 1, 2 overlapping changes, 1 under a walk | whole lists, histories that cover the counters, an overview that adds up |

The violations are described, with the lines they disagree with, under
`findings` in `PROJECT.json`.

### Bounds, and why they are enough

*CrawlJobs.* Two requests at once are what it takes for one to act between the
read and the commit of another; a third adds no new pair. Two pages separate the
first page from a later one, and a batch of one from a batch that has more to
come; with two restarts a run may be interrupted, run again, and use up its tries
(`MaxTries` is 5 in arq: two tells the last from the others). One fault at a time:
faults are rare, and two on the same job only end it sooner. `crawl_pair` has two
jobs because a copy needs a source, and one slot so that they compete for it.
These bounds matter to TLC only: the theorems hold for all of them.

*ChatTurns.* Three turns let one be recorded before, one during and one after
another, and two conversations let turns be apart or together. *ChatStream.* Two
tool calls can overlap; five puts hold both calls, both outcomes and a delta.
*AgentSettings.* Two saves and a clear are the shortest way to a row with halves of
two configurations, and a third request is the chat that meets it. Three chats with
three settings fill a cache of two and evict an agent. A hit that is followed by an
eviction takes four chats, which the run does not have: there the cache's order after
a hit is checked, which decides what goes next. `RecentlyUsed` is proved for any
number of uses and any size.

*ToolCalls.* Two chats that hold both connections and each make a call are the
smallest gridlock; two calls are one of each chat, or two of one at the same time. *Accounts.* Four
requests are a login, a refresh and two that overlap it, or a login and a change
of password around a refresh; an access token lives 2 seconds and a refresh token 1,
so each runs out within `MaxClock`, the row of a refresh token half a second after
the token where the rounding makes it so. *Templates.* Four
requests are a template, two overlapping saves and the crawl made from it, or two
saves of a key around a run. *CrawlReads.* Pages of one row make three rows three
pages, so that a third row can be stored, before, between or behind the other two,
while a client walks through them; three times let all of them differ.
`MaxOverlap` = 2 lets a row come and a job change under one read. Jobs count twice
in `MaxStored`, and the third row is of the same tables as the others (`Alike`):
that keeps the run within minutes, and the theorems need neither.

Runs have `CHECK_DEADLOCK FALSE` because the system may come to rest: all
requests answered, all jobs settled or lost, all turns made.

### Where the code and its documents differ

Beside the findings, the models show orders of events in which the code does not do
what a document or a comment of the repository says. The properties state what the code
does keep, and exempt these cases; their comments say so.

- `docs/apis.md:46` says that a job to delete must not be active. `delete_crawl` tests
  the status it has read (`crawler/router.py:427`): a settled job that a run to come
  has made active since is removed all the same. `JobView.Remove` allows it.
- The comment at `tasks.py:103-106` says that a run which found nothing is not reported
  completed. The counter it tests may be an earlier, interrupted run's: a rerun that
  loads nothing is reported completed. `CompletedHasPages` counts pages of all runs.
- `agent/router.py:133-134` says that conversations are listed most recently active
  first. `updated_at` is the start of the recording transaction, which begins with
  the request: a long turn recorded last sorts below a shorter one that came in later.
  `SidebarMatches` orders only turns that did not overlap.
- `README.md:140` says that a used refresh token is revoked, so that a stolen one stops
  working. Two refreshes with one token that overlap both succeed
  (`refresh/router.py:36`), and the login has two live ends. `OneLine` and
  `EndedIsFinal` exempt them.
- `docs/apis.md:26` and `README.md:140` say that a change of password revokes all
  sessions. A login or refresh that has verified the old password may commit its
  session afterwards. `LiveKnowsPassword` exempts the requests then in flight.
- `README.md:160` says that filters narrow which pages get scraped. Outside crawler mode
  the worker drops them (`tasks.py:88-96`), and a similarity threshold of 0 becomes
  0.25 (`settings_builder.py:156`). `EngineMeetsBody` exempts both.

Other exemptions are of things no document promises: rows of one time may be left out
by a client that pages through them (`ListsAreWhole`); a job created or deleted between
the statements of an overview makes its figures differ (`OverviewAddsUp`); a template
written by two overlapping saves may mix them (`TemplateIsOneSave`); and the ways in
which a job may be left active for ever, a lost enqueue, a failed flush, a job timeout
and used-up tries, are recorded in `lost` and exempted from `NoSilentStranding`.

### Fairness

`CrawlJobs` assumes weak fairness of each job's worker steps: arq polls as long as
the worker is up, and a run is bounded by the engine's URL limits and by
`job_timeout`; and of `Refresh` and `Enqueue`, since an accepted request runs on.
It assumes none for requests, restarts or faults: they may happen or not. Even so a
job may be left active when the queue entry has used up its tries, which `lost`
records; `ActiveSettles` says that nothing else can.

`ChatStream` assumes weak fairness of the driving task and of the generator, which
the event loop both runs, and of the closing of a generator whose client left. A
run's own end is not assumed apart from that: it is bounded because each of its
steps puts an item and the provider and every tool call have HTTP timeouts.

`ToolCalls` assumes weak fairness of a chat's own steps and of its client's, since
timers fire and the agent's step budget ends its run; and of a handler's steps, except
while a writing handler is at work: it may wait for a row lock, and nothing limits
that. `EveryChatEnds` needs the client's timeout for just this case, and
`PoolRecovers` excepts those handlers.

The other specifications state safety only.

## 4. Proofs

Every theorem is about the `Spec` of its module and assumes only what that module
assumes of its constants, so it holds for any number of jobs, clients, pages, turns,
conversations, tool calls and faults, any size of pool, cache and page, any lifetime of
a token and any number of restarts. The assumptions say that parameters are finite,
non-empty or numeric, that ids of different kinds differ and that `Null` is none of
them. Two say more: `BodyAssumption` of `Templates` has bodies typed as the schemas
type them, and a client's keywords without a `*` of their own (the run `glob_patterns`
shows what happens to one that has it); `IdAssumption` of `CrawlReads` has finitely
many ids, since it counts rows.

| module | theorem | proves `Spec =>` |
|---|---|---|
| `CrawlJobsProofs` | `TypeCorrect` | `[]TypeOK` |
| | `CountersAgree` | `[]Accounting` |
| | `CompletedIsHonest` | `[]CompletedHasPages` |
| | `OvershootBounded` | `[]BoundedOvershoot` |
| | `NothingStranded` | `[]NoSilentStranding` |
| | `CancelIsFinal` | `IdleCancelIsFinal` |
| | `Refinement` | `ImplementsView` |
| `ChatStreamProofs` | `FaithfulWire` | `[]WireIsFaithful` |
| | `TruthfulDone` | `[]DoneIsTruthful` |
| | `SettledCalls` | `[]CallsAreSettled` |
| | `SilentAfterClose` | `NothingAfterClose` |
| | `Refinement` | `ImplementsStreamView` |
| `ChatTurnsProofs` | `WholeTurns` | `[]TurnsWhole` |
| | `SidebarAgrees` | `[]SidebarMatches` |
| | `WholeMemory` | `[]ReplaysWholeTurns` |
| | `OrderedMemory` | `[]ReplaysInOrder` |
| `AgentSettingsProofs` | `TypeCorrect` | `[]TypeOK` |
| | `OwnKeys` | `[]NoBorrowedKey` |
| | `OwnAgent` | `[]ServesOwnSettings` |
| | `ScopedClear` | `ClearStaysInScope` |
| | `RecentlyUsed` | `[]CacheIsRecent` |
| `ToolCallsProofs` | `TypeCorrect` | `[]TypeOK` |
| | `TruthTold` | `[]ToldTruth` |
| `AccountsProofs` | `TypeCorrect` | `[]TypeOK`, unique emails included |
| | `SessionsInLine` | `[]OneLine` |
| | `PasswordsKnown` | `[]LiveKnowsPassword` |
| | `BlockingLasts` | `[]BlockedWhileValid` |
| | `EndingsLast` | `EndedIsFinal` |
| | `OneColumn` | `ColumnsIndependent` |
| `TemplatesProofs` | `TypeCorrect` | `[]TypeOK` |
| | `WholeTemplates` | `[]TemplateIsOneSave` |
| | `EngineFaithful` | `[]EngineMeetsBody` |
| | `GoneForGood` | `DeletedStaysDeleted` |
| `CrawlReadsProofs` | `CountersAreRows` | `[]TypeOK` |
| | `PagesLeaveNoGap` | `[]ListsAreWhole` |
| | `HistoriesCoverCounters` | `[]RowsCoverCounters` |
| | `FiguresAddUp` | `[]OverviewAddsUp` |

Each proof module defines an inductive invariant `IInv`, proves that it holds
initially (`InitInv`) and is preserved by each action, one lemma per action
(`NextInv`), and derives the theorems from it.

*Crawl jobs.* None of the properties is inductive. `Accounting`, for one, fails
after a step from a state in which a run's copy of the counters differs from the
row: the run writes its own values. `IInv` adds what makes it hold: a live run
belongs to a running queue entry and its copy agrees with the row, except for the
pages a shallow run has not yet committed; a request of each kind names a job that
has the row it needs; a lock is held only by a shallow run that has flushed; a page
is written after a cancel only by the run that had passed its check. `CancelIsFinal`
is an action property: no step makes a job that is cancelled or deleted, and that no
run has in hand, active again. The refinement maps `pages`, `starts` and `live` to
`disc`, `tries` and a run that may still publish; each action is a step of `JobView`
or leaves the view alone, under `IInv`.

*Event stream.* What the client is sent says nothing of what is still to come, so
`IInv` ties the wire to the queue and to the run: items are numbered as they were
put and the queue holds the latest of them (`Numbered`); while the generator waits,
the end of the run, if it has come, is the last item of the queue, and afterwards the
queue is empty (`Phase`); the wire is the beginning of what was put, and of a client
that has not left it is everything taken (`Delivered`); a turn is recorded only after
an answer (`Honest`); a call that was put is in flight or has its outcome behind it
(`Traced`). `SilentAfterClose` follows because a closed response has no running task.
The refinement needs one more invariant, `Once`, for what the queue will make of the
wire: a call that waits is new to the client, an outcome that waits is its call's only
one and behind it, and a call in flight has none yet. `PutOnce` proves it of what the
run puts, `ForwardOnce` when the head of the queue moves to the wire; then each step of
`ChatStream` is a step of `StreamView` or nothing the client sees (`StepRefines`).

*Conversations.* `IInv` says how dates bear on order: ids count the messages and a
message is dated between its request and now (`Stored`); the turns recorded before a
request came in are older than the request (`Preceding`), which is why reading
`ORDER BY created_at` cannot put them after a later one; what a run was given is still
stored, by date, each message once and with the other one of its turn (`Remembered`),
and contains every turn that preceded its request (`Complete`).

*Agent settings.* A clear may take away either half of a configuration, so that the
row itself need not be what any save left. `OneSave` says what remains true of it: a
key and an endpoint that are both there came with one save, and the provider is that
save's or gone. `OneCall` says the same of what a chat resolved, and every entry of
the cache holds the agent built for its key. `Recent` orders the cache: what was used
after the last use of an entry's key are just the keys behind it, and a used key that is
no longer there has `MaxCached` others used after it. `CacheIsRecent` counts keys in
the history; `Recent` says which they are, and so survives a hit, a miss and an
eviction.

*Tool calls.* `Handled` says of each handler what it has done by the time it is where
it is, and `Told` ties what the agent was told to what the handler answered. Both speak
of one call, so that any number of calls of a chat may be under way. That holders of a
connection are at work is part of `TypeOK`.

*Accounts.* Rows are named after the request that makes them, so a name not yet used
must have no row (`Fresh`). A request in flight was right when it read; `Pending` says
what of that must still be so when it commits, unless an ending has overtaken it
(`clean`): the token it replaces is not retired, the password it verified is current.
`Sound` says of each session that its parent is retired and, while it lives, that its
password is the account's. Two refreshes of one token that do not overlap cannot both
be clean, because the first retires what the second would need. `Blocked` replaces
the clock in `BlockedWhileValid` by the entry's own end, which no tick changes.

*Templates.* A request names what it makes. `Fresh` says that nothing has the name of
a request that is still at work, so a template that a request has read is one already
made (`TargetsMade`), and nothing can take a deleted name again. `UpdatesWhole` says what an update will write,
and that its copy is what is stored unless another save has come between. A job
carries what it was created from to its engine (`CrawlOk`), and what the engine then
does is a matter of operators: `PatternIsSection` shows that a wrapped keyword matches
a path just if the keyword is a section of it, `PatternsMeanWords` that the patterns
made of a body admit the pages of its words and no others, `ChainMeansGroup` that a
chain built of a group passes what meets the group, unless it asks for zero.

*Reads.* What a list selects only grows while nothing is removed (`Grown`), and in the
old order, so what has not been shown can only move back. `ListInv` counts this: every
row not yet shown, if no other has its time, follows at least as many newer ones as the
offset, wherever later ones were stored, which
`FetchPageInv` needs to show that a row the page does not reach has a page more before
it (`PlaceOf`). `DetailInv` and `DownloadInv` compare what a read has with the counters
as they are now, which grow with the rows (`StoreRowEffect`); the sum of a history is
the number of its rows (`SumCounts`), and its last point counts them all
(`LatestIsAll`). `FigureInv` rests on `StatusesCover`: every job has one status, so
that a change of status leaves the sum. All writes are treated together: `Effect` says
what a commit may do to others' reads, each writer has a lemma that it does no more, and
`WriteInv` shows that the invariant survives that.

The theorems of induction over data that come with the library need an operator as a
parameter, which the provers cannot supply. `Least` takes their place: a set of naturals
has a least element, by the well-foundedness of `<`. With it a recursive function is
known once another one that meets the same recursion is written down (`PrefixMatches`
for `Matches`, `SumCounts` for the library's sum): a least argument at which the two
differ contradicts the recursion.

Only model-checked: liveness (`ActiveSettles`, `ResponseEnds`, `EveryChatEnds`,
`PoolRecovers`), which together with ENABLED is beyond the installed prover. Every
invariant and every other action property that a passing run checks is proved; type
invariants without a row in the table are conjuncts of the `IInv` of their module.

## 5. Not modelled

`PROJECT.json` gives a reason per component. Tracing changes no state of the program.
Migrations run once, before it. Most schemas declare the fields of a response. The
pool for arq is opened before the first request and closed after the last. The system
prompt and the layout of exports are text. The engine, arq, Redis, PostgreSQL,
SQLAlchemy's connection pool and deepharness are external; their behaviour is taken
from how this code uses them, and such definitions are marked external.

## 6. Plan

Done: every component that keeps state, with proofs of all its safety properties, and
the two abstract views, of a job and of a streamed response, that the code implements.
