# Formal model of go-web-search

This directory holds TLA+ modules of the parts of the program in which order,
concurrency, time and failure decide whether it works, the TLC instances that
check them, and TLAPS proofs of what holds for every instance. Source lines
refer to the repository's root (`jobs.go:125` is line 125 of that file).

## 1. The system

A Go program harvests search engines through a browser, scrapes the pages it
finds, distils facts from them with a language model and answers queries from
what it remembers. `-mode serve` is a long-lived HTTP and MCP server with a
background job system; other modes run once. All state is in two Turso
(SQLite-like) files in a data directory; a Svelte interface reads it over HTTP.

### Inventory

| Component | Source | State | Operations | What makes it correct |
|---|---|---|---|---|
| Job queue | `jobs.go`, `jobstore.go` | table `jobs` (status, attempts, run_after, locked_at); in the process: candidates, channel, workers | EnqueueJob, ClaimJobs, run, CompleteJob/RetryJob/FailJob, ResetStaleJobs, Start, reapLoop, recurLoop | a job settles, only for a reason, and after that never changes; no work is stranded by a crash; no two workers run one job |
| Vector store, migration | `vectors.go`, `reembed.go`, `embed.go`, `meta.go` | `vectors_g<n>` tables; `system_meta` keys `vector_table`, `vector_gen`, `embed_model`, `embed_dim`, `vector_migration` | bootVectors, embedHandler, reembedHandler, setVectorMeta, UpsertVector, dropTable | the named table exists; ready reads see one model's vectors; a migration loses nothing and ends |
| Memory facts | `memory.go`, `distill.go`, `gate.go` | `memory_facts` | StoreFact (semantic upsert), RetrieveFacts, touchMemoryFact, MemoryAnswer, distillHandler | a stored fact can be retrieved; a retry does not multiply facts; stale facts are not answers |
| Search cache | `searchcache.go` | `search_cache` | StoreSearchCache, exact and semantic lookup, touchSearchCache | fresh entries only; hits promote, never demote |
| Scrape cache | `scrapecache.go` | `scrape_cache` | SaveScrape, LookupScrapeCache, touchScrapeCache | one row per URL; good content is not replaced by a failure |
| Tiers, cleanup, retention | `tier.go`, `cleanup.go`, `retention.go` | expires_at, tier, hit_count of the three tables | nextExpiry, promote, CleanupExpired, TrimRawContent | permanent rows stay; no fresh row is deleted; no vector without a row |
| Scraper, robots | `scraper.go`, `robots.go`, `extract.go` | robots cache per host, places and tab slots | Scrape, one, fetchHTTP, fetchBrowser, Allowed | robots honoured, slots given back, every URL answered, partial results under the deadline |
| Harvest, engines | `harvest.go`, `search.go`, `engine.go`, `clean.go`, `resolver.go` | searchMu, outcomes per engine | SearchTerms, searchOneTerm, queryEngine, resolver.Search | one harvest at a time; each engine's outcome saved once |
| Runs, searches, URLs | `store.go`, `schema.sql` | `runs`, `searches`, `urls`, `search_urls`, `search_raw` | StartRun, FinishRun, SaveSearch, RunURLs | a search is saved whole or not at all |
| Browser | `browser.go` | Chromium process, tabs | launch, newTab, close; navigate, extract | every tab and Chromium itself are closed on every path |
| Log store | `logstore.go`, `schema_logs.sql`, `runlog.go` | bounded channel, batch, drop counter | Write, run, flush, Close | never blocks; what is not dropped is written, or counted |
| Directory lock | `lock.go` | lock file | acquireLock, release | one process has the databases open; nothing but a death leaves the file. Off by default (`config.toml`), so several processes may share a directory |
| Server, modes | `server.go`, `main.go`, `wiring.go`, `config.go` | request goroutines, start-up order | serveMode, runSearch, runScrape, rememberScrapes | start-up order; shutdown leaves nothing that cannot be recovered |
| LLM client | `llm.go` | none | Embed, Chat | external: a result or an error, bounded by `llm.timeout` |
| Observability reads | `explorer.go`, `projection.go`, `provenance.go`, `stats.go`, `webui.go` | none | queries | read only |
| Web interface | `web/src` | pollers, router, config cache | createPoller, loadUIConfig, views | no overlapping polls, no stale answer after a newer one |

Interactions: request handlers, the recurring schedules and jobs themselves
enqueue jobs (StoreSearchCache an `embed`, rememberScrapes a `distill`,
bootVectors a `reembed`, the schedule a `cleanup`); a worker runs the handler,
which calls the store and the language model. The vector tables are shared by
embed jobs, fact writers, re-embed jobs and boot, which agree only through
`system_meta`. The queue, the rows and `system_meta` outlive the process; the
channel, the workers' hands and every value read before a call to the model do
not.

What is hard: statements of several goroutines and processes interleave with no
transaction around a read and the write that depends on it; a worker can be
outlived by its lock; each multi-statement procedure can stop half way; a value
read before a slow call is used after it. The list of hazards, each at its line
and with the properties that cover it, is in `PROJECT.json`.

## 2. The modules

| Module | What it is |
|---|---|
| `JobContract` | what the job system promises: open, then done or failed, for a reason, once |
| `JobQueue` | the table and the processes that work on it, one SQL statement per step |
| `JobQueueProofs`, `JobQueueTimedProofs` | theorems about `JobQueue`: those that hold always, and those that hold while it keeps to its time |
| `MCJobQueue` | its TLC instances |
| `VectorStore` | the vector tables, `system_meta`, boot, the migration and the writers of vectors; its instances need no MC module |
| `Tiers` | the tier arithmetic the stores share, as operators |
| `Knowledge` | search cache, memory facts, their vectors and the cleanup job, statement by statement |
| `Scraper` | Scrape calls, their host groups, robots and scrape cache, tab slots |
| `Harvest` | search requests through memory, cache and live engines; the mutex, the queries, the saved searches |
| `Process` | harvester processes from main to the last defer: lock, databases, log store, Chrome, modes, shutdown |
| `VectorStoreProofs`, `KnowledgeProofs`, `ScraperProofs`, `HarvestProofs`, `ProcessProofs` | theorems about the modules they are named for |
| `MCKnowledge`, `MCScraper`, `MCHarvest`, `MCProcess` | their TLC instances |

`Knowledge` extends `Tiers`. The components meet at their contracts: the queue
of `VectorStore` and `Knowledge` (embed jobs, cleanup) is the one whose contract
`JobQueue` is shown to keep; the memory and scrape steps of `Harvest` are the
calls that `Knowledge` and `Scraper` take apart; `Process` has the job runner's
workers and the requests only as what they do to a shutdown.

### JobQueue

`status`, `attempts`, `runIn` and `lockAge` are the columns of a row. Time is
relative: `runIn` is run_after - now and `lockAge` is now - locked_at, in ticks,
and both stop where the code can no longer tell two values apart (a lock older
than `StaleAfter` is stale and stays stale; a row more than `MaxLag` late is
tied with others in the ORDER BY). So the clock needs no bound and the state
space is finite by itself. `cands[p]` holds what ClaimJobs has selected and not
yet updated, `claimAge[p]` how long ago it read its clock (the UPDATE stamps
that earlier instant), `offers[p]` the claimed jobs the poller is about to send,
`hand[p][s]` the job in a worker with the attempt count it was claimed with.
`succeeded` and `errors` are history: what the handlers really did.

ClaimJobs is `Poll` (the SELECT) followed by one `ClaimRow` per candidate, or a
`ClaimError` that forgets the rows already claimed, as `return nil, err` does.
The channel is unbuffered, so `Deliver` is send and receive in one step. `run`
is three steps: `Deliver`, the handler's return (`HandlerSucceeds`,
`HandlerErrs`, `NoHandler`) and `Record`, or `RecordFails` when the UPDATE errs.
`Start` includes the synchronous reset. `Crash` is a crash and also the end of
serveMode, which waits for no worker. Several processes are modelled because the
directory lock is off by default (`main.go:116-118`).

### VectorStore

Each statement of bootVectors, setVectorMeta and the re-embed job is a step, and
each may err. An error of bootVectors (`BootError`) ends it where it is:
serveMode logs it and serves (`server.go:1071-1076`), so what was written before
stays and `boot.pc` is `"failed"`. The errors of the reads of embed_model,
embed_dim and vector_gen are dropped by the code, so such a read (`Read`) may
see an absent key. A start makes at most one generation, so there are as many as
starts and none is ever refused its own. The pool of reembedOwner is the freedom
to embed the selected rows in any order. A vector is represented by the model
that made it. An embed job and a StoreFact are split at the call to the
embedding server: the table is read before it and written after it. `writer[r]`
is the work that gives row r its vector, `job[g]` the re-embed job whose target
is generation g. The queue is taken at its contract: a job that errs is queued
again or failed, one that a crash interrupts is queued again; that it is not run
twice at once is `NeverReapedMidFlight` of `JobQueue`. The models share a
dimension, the case in which the engine refuses no write. `indexed` is history:
rows a ready semantic read could have found. StoreFact's activeVectorTable is
two steps (`FactTable`, `FactReady`), as its two reads of `system_meta` are not
in a transaction; the properties speak of both keys read at one moment
(`Ready`).

Three properties say less than one might hope, because the code does less. After
a boot that erred before the marker was set, a changed model's reads and jobs
use the old model's vectors, so `VectorsMatchModel` speaks of a boot that
returned without an error; a table it had created stays, so
`OneTableWhenSettled` does too; and if EnqueueJob errs the marker stays with no
job behind it, which `MigrationEnds` names as one of the ways a migration can
end.

### Knowledge

`row[i]` is a row of `search_cache` or `memory_facts`, with its window relative
to now (`left`); `vectors` and `toEmbed` are the ids with a vector, and with an
embed job. `client[c]` is a request or a distill job between two statements,
with the copy (id, tier, hit_count) it read: a hit is a SELECT and later an
UPDATE by id from that copy, which is how touchSearchCache, touchMemoryFact and
scanFact are written. StoreSearchCache is an UPDATE by query_norm and, if that
met no row, an INSERT, then the embed job. StoreFact is search, scan, UPDATE,
vector, or INSERT, vector. CleanupExpired selects ids and deletes them one at a
time, table after table, then the vectors of the deleted. `table` says whether a
vector table is active, which it is not as long as every boot has failed to make
one (`FirstTable` makes it): then StoreFact stores its fact without a vector and
without an error (`memory.go:82`), and embed jobs err. Similarity, max_age, the
confidence gates and the model's verdict may refuse any row, so they are
choices. Ids in use are told apart; an id nothing mentions may be used again, as
a fresh one would be. `granted` is history: the tiers asked for and hits
recorded on a row, and whether the write of its vector erred for good or was
skipped.

### Scraper

A call (`call`, `ended`) starts a group per host. Lists and results are sets of
places in the caller's list, so a URL listed twice is answered twice; a URL
without a host (`NoHost`) is in no group. `group[g]` is the place the group is
at and where its goroutine is in `one`: place in the sem channel, lookup, touch,
robots (`RobotsClaim` is the once.Do, `RobotsFetch` the request of the group
that won it), fetch, tab slot, the opening of a tab (`NewTab`), what it does
(`Tab`), save. A context may end between any two steps unless the call is in
`Patient`. A row keeps an id, whether it has an ETag and whether it is fresh.
The cleanup job's two steps on `scrape_cache` are here. `losses` and `fetched`
are history for `RobotsRespected`: a request may reach any URL of `LeadsTo`, the
targets of redirects and of the page's own navigation, which the code holds
against no robots.txt (`scraper.go:47-55`, `334`), so `fetched` has pairs of the
URL the loop is at and the URL requested for it. The property is about the
first. The delay between two URLs of a host is not modelled; it has no state of
its own.

### Harvest

`req[r]` is where a request is in runSearch, resolver.Search and SaveSearch;
`query[r][e]` the goroutine of one engine; `searchMu` the mutex. SaveSearch is a
transaction of `Begin`, one `Link` per URL and `Commit`, each of which may err
(`Abort`), and its rows appear at `Commit`. A context that is done makes every
later statement err; a live one errs at most `MaxErrors` times. Queries run
under their own timeout, so they go on when the client has left; the tab they
need (`newTab`) is opened before that timeout is set, and nothing bounds it.

### Process

`main[p].at` names the place in realMain; each early return is a step to the
defer that follows it. The launch of Chrome and browse mode's start page
(`OpenStartPage`) have no deadline and do not hear the signal. The UPDATE of
FinishRun may err, which only makes a warning (the run is then `"unmarked"`),
and the lock file may resist its removal, which nobody notices (`"lock stays"`).
`log[p]` counts the lines of one LogStore: in the channel, in the writer's
batch, stored, dropped, lost. Workers and requests are there because nothing
waits for them: `CancelJobs` is the deferred jobCancel, and `WriteClosed` a
goroutine that logs after `LogStore.Close`, which panics: a worker's, a
request's, or one of the job system's own when its context is done. `Crash` runs
no defer; `DeleteLock` is the operator, who follows the message of acquireLock
and deletes the file when no process runs.

## 3. The runs

Bounds: two jobs and two workers (or processes) are enough for every race the
code has, since no statement touches more than one row except the reset, which
treats rows independently; `MaxAttempts = 2` has a retry and a last attempt. The
code's 5 attempts only repeat the retry. The proofs of section 5 have no bound.
For the vectors, one fact (stored once and then refreshed any number of times),
one query, two models, two starts and so two generations; a third where that is
the point. The rows only meet in the re-embed job's selection, so one row of
each owner is enough for its order; rows of one owner are treated alike.

Knowledge: two clients and the cleanup job, one id per table, two queries or one
fact, windows of 1 and 2 ticks, promotion at 2 hits. Two clients give every race
between a copy and its write-back; the two stores share nothing but the cleanup
job, so a behaviour asks about one (`Scopes`). Scraper: two calls, two hosts of
which one is shared, one place per call and one tab, so every wait happens; one
URL has no host and one falls to the cap of three; one may redirect to a
disallowed one; one call reads the cache and the other does not, and both save;
`MaxIds` is never the limit with two calls. Harvest: two requests of one and two
terms with one in common, two engines (one with results, one without; one typed,
one by URL), one error. Process: two processes, so that one finds what the other
left; a channel of one, a batch of two and two lines, so that
the channel fills and a line is dropped, and a batch is full or is not; one crash.

| Run | Instance | Shows |
|---|---|---|
| `jobs_faults` | 1 process, 2 workers, no timing assumption, all faults | types; a running row is always recoverable; a job settles only for a reason; the counts in flight are backed by real errors |
| `jobs_timely` | 2 processes, 1 worker each, workers finish within `MaxRun`, `StaleAfter = 2 * MaxRun` | no two workers run one job, no job is reaped in a worker's hand, and the rows implement `JobContract` |
| `jobs_live` | 1 process, 2 workers, crashes, fairness | a retry waits for its backoff; every enqueued job settles if a process stays up |
| `vectors_migration` | two starts, all interleavings, errors and crashes, fairness | the active table exists; nothing a ready read could find is lost; one model's vectors; not ready while migrating; one table left; an open migration is flipped, its job has failed or the boot that marked it erred |
| `knowledge` | 2 clients, cleanup, embed jobs, errors, a table there or yet to come, fairness of cleanup | tiers are asked for or earned, whatever stale copies are written back; a row has a vector, a job or writer for it, or a write that erred or was skipped behind it; a deleted row stays deleted; expired rows leave |
| `scraper` | 2 calls that share a host, 1 place, 1 tab, cancellation, lost robots.txt | slots are given back on every path; a disallowed URL is asked for only after its robots.txt could not be read, though a redirect may lead to it; every URL is answered; only a fetch makes a row; calls return unless a newTab hangs |
| `harvest` | 2 requests, 2 engines, a client that leaves, one error | one request at a time on an engine; searches whole; answers and cache entries backed by saved searches; runs finished; requests return unless a newTab hangs |
| `process` | 2 processes, all modes, exclusive lock, errors on every return, signals, 1 crash | one owner; log lines accounted for; a tidy exit; a process asked to stop does unless Chrome hangs as it starts |
| `jobs_stale_after` (violated) | `StaleAfter = 3 > MaxRun = 2` | the documented bound on stale_after is not enough: waiting for a worker counts |
| `vectors_embed` (violated) | one migration, no fault needed | an embed job that writes to the old table after the re-embed's SELECT is lost |
| `knowledge_orphan` (violated) | no error, prompt jobs | a fact stored over one that cleanup has just deleted is lost |
| `vectors_restart` (violated) | three starts | a restart in mid-migration leaves two re-embed jobs; the first flip makes the store ready under the second |

The timing assumption of `jobs_timely` and `jobs_live` (`Timely`, `MayTick`)
says that a claim and a hand-over take less than a tick and a worker holds its
job for at most `MaxRun` ticks. It is the code's own premise (`config.go:82`);
without it `NeverReapedMidFlight`, `NoDoubleRun` and `ImplementsContract` do not
hold, as the late UPDATEs guard on nothing, while `jobs_faults` shows what still
does. With two processes or slow claims `OnlyRunnableClaimed` does not hold
either: a candidate that was retried in between is claimed in its backoff,
because the guard looks at the status alone.

Deadlock is checked for the jobs, where the clock always ticks, for `knowledge`,
where cleanup recurs, and for `scraper`, where a cleanup pass may always be
repeated. The vector, harvest and process instances do stop: nothing is left to
store, ask or start.

Fairness. Jobs: a live process polls and reaps (tickers), hands over, and its
handlers return (every call they make is bounded by `llm.timeout`); time passes.
No fairness on starting a process, enqueuing, or succeeding, so
`EventuallySettled` assumes that some process stays up. Vectors: boot proceeds
and the queue runs re-embed jobs; no fairness on rows, requests or restarts.
Knowledge: the cleanup job recurs and its statements are not refused for ever
(strong fairness of its deletions, which an erring pass interrupts). Scraper and
harvest: goroutines run, since fetches, queries and what an open tab does have
timeouts and statements come back; a free mutex or slot goes to one who waits.
Nothing is assumed of the callers or of Scrape being called, and nothing of
newTab: its chromedp calls run under the browser's context with no deadline
(`browser.go:70-95`), before http_timeout or query_timeout is set. `CallsReturn`
and `RequestsReturn` have as a hypothesis (`TabsOpen`) that no newTab hangs for
ever, so they say that nothing else can keep a call or a request; a newTab that
does hang keeps its slot, or searchMu, and everyone who needs it. Process: main
and the log writer run; what they wait for has a limit in the code (20 s for
Shutdown, 15 s for Chrome to close, 10 s for a flush); a request or a job may
last for ever. Nothing limits the launch (`browser.go:137`, `207`) and the start
page (`main.go:231`), which get no fairness but that a start page ends when its
window is closed: `StopsEventually` has as a hypothesis (`ChromeAnswers`) that
they do end.

Every property of a passing run comes with a mutant: a definition of the model
changed the way a bug would change the code, for which TLC finds the property
violated (`Mut...` in the modules, `mutants` in `PROJECT.json`).

## 4. What the violated runs say about the code

They are in `PROJECT.json` under `findings`, each with the comment it
contradicts. In short: stale_after must be at least twice the longest job; rows
embedded during a migration can lose their vector for good (a fact stored
through StoreFact has the same window); restarting during a migration makes two
migrations that share one marker; StoreFact reports success for a fact whose row
cleanup deleted under it, and leaves an orphan vector that absorbs later facts.

Other disagreements and surprises met while modelling, which the models follow
as the code has them and no run is spent on:

- `reembed.go:22-23`: bootVectors "keeps the vector store in step with the
  configured embedding model". The job runner is started before it
  (`server.go:1070-1071`), and it compares names: after a start with a new model
  that ends before its migration is recorded, a start with the old model finds
  nothing changed and serves the vectors that jobs wrote in between as its own.
- `jobs.go:72-73`: "a previous crash is recovered before the first poll". Only
  rows whose lock is older than stale_after are reset, so recovery after a crash
  takes up to twice stale_after (`EventuallySettled` has it in the end).
- `server.go:1042`: "Cancelling jobCtx on shutdown stops every goroutine". It
  tells them to stop and waits for none; a job that logs after `LogStore.Close`
  panics, and then the exclusive lock's file stays (`WriteClosed`, `TidyExit`).
- `main.go:162-167`: a profile directory that cannot be made returns without
  FinishRun (`MakeProfile`); serve mode does not notice a closed Chrome window.
- `scraper.go:240`: a failed fetch is saved over the good row and is fresh until
  it expires; `scraper.go:286`: a body that cannot be read is saved empty with
  its ETag, so that later 304s keep the empty row.
- `robots.go:60`: the context of whoever comes first decides for everybody; a
  cancelled call leaves allow-all behind (`losses`).
- A touch with a stale copy may take a permanent row back to an older tier; a
  fact stored over a near-identical one keeps the old tier, so
  remember=permanent is ignored there; rememberTier returns the caller's
  spelling, and "Permanent" is then neither permanent nor long (`"miscased"` in
  `Tiers`).
- A boot that errs leaves a store that serves: with the old model's vectors,
  with a table too many, or with a marker and no job, by the place of the error.
  The comment at `server.go:1072-1075` says that it "leaves no active vector
  table" and disables semantic memory, which is so only on a first start that
  errs before setVectorMeta.
- robots.txt is asked about the URLs of the list, not about where they redirect.
- A Chrome that does not answer keeps `newTab`, and with it searchMu, a tab slot
  or main, for as long as it does: the timeouts begin after it.
- A good end of a browse or test run may leave the run open (`main.go:204`) and
  the lock in place (`lock.go:48`); a fact stored while no table is active has
  no vector and nobody is told (`memory.go:82`).
- FinishRun under the request's context leaves the run unfinished when the
  client has gone (`RunsFinished` has the exception). Engines that all fail or
  are blocked leave an empty list in the search cache, served as a hit.
- The reaper leaves the attempts alone (`jobstore.go:214`), so a job that kills
  its process is retried for ever. A distill job that errs after some of its
  facts starts over (`distill.go:68`), and a fact is stored twice if its embedding
  does not meet the threshold.
- A flush of the log that errs loses its batch without a count (`lost`).

## 5. The proofs

### JobQueueProofs

`JobQueueProofs` proves, for any number of jobs, workers and processes, any
`MaxAttempts` and `StaleAfter`, with or without `Timely` and under all faults:

- `TypeCorrect`: `Spec => []TypeOK`. TypeOK is inductive. The step that needs an
  argument is RetryJob, whose backoff n*n stays within `MaxBackoff`
  (`SquareBound`), and attempts stay below `MaxAttempts`.
- `RunningRowsRecoverable`: `Spec => []RunningIsRecoverable`, inductive given
  TypeOK.
- `InFlightBacked`: `Spec => []InFlightIsBacked`, in three parts (rows, batches,
  hands), each with a lemma per part. It rests on `ErrorsGrow`: an error once
  counted is never uncounted, so a copy of an attempt count stays accounted for
  while other writers change the row.
- `SettlesHonestly`: `Spec => []SettledHonestly`, not inductive by itself: that
  a failed job has used up its attempts depends on the count its worker holds,
  which is what InFlightIsBacked says.

The only assumptions are those of `JobQueueAssumption` (finite sets of jobs and
workers, positive bounds).

### JobQueueTimedProofs

Under `InTime`, that is `Timely` and `StaleAfter >= 2 * MaxRun` (what
`config.go:82` asks of the operator, with the factor the run `jobs_stale_after`
shows to be needed), for any number of jobs, processes and workers:

- `ReapsOnlyTheDead`: `NeverReapedMidFlight`, and `RunsOnce`: `NoDoubleRun`.
- `KeepsContract`: `Spec => ImplementsContract`. The mapping has a job in
  execution exactly when some worker's hand holds it, which needs `NoDoubleRun`.
- `WaitsForBackoff`: with a single process, `OnlyRunnableClaimed`; a candidate
  is still due when it is claimed (`Due`), as nobody else changes its row.

`InTimeInv` is inductive. `Owned` says that an offered or executed job is marked
running, `Apart` that no two places have the same job, `Timing` how old its lock
can be. The last is where the factor two comes from: a batch is no larger than
the pool, so while a job waits to be handed over some worker has been at an
older one for as long (`OfferTimed` counts the workers that are `Newer`), and
that one is done within `MaxRun`; then the job has `MaxRun` of its own.

### VectorStoreProofs

- `TypeCorrect`: `Spec => []TypeOK`, for any number of starts, models and
  generations. `TypeInv` adds that work which is not over has an attempt left.
- Under `StartsAlone` (no process starts with a re-embed job queued or running),
  with any number of starts, migrations, failed boots, errors, crashes and rows:
  `ActiveTableIsThere`, `MigrationDegradesReads` and `NoRowLost`. `FlipOK` ties
  the steps of bootVectors, of the re-embed job and the keys of `system_meta` to
  one another; `Carried` says which rows the job has copied by which of its
  steps: what could be found stays in the table that is read, and is in the new
  one, or in the selection still to do, before the flip.
- `ModelsNeverMixed` under `StartsAlone` and `BootsComplete` (a boot that has
  begun neither errs nor dies), which model made the vectors of which table; and
  `OneTableLeft` under these and `NoneGivenUp` (no re-embed job uses up its
  attempts). Both hold of any number of migrations, one after the other.

The hypotheses are not there for convenience: they are the limit of what holds.
A process that starts while a migration is open begins a second one under the
same marker (`vectors_restart`). A boot cut short before its marker leaves jobs
that write the new model's vectors in the old table, and a later start with the
old model finds nothing changed and serves them; one cut short after its CREATE
leaves a table. With three starts and no hypothesis, TLC finds all five
properties violated, without a single error; with two, where none of this has
happened yet, `vectors_migration` checks them without a hypothesis.

### KnowledgeProofs

For any sets of queries, facts, ids and clients, any windows and any promotion
threshold, with or without errors and slow clients:

- `KnowledgeTiersEarned` from `CopiesOK`. TiersEarned alone is not inductive: a
  touch writes back tier and hit_count of a copy it read earlier. What holds of
  a copy is that its hits were recorded and its tier asked for or earned, for as
  long as its row is there; a refresh that found no row goes by the tier it was
  asked for. `CopySteps` says where copies come from, `RowSteps` what a step may
  do to a row: delete it, insert it under an id nobody mentions, or change it
  without taking back what was granted (`Keeps`).
- `KnowledgeNoResurrection` is read off `RowSteps`, one step at a time.
- `KnowledgeSearchable` from `GoneRows`: the rows whose vectors a cleanup pass
  is going to delete are not there. `VectorsStay`, `QueueStays` and `HandedOver`
  take the vector, the embed job and the client that is about to write it in
  turn.
- `KnowledgeTypeCorrect` comes with them; only ids of the cache may be queued
  for an embed job, so a client that is about to enqueue one holds such an id.

The assumptions are `TiersAssumption` and `KnowledgeAssumption`.

### ScraperProofs

For any calls, URLs, hosts, limits and robots.txt, with cleanup, lost requests
and contexts that end at any time (`Inv`, inductive, of four parts):

- `ScraperTypeCorrect` and `ScraperSlotsBalanced`: `tabs` is bounded only
  because it counts the groups in a tab, so the two go together; a group enters
  a tab or a place only when one is free, and every way out gives it back.
- `ScraperObeysRobots` from `Robots`: a host is without rules only if its one
  request was lost, and a group that asks for its URL, over HTTP or in a tab,
  has passed the test. Where that URL leads is not looked at, and the theorem
  does not say it is.
- `ScraperAnswers` from `Lists`: a group has answered every place of its host up
  to where it is (`GroupOK`), and it is over only at the end of its list or of
  its context.
- `ScraperOnlySavesCreate`: the action property, one step at a time.

### HarvestProofs

For any requests, terms, engines and URLs, whichever clients go and whichever
statements err:

- `HarvestTypeCorrect`, from the ways a request can go (`RequestPath`), which
  the other proofs go by too.
- `OneAtATime` (`NoBurst`) from `MutexOK`: only the holder of the mutex has
  goroutines, and it keeps the mutex until all of them are done. NoBurst is not
  inductive: that nobody else has a tab left behind is what it does not say.
- `AnswerIsWhole` (`AnswerAccounted`) from `SavesOK`: which engines of the
  current term have been saved (`InTurn`), that later terms have none (`Ahead`),
  that a list is read back only after all of them (`ReadOK`), and that terms
  taken to the engines stay accounted for (`LiveOK`). A commit is of an outcome
  the engine gave: a goroutine skips its query only when the context is done
  (`QueryOK`), and then the transaction errs (`Committed`).
- `EveryRowWhole` and `CacheHoldsSearches` rest on it: a run whose list is in
  the cache gets no further search, so the list stays that of the run.
- `NoRunLeftOpen` (`RunsFinished`) from `RunOK`: an open run is the one its
  request is at, or its client has gone.

`HarvestAssumption` is all that is assumed. It has each engine once, as the
default configuration does. enginesByNames does not look for doubles: a
configuration with "ddg" and "duckduckgo" would query one engine twice at once.

### ProcessProofs

For any number of processes, any sizes of channel and batch, any number of
crashes, with or without the exclusive lock:

- `ProcessTypeCorrect` and `ProcessLogAccounted`: TypeOK bounds `stored`,
  `dropped` and `lost` by the lines written, which no step looks at; they stay
  bounded because the counters add up. So types and sums are proved together
  (`Types`, `LogsOK`): each step of the writer moves lines from one counter to
  another (`FlushAdds`), and Drain meets an empty channel.
- `ProcessOneOwner` from `LockHeld`: a process that is under way has its own
  name in the lock file. acquireLock finds no file, hence nobody under way;
  release removes whatever file is there, which is its own.
- `ProcessTidyExit` from `Phases`: what each place of realMain has behind it,
  such as no Chrome once FinishRun is behind, and FinishRun behind on the way to
  a good end. The exit itself remembers none of this, so the invariant has to.
  That FinishRun's UPDATE or the removal of the lock may err is part of the
  theorem.

`Inv`, their conjunction, is inductive; `ProcessAssumption` is all that is
assumed.

Every safety property, action property and refinement that a passing run checks
is thus also a theorem. Only model-checked is liveness, which is beyond the
prover: `EventuallySettled`, `MigrationEnds`, `ExpiredRowsLeave`, `CallsReturn`,
`RequestsReturn`, `StopsEventually`. What the theorems do not reach is stated
with them: `JobQueue` when it does not keep to its time, and `VectorStore` when
a start meets an open migration.

## 6. Not modelled, and the plan

Not modelled: parsing, cleaning and extraction of pages, ranking of vectors,
wording of prompts, the read-only views (`explorer.go`, `projection.go`,
`provenance.go`, `stats.go`, `webui.go`), the browser's protocol, decoding of
requests and MCP framing, and times below a tick (run_after and locked_at are
compared as text, which misorders instants within one second). TrimRawContent
and Vacuum clear or compact what nothing reads back. The web interface polls
read-only views; a poller whose interval is changed while a request is in flight
may refresh once more than needed. That a model change is undone while its
migration is queued (or marked with no job, in which case nothing clears the
marker) takes a third start and is outside the passing instances. FinishRun of a
harvest errs only with its context (`RunsFinished` says so); under a live one
its error is dropped as well and would leave the run open. The reset of
JobQueue's `Start` may err, which is logged: the reaper then does it a period
later.

Left for later: the composition of boot, queue and migration with the queue's
real retries, and the weaker promises that hold of it after a third start.
