------------------------------- MODULE Harvest -------------------------------
(***************************************************************************)
(* Search requests (server.go) on their chain from memory over the search  *)
(* cache to the live engines (resolver.go), the searches the harvester     *)
(* serialises (harvest.go), the engines' queries in tabs of their own      *)
(* (search.go, browser.go) and the rows of runs and searches (store.go).   *)
(*                                                                         *)
(* A term's URLs are a set: rank and order are left out, as are the texts  *)
(* of pages.  Memory and the Scrape call are single steps here; modules    *)
(* Knowledge and Scraper take them apart.                                  *)
(***************************************************************************)
EXTENDS Naturals, Sequences, FiniteSets

CONSTANTS
  Requests,      \* the search requests that may be made, each once
  Terms,         \* Terms[r]: the terms of request r
  Engines,       \* search.engines, in order
  Typed,         \* search.typed: the engines searched through their box
  Finds,         \* Finds[e]: the destinations engine e has for any term
  UseMemory, UseCache, Scrapes,   \* the requests with that option
  Patient,       \* the requests whose client stays
  MaxErrors      \* bound on statements that err while their context lives

NoOne == "no one"
EngineSet == {Engines[i] : i \in DOMAIN Engines}
AllTerms == UNION {{Terms[r][k] : k \in DOMAIN Terms[r]} : r \in Requests}
AllUrls == UNION {Finds[e] : e \in EngineSet}

ASSUME HarvestAssumption ==
  /\ NoOne \notin Requests
  /\ Terms \in [Requests -> Seq(AllTerms)] /\ \A r \in Requests : Len(Terms[r]) > 0
  /\ Engines \in Seq(EngineSet) /\ Len(Engines) > 0
  /\ \A i, j \in DOMAIN Engines : Engines[i] = Engines[j] => i = j   \* as configured by default
  /\ UNION {UseMemory, UseCache, Scrapes, Patient} \subseteq Requests
  /\ MaxErrors \in Nat

VARIABLES
  req,        \* req[r]: where a request is, and what it holds
  ended,      \* ended[r]: the client has gone, the context is done
  searchMu,   \* the request that holds the mutex, or NoOne
  query,      \* query[r][e]: where the engine's goroutine is, and its outcome
  run,        \* runs: per <<request, place>>, "none", "open" or "finished"
  searches,   \* committed searches with their URLs
  cache,      \* search_cache per term: [known, urls]
  errors      \* statements that erred so far

db == <<run, searches, cache, errors>>
vars == <<req, ended, searchMu, query, run, searches, cache, errors>>

\* Place 0 is the run that runSearch starts for a scrape.
Runs == UNION {{r} \X (0 .. Len(Terms[r])) : r \in Requests}

NoRun == <<NoOne, 0>>

\* turn: the outcome being saved; linked: the URLs its transaction has so far.
NewRequest(r) ==
  [at |-> "new", place |-> 1, turn |-> 1, linked |-> {}, found |-> {}, failed |-> FALSE,
   source |-> [k \in DOMAIN Terms[r] |-> "none"], urls |-> {}]
NotAsked == [at |-> "idle", outcome |-> "none", urls |-> {}]
NoEntry == [known |-> FALSE, urls |-> {}]

Init ==
  /\ req = [r \in Requests |-> NewRequest(r)]
  /\ ended = [r \in Requests |-> FALSE]
  /\ searchMu = NoOne
  /\ query = [r \in Requests |-> [e \in EngineSet |-> NotAsked]]
  /\ run = [x \in Runs |-> "none"]
  /\ searches = {}
  /\ cache = [t \in AllTerms |-> NoEntry]
  /\ errors = 0

At(r, pc) == req[r].at = pc
Goto(r, pc) == req' = [req EXCEPT ![r].at = pc]
Term(r) == Terms[r][req[r].place]
Run(r) == <<r, req[r].place>>
\* A statement errs: under a context that is done always, else now and then.
Errs(r) ==
  \/ ended[r] /\ UNCHANGED errors
  \/ ~ended[r] /\ errors < MaxErrors /\ errors' = errors + 1
Live(r) == {k \in DOMAIN Terms[r] : req[r].source[k] = "live"}

\* The resolver has answered a term: on to the next, or to the scrape.
Resolved(r, source, urls) ==
  LET x == req[r]
      more == x.place < Len(Terms[r])
  IN req' = [req EXCEPT ![r] = [x EXCEPT
       !.at = IF more THEN "memory" ELSE "scrape",
       !.place = IF more THEN x.place + 1 ELSE x.place,
       !.source = [x.source EXCEPT ![x.place] = source],
       !.found = {}, !.urls = x.urls \cup urls]]

-----------------------------------------------------------------------------
(***************************************************************************)
(* runSearch and the resolver's chain.                                     *)
(***************************************************************************)
Ask(r) ==
  /\ At(r, "new")
  /\ Goto(r, "memory")
  /\ UNCHANGED <<ended, searchMu, query, db>>

EndContext(r) ==
  /\ r \notin Patient /\ req[r].at \notin {"new", "answered", "failed"} /\ ~ended[r]
  /\ ended' = [ended EXCEPT ![r] = TRUE]
  /\ UNCHANGED <<req, searchMu, query, db>>

\* MemoryAnswer: errors count as no answer.
Remember(r) ==
  /\ At(r, "memory")
  /\ \/ /\ r \in UseMemory /\ ~ended[r]
        /\ Resolved(r, "memory", {})
     \/ Goto(r, "cache")
  /\ UNCHANGED <<ended, searchMu, query, db>>

\* Exact or semantic lookup; an entry with no URLs is a hit like any other.
LookupCache(r) ==
  /\ At(r, "cache")
  /\ IF r \in UseCache /\ cache[Term(r)].known /\ ~ended[r]
     THEN Resolved(r, "cache", cache[Term(r)].urls)
     ELSE Goto(r, "start")
  /\ UNCHANGED <<ended, searchMu, query, db>>

StartRun(r) ==
  /\ At(r, "start")
  /\ \/ /\ ~ended[r]
        /\ Goto(r, "lock")
        /\ run' = [run EXCEPT ![Run(r)] = "open"]
        /\ UNCHANGED errors
     \/ /\ Errs(r)
        /\ Goto(r, "failed")
        /\ UNCHANGED run
  /\ UNCHANGED <<ended, searchMu, query, searches, cache>>

\* RunURLs of the resolver; what it finds also goes to the search cache.
RunURLs(x) == UNION {s.urls : s \in {s \in searches : s.run = x}}

ReadRun(r) ==
  /\ At(r, "read")
  /\ \/ /\ ~ended[r]
        /\ req' = [req EXCEPT ![r].at = "keep", ![r].found = RunURLs(Run(r))]
        /\ UNCHANGED errors
     \/ /\ Errs(r)
        /\ req' = [req EXCEPT ![r].at = "finish", ![r].failed = TRUE]
  /\ UNCHANGED <<ended, searchMu, query, run, searches, cache>>

\* StoreSearchCache: an error is only logged.
KeepInCache(r) ==
  /\ At(r, "keep")
  /\ cache' = IF r \in UseCache /\ ~ended[r]
              THEN [cache EXCEPT ![Term(r)] = [known |-> TRUE, urls |-> req[r].found]]
              ELSE cache
  /\ Goto(r, "finish")
  /\ UNCHANGED <<ended, searchMu, query, run, searches, errors>>

\* Mutant: the run is finished at the end and not in a defer.
MutFinishRun(r) ==
  /\ At(r, "finish")
  /\ run' = IF ended[r] \/ req[r].failed THEN run ELSE [run EXCEPT ![Run(r)] = "finished"]
  /\ IF req[r].failed THEN Goto(r, "failed") ELSE Resolved(r, "live", req[r].found)
  /\ UNCHANGED <<ended, searchMu, query, searches, cache, errors>>

\* The deferred FinishRun, with the request's own context; then the answer.
FinishRun(r) ==
  /\ At(r, "finish")
  /\ run' = IF ended[r] THEN run ELSE [run EXCEPT ![Run(r)] = "finished"]
  /\ IF req[r].failed THEN Goto(r, "failed") ELSE Resolved(r, "live", req[r].found)
  /\ UNCHANGED <<ended, searchMu, query, searches, cache, errors>>

\* The scrape goes under the last live run or, after hits only, one of its own.
StartScrape(r) ==
  /\ At(r, "scrape")
  /\ \/ /\ r \notin Scrapes \/ req[r].urls = {}
        /\ Goto(r, "answered") /\ UNCHANGED run
     \/ /\ r \in Scrapes /\ req[r].urls # {}
        /\ IF Live(r) # {}
           THEN Goto(r, "scraping") /\ UNCHANGED run
           ELSE IF ended[r]
                THEN Goto(r, "failed") /\ UNCHANGED run
                ELSE Goto(r, "scraping") /\ run' = [run EXCEPT ![<<r, 0>>] = "open"]
  /\ UNCHANGED <<ended, searchMu, query, searches, cache, errors>>

EndScrape(r) ==
  /\ At(r, "scraping")
  /\ run' = IF Live(r) = {} /\ ~ended[r] THEN [run EXCEPT ![<<r, 0>>] = "finished"] ELSE run
  /\ Goto(r, "answered")
  /\ UNCHANGED <<ended, searchMu, query, searches, cache, errors>>

-----------------------------------------------------------------------------
(***************************************************************************)
(* SearchTerms: one request at a time, its engines at the same time.       *)
(***************************************************************************)
\* Mutant: a harvest that is under way is no reason to wait.
MutLock(r) ==
  /\ At(r, "lock")
  /\ IF ended[r] \/ searchMu # NoOne
     THEN /\ Goto(r, "read")
          /\ UNCHANGED <<searchMu, query>>
     ELSE /\ Goto(r, "wait")
          /\ searchMu' = r
          /\ query' = [query EXCEPT ![r] = [e \in EngineSet |-> [NotAsked EXCEPT !.at = "delay"]]]
  /\ UNCHANGED <<ended, db>>

\* Lock does not look at the context.  The check after it stops early without
\* an error, and the resolver, which ignores "completed", goes on to RunURLs.
Lock(r) ==
  /\ At(r, "lock") /\ searchMu = NoOne
  /\ IF ended[r]
     THEN /\ Goto(r, "read")
          /\ UNCHANGED <<searchMu, query>>
     ELSE /\ Goto(r, "wait")
          /\ searchMu' = r
          /\ query' = [query EXCEPT ![r] = [e \in EngineSet |-> [NotAsked EXCEPT !.at = "delay"]]]
  /\ UNCHANGED <<ended, db>>

Queried(r, e) == query[r][e].at = "done"
QueryAt(r, e, pc) == query[r][e].at = pc
QueryGoto(r, e, pc) == query' = [query EXCEPT ![r][e].at = pc]
Outcome(r, e, outcome, urls) ==
  query' = [query EXCEPT ![r][e] = [at |-> "done", outcome |-> outcome, urls |-> urls]]

\* Stagger and jitter; the end of the context in them leaves an empty record.
Delay(r, e) ==
  /\ QueryAt(r, e, "delay")
  /\ \/ ended[r] /\ Outcome(r, e, "skipped", {})
     \/ QueryGoto(r, e, "newTab")
  /\ UNCHANGED <<req, ended, searchMu, db>>

\* From here on the context is the browser's: the request's end stops nothing,
\* and without Chrome every query fails.  This step comes before query_timeout,
\* which searchByURL and searchByBox set: nothing bounds it, with the mutex held.
newTab(r, e) ==
  /\ QueryAt(r, e, "newTab")
  /\ \/ QueryGoto(r, e, IF e \in Typed THEN "home" ELSE "visit")
     \/ Outcome(r, e, "failed", {})
  /\ UNCHANGED <<req, ended, searchMu, db>>

\* awaitNavigation to the results page, which query_timeout bounds.
searchByURL(r, e) ==
  /\ QueryAt(r, e, "visit")
  /\ \/ QueryGoto(r, e, "collect")
     \/ Outcome(r, e, "failed", {})
  /\ UNCHANGED <<req, ended, searchMu, db>>

\* The home page, its search box, the term and Enter; an Enter without a
\* navigation falls back to the page as it stands.
searchByBox(r, e) ==
  /\ \/ QueryAt(r, e, "home") /\ QueryGoto(r, e, "box")
     \/ QueryAt(r, e, "box") /\ QueryGoto(r, e, "collect")
     \/ query[r][e].at \in {"home", "box"} /\ Outcome(r, e, "failed", {})
  /\ UNCHANGED <<req, ended, searchMu, db>>

\* A challenge, or results that never appeared, is a page without URLs.
collect(r, e) ==
  /\ QueryAt(r, e, "collect")
  /\ \/ Finds[e] # {} /\ Outcome(r, e, "page", Finds[e])
     \/ Outcome(r, e, "empty", {})
     \/ Outcome(r, e, "failed", {})
  /\ UNCHANGED <<req, ended, searchMu, db>>

\* Mutant: the wait ends with the context.
MutFanIn(r) ==
  /\ At(r, "wait")
  /\ ended[r] \/ \A e \in EngineSet : Queried(r, e)
  /\ Goto(r, "begin")
  /\ UNCHANGED <<ended, searchMu, query, db>>

\* Mutant: the first engine to be done is enough.
MutFirstIn(r) ==
  /\ At(r, "wait")
  /\ \E e \in EngineSet : Queried(r, e)
  /\ Goto(r, "begin")
  /\ UNCHANGED <<ended, searchMu, query, db>>

\* wg.Wait.
FanIn(r) ==
  /\ At(r, "wait")
  /\ \A e \in EngineSet : Queried(r, e)
  /\ Goto(r, "begin")
  /\ UNCHANGED <<ended, searchMu, query, db>>

-----------------------------------------------------------------------------
(***************************************************************************)
(* SaveSearch: a transaction per outcome, in the order of the engines.     *)
(***************************************************************************)
Engine(r) == Engines[req[r].turn]
Collected(r) == query[r][Engine(r)].urls
\* The record of a goroutine that did not get to its query is the zero value.
Record(r) ==
  LET q == query[r][Engine(r)]
  IN [run |-> IF q.outcome \in {"none", "skipped"} THEN NoRun ELSE Run(r),
      engine |-> Engine(r), outcome |-> q.outcome, urls |-> req[r].linked]
\* SearchTerms returns, and its outcomes with it.
Dropped(r) ==
  [query EXCEPT ![r] = [e \in EngineSet |-> IF Queried(r, e) THEN NotAsked ELSE query[r][e]]]

\* Mutant: the mutex is not given back on this path.
MutAbort(r) ==
  /\ Errs(r)
  /\ req' = [req EXCEPT ![r].at = "finish", ![r].failed = TRUE]
  /\ UNCHANGED <<searchMu, query, searches>>

\* A statement errs: rollback, and the outcomes left are not saved.
Abort(r) ==
  /\ Errs(r)
  /\ req' = [req EXCEPT ![r].at = "finish", ![r].failed = TRUE, ![r].turn = 1, ![r].linked = {}]
  /\ searchMu' = NoOne
  /\ query' = Dropped(r)
  /\ UNCHANGED searches

\* Mutant: an outcome that cannot be saved is logged and left out.
MutBegin(r) ==
  /\ At(r, "begin")
  /\ \/ /\ ~ended[r]
        /\ Goto(r, "links")
        /\ UNCHANGED <<searchMu, query, searches, errors>>
     \/ Abort(r) /\ req[r].turn = 1
     \/ /\ errors < MaxErrors /\ req[r].turn = Len(Engines)
        /\ errors' = errors + 1
        /\ Goto(r, "read")
        /\ searchMu' = NoOne
        /\ query' = Dropped(r)
        /\ UNCHANGED searches
  /\ UNCHANGED <<ended, run, cache>>

\* BEGIN, the searches row and the raw page.
Begin(r) ==
  /\ At(r, "begin")
  /\ \/ /\ ~ended[r]
        /\ Goto(r, "links")
        /\ UNCHANGED <<searchMu, query, searches, errors>>
     \/ Abort(r)
  /\ UNCHANGED <<ended, run, cache>>

\* Mutant: an error ends the loop and what is there is committed.
MutLink(r) ==
  /\ At(r, "links")
  /\ \/ /\ ~ended[r]
        /\ \E u \in Collected(r) \ req[r].linked :
             req' = [req EXCEPT ![r].linked = @ \cup {u}]
        /\ UNCHANGED errors
     \/ /\ errors < MaxErrors
        /\ errors' = errors + 1
        /\ Goto(r, "commit")
     \/ /\ req[r].linked = Collected(r)
        /\ Goto(r, "commit")
        /\ UNCHANGED errors
  /\ UNCHANGED <<ended, searchMu, query, run, searches, cache>>

\* upsertURL and the link of one more URL.
Link(r) ==
  /\ At(r, "links")
  /\ \/ /\ ~ended[r]
        /\ \E u \in Collected(r) \ req[r].linked :
             req' = [req EXCEPT ![r].linked = @ \cup {u}]
        /\ UNCHANGED <<searchMu, query, searches, errors>>
     \/ /\ req[r].linked = Collected(r)
        /\ Goto(r, "commit")
        /\ UNCHANGED <<searchMu, query, searches, errors>>
     \/ Collected(r) # {} /\ Abort(r)
  /\ UNCHANGED <<ended, run, cache>>

\* Mutant: the loop over the outcomes goes one too far.
MutCommit(r) ==
  /\ At(r, "commit") /\ ~ended[r]
  /\ searches' = searches \cup {Record(r)}
  /\ req' = [req EXCEPT ![r].at = "begin", ![r].turn = @ + 1, ![r].linked = {}]
  /\ UNCHANGED <<ended, searchMu, query, run, cache, errors>>

\* The mutex is given back after the last outcome.
Commit(r) ==
  /\ At(r, "commit")
  /\ \/ /\ ~ended[r]
        /\ searches' = searches \cup {Record(r)}
        /\ IF req[r].turn < Len(Engines)
           THEN /\ req' = [req EXCEPT ![r].at = "begin", ![r].turn = @ + 1, ![r].linked = {}]
                /\ UNCHANGED <<searchMu, query>>
           ELSE /\ req' = [req EXCEPT ![r].at = "read", ![r].turn = 1, ![r].linked = {}]
                /\ searchMu' = NoOne
                /\ query' = Dropped(r)
        /\ UNCHANGED errors
     \/ Abort(r)
  /\ UNCHANGED <<ended, run, cache>>

-----------------------------------------------------------------------------
\* An entry's window passes.
ExpireEntry(t) ==
  /\ cache[t].known
  /\ cache' = [cache EXCEPT ![t] = NoEntry]
  /\ UNCHANGED <<req, ended, searchMu, query, run, searches, errors>>

RequestStep(r) ==
  \/ Remember(r) \/ LookupCache(r) \/ StartRun(r) \/ Lock(r) \/ FanIn(r)
  \/ Begin(r) \/ Link(r) \/ Commit(r) \/ ReadRun(r) \/ KeepInCache(r) \/ FinishRun(r)
  \/ StartScrape(r) \/ EndScrape(r)

\* The steps of a query that come to an end by themselves or by query_timeout.
TimedStep(r, e) ==
  Delay(r, e) \/ searchByURL(r, e) \/ searchByBox(r, e) \/ collect(r, e)

QueryStep(r, e) == TimedStep(r, e) \/ newTab(r, e)

Next ==
  \/ \E r \in Requests : Ask(r) \/ EndContext(r) \/ RequestStep(r)
  \/ \E r \in Requests, e \in EngineSet : QueryStep(r, e)
  \/ \E t \in AllTerms : ExpireEntry(t)

Spec == Init /\ [][Next]_vars

\* Goroutines run (of a request's queries, some one), queries whose tab is open
\* have query_timeout, and a mutex that is free goes to one who waits.  Of newTab
\* nothing is assumed.
Fairness ==
  /\ \A r \in Requests : WF_vars(RequestStep(r))
  /\ \A r \in Requests : WF_vars(\E e \in EngineSet : TimedStep(r, e))

FairSpec == Spec /\ Fairness

-----------------------------------------------------------------------------
TypeOK ==
  /\ \A r \in Requests :
       /\ req[r].at \in {"new", "memory", "cache", "start", "lock", "wait", "begin", "links",
                         "commit", "read", "keep", "finish", "scrape", "scraping",
                         "answered", "failed"}
       /\ req[r].place \in DOMAIN Terms[r] /\ req[r].turn \in DOMAIN Engines
       /\ req[r].linked \subseteq AllUrls /\ req[r].found \subseteq AllUrls
       /\ req[r].failed \in BOOLEAN
       /\ req[r].source \in [DOMAIN Terms[r] -> {"none", "memory", "cache", "live"}]
       /\ req[r].urls \subseteq AllUrls
  /\ ended \in [Requests -> BOOLEAN]
  /\ searchMu \in Requests \cup {NoOne}
  /\ query \in [Requests -> [EngineSet ->
       [at : {"idle", "delay", "newTab", "visit", "home", "box", "collect", "done"},
        outcome : {"none", "skipped", "failed", "empty", "page"}, urls : SUBSET AllUrls]]]
  /\ run \in [Runs -> {"none", "open", "finished"}]
  /\ searches \subseteq [run : Runs \cup {NoRun}, engine : EngineSet,
                         outcome : {"none", "skipped", "failed", "empty", "page"},
                         urls : SUBSET AllUrls]
  /\ cache \in [AllTerms -> [known : BOOLEAN, urls : SUBSET AllUrls]]
  /\ errors \in 0 .. MaxErrors

\* Two requests never have tabs on the same engine (harvest.go: the burst that
\* the stagger avoids), not even when the client of the first has gone: its
\* queries go on, and the mutex stays with it until they are over.
NoBurst ==
  \A e \in EngineSet :
    Cardinality({r \in Requests : query[r][e].at \in {"visit", "home", "box", "collect"}}) <= 1

\* A search that is in the database has a run, and all the URLs its engine
\* found, whichever statement of its transaction errs (store.go); the empty
\* records of a search that was called off never get there.
RowsWhole ==
  \A s \in searches :
    /\ s.run \in Runs /\ run[s.run] # "none"
    /\ s.urls = IF s.outcome = "page" THEN Finds[s.engine] ELSE {}

\* A request that is answered has, for every term it took to the engines, one
\* search for each of them, blocked and failed ones included, and their URLs.
AnswerAccounted ==
  \A r \in Requests : At(r, "answered") => \A k \in Live(r) :
    /\ \A e \in EngineSet : Cardinality({s \in searches : s.run = <<r, k>> /\ s.engine = e}) = 1
    /\ RunURLs(<<r, k>>) \subseteq req[r].urls

\* The search cache never holds part of a search: each list is that of a run
\* for the term in which every engine's outcome was saved.
CacheIsSearched ==
  \A t \in AllTerms : cache[t].known => \E x \in Runs :
    /\ x[2] # 0 /\ Terms[x[1]][x[2]] = t
    /\ \A e \in EngineSet : \E s \in searches : s.run = x /\ s.engine = e
    /\ cache[t].urls = RunURLs(x)

\* No request is under way for ever, provided that Chrome leaves no newTab
\* without an answer: who waits for the mutex gets it, whatever happens to those
\* before.  A newTab that hangs (browser.go:70-95 has no deadline) keeps searchMu,
\* and with it every request that goes to the engines waits for ever.
TabsOpen == \A r \in Requests, e \in EngineSet : []<>~QueryAt(r, e, "newTab")
RequestsReturn ==
  TabsOpen => \A r \in Requests : []<>(req[r].at \in {"new", "answered", "failed"})

\* A request that is over leaves no run open (resolver.go: the FinishRun in a
\* defer), on an error neither, unless its client has gone: then FinishRun
\* meets a dead context, and the run looks unfinished for ever.  (FinishRun is
\* taken not to err for another reason.)
RunsFinished ==
  \A x \in Runs :
    (req[x[1]].at \in {"answered", "failed"} /\ ~ended[x[1]]) => run[x] # "open"

\* The state of a request, and the engines recorded for a term, as SearchContract
\* has them: a request that has failed inside is lost until it returns.
state ==
  [r \in Requests |-> IF req[r].at \in {"answered", "failed"} THEN req[r].at
                     ELSE IF req[r].failed THEN "lost" ELSE "open"]
sources == [r \in Requests |-> req[r].source]
recorded ==
  [r \in Requests |-> [k \in DOMAIN Terms[r] |->
     {e \in EngineSet : \E s \in searches : s.run = <<r, k>> /\ s.engine = e}]]

Contract == INSTANCE SearchContract WITH
  Places <- [r \in Requests |-> DOMAIN Terms[r]], Engines <- EngineSet,
  source <- sources, turn <- searchMu

\* Requests, the mutex, transactions and rows together keep SearchContract: terms
\* in order, one request at the engines, each engine recorded once in its turn,
\* a live answer only after all of them, and nothing more once a turn is lost or
\* the request is over.
ImplementsContract == Contract!Spec
=============================================================================
