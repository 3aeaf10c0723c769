---------------------------- MODULE HarvestProofs ----------------------------
(***************************************************************************)
(* What holds of Harvest for any number of requests, terms, engines and    *)
(* URLs, whichever clients go and whichever statements err: the types, one *)
(* request at a time at the engines, whole rows, an account of every term  *)
(* in an answer, a search cache of whole searches, finished runs, and that *)
(* all of it together keeps SearchContract.                                *)
(***************************************************************************)
EXTENDS Harvest, FiniteSetTheorems, TLAPS

PCs == {"new", "memory", "cache", "start", "lock", "wait", "begin", "links", "commit", "read",
        "keep", "finish", "scrape", "scraping", "answered", "failed"}
State(r) == [at : PCs, place : DOMAIN Terms[r], turn : DOMAIN Engines,
             linked : SUBSET AllUrls, found : SUBSET AllUrls, failed : BOOLEAN,
             source : [DOMAIN Terms[r] -> {"none", "memory", "cache", "live"}],
             urls : SUBSET AllUrls]
Outcomes == {"none", "skipped", "failed", "empty", "page"}
Query == [at : {"idle", "delay", "newTab", "visit", "home", "box", "collect", "done"},
          outcome : Outcomes, urls : SUBSET AllUrls]
Search == [run : Runs \cup {NoRun}, engine : EngineSet, outcome : Outcomes, urls : SUBSET AllUrls]
Entry == [known : BOOLEAN, urls : SUBSET AllUrls]

Types ==
  /\ DOMAIN req = Requests /\ \A r \in Requests : req[r] \in State(r)
  /\ ended \in [Requests -> BOOLEAN]
  /\ searchMu \in Requests \cup {NoOne}
  /\ query \in [Requests -> [EngineSet -> Query]]
  /\ run \in [Runs -> {"none", "open", "finished"}]
  /\ searches \subseteq Search
  /\ cache \in [AllTerms -> Entry]
  /\ errors \in 0 .. MaxErrors

Searching == {"wait", "begin", "links", "commit"}
Saving == {"begin", "links", "commit"}
Running == {"lock", "wait", "begin", "links", "commit", "read", "keep", "finish"}
Over == {"scrape", "scraping", "answered", "failed"}

\* The searches of an engine in the run of term k.
Saved(r, k, e) == {s \in searches : s.run = <<r, k>> /\ s.engine = e}
Once(r, k, e) == \E s \in Saved(r, k, e) : Saved(r, k, e) = {s}
Unsaved(r, k) == \A e \in EngineSet : Saved(r, k, e) = {}
Full(r, k) == \A e \in EngineSet : Once(r, k, e)

\* The mutex and the engines' goroutines, by where their request is.
MutexOK(r) ==
  LET x == req[r] IN
  /\ x.at \in Searching <=> searchMu = r
  /\ x.at \notin Searching => \A e \in EngineSet : query[r][e] = NotAsked
  /\ x.at \in Saving => \A e \in EngineSet : Queried(r, e)

\* What a goroutine has brought.
QueryOK(r, e) ==
  LET q == query[r][e] IN
  /\ q.at = "done" => q.outcome # "none"
  /\ q.outcome = "skipped" => ended[r]
  /\ q.urls = IF q.outcome = "page" THEN Finds[e] ELSE {}

\* The transaction of SaveSearch.
Linked(r) ==
  LET x == req[r] IN
  /\ x.at \notin Saving => x.turn = 1 /\ x.linked = {}
  /\ x.at = "begin" => x.linked = {}
  /\ x.at = "commit" => x.linked = Collected(r)

\* The searches of this term that SaveSearch has committed, and those to come.
InTurn(r) ==
  LET x == req[r] IN
  x.at \in Saving => \A i \in DOMAIN Engines :
    IF i < x.turn THEN Once(r, x.place, Engines[i]) ELSE Saved(r, x.place, Engines[i]) = {}

Ahead(r) ==
  LET x == req[r] IN
  /\ \A k \in DOMAIN Terms[r] : k > x.place => Unsaved(r, k)
  /\ x.at \in {"new", "memory", "cache", "start", "lock", "wait"} => Unsaved(r, x.place)

\* What is read back is whole.
ReadOK(r) ==
  LET x == req[r] IN
  /\ x.at = "read" /\ ~ended[r] => Full(r, x.place)
  /\ x.at = "keep" \/ (x.at = "finish" /\ ~x.failed) =>
       Full(r, x.place) /\ x.found = RunURLs(<<r, x.place>>)

\* The terms that were taken to the engines.
LiveOK(r) ==
  LET x == req[r] IN
  \A k \in Live(r) :
    /\ Full(r, k) /\ RunURLs(<<r, k>>) \subseteq x.urls
    /\ k < x.place \/ x.at \in Over

SavesOK(r) == Linked(r) /\ InTurn(r) /\ Ahead(r) /\ ReadOK(r) /\ LiveOK(r)

\* A run is open while its request is at it, or for good if the client has gone.
RunOK(r) ==
  LET x == req[r] IN
  /\ x.at \in Running => run[Run(r)] # "none"
  /\ \A k \in 0 .. Len(Terms[r]) : run[<<r, k>>] = "open" =>
       \/ ended[r]
       \/ k = x.place /\ x.at \in Running
       \/ k = 0 /\ x.at = "scraping" /\ Live(r) = {}

-----------------------------------------------------------------------------
(***************************************************************************)
(* The constants, and the states a request can be put into.                *)
(***************************************************************************)
LEMMA Constants ==
  /\ NoOne \notin Requests
  /\ Engines \in Seq(EngineSet) /\ Len(Engines) \in Nat \ {0}
  /\ DOMAIN Engines = 1 .. Len(Engines) /\ \A i \in DOMAIN Engines : Engines[i] \in EngineSet
  /\ \A r \in Requests :
       /\ Len(Terms[r]) \in Nat \ {0} /\ DOMAIN Terms[r] = 1 .. Len(Terms[r])
       /\ \A k \in DOMAIN Terms[r] : Terms[r][k] \in AllTerms
  /\ \A e \in EngineSet : Finds[e] \subseteq AllUrls
<1>1. Engines \in Seq(EngineSet) /\ Len(Engines) > 0 /\ Terms \in [Requests -> Seq(AllTerms)]
      /\ \A r \in Requests : Len(Terms[r]) > 0
  BY HarvestAssumption
<1>2. \A e \in EngineSet : Finds[e] \subseteq AllUrls
  BY DEF AllUrls
<1>3. \A r \in Requests : Terms[r] \in Seq(AllTerms)
  BY <1>1
<1> QED
  BY <1>1, <1>2, <1>3, HarvestAssumption

LEMMA RunNames ==
  ASSUME NEW r \in Requests, NEW k \in 0 .. Len(Terms[r])
  PROVE  <<r, k>> \in Runs /\ <<r, k>> # NoRun
BY HarvestAssumption DEF Runs, NoRun

\* A step of r changes the state of r alone.
Changed(r) ==
  /\ DOMAIN req' = Requests /\ req'[r] \in State(r)
  /\ \A h \in Requests : h # r => req'[h] = req[h]

\* All of r but where it is.
Kept(r) ==
  LET x == req[r]
      y == req'[r] IN
  /\ y.place = x.place /\ y.turn = x.turn /\ y.linked = x.linked /\ y.found = x.found
  /\ y.failed = x.failed /\ y.source = x.source /\ y.urls = x.urls

LEMMA GotoFrame ==
  ASSUME Types, NEW r \in Requests, NEW pc \in PCs, Goto(r, pc)
  PROVE  Changed(r) /\ Kept(r) /\ req'[r].at = pc
<1>1. req[r] \in State(r) /\ DOMAIN req = Requests
  BY DEF Types
<1> DEFINE w == [req[r] EXCEPT !.at = pc]
<1>2. /\ w \in State(r) /\ w.at = pc /\ w.place = req[r].place /\ w.turn = req[r].turn
      /\ w.linked = req[r].linked /\ w.found = req[r].found /\ w.failed = req[r].failed
      /\ w.source = req[r].source /\ w.urls = req[r].urls
  BY <1>1 DEF State
<1>3. req' = [req EXCEPT ![r] = w]
  BY DEF Goto
<1> HIDE DEF w
<1> QED
  BY <1>1, <1>2, <1>3 DEF Changed, Kept

\* The next term, or the scrape.
MovedOn(r, source, urls) ==
  LET x == req[r]
      y == req'[r] IN
  /\ IF x.place < Len(Terms[r]) THEN y.at = "memory" /\ y.place = x.place + 1
                                ELSE y.at = "scrape" /\ y.place = x.place
  /\ y.turn = x.turn /\ y.linked = x.linked /\ y.failed = x.failed
  /\ y.source = [x.source EXCEPT ![x.place] = source]
  /\ y.urls = x.urls \cup urls

LEMMA ResolvedFrame ==
  ASSUME Types, NEW r \in Requests, NEW source \in {"memory", "cache", "live"},
         NEW urls \in SUBSET AllUrls, Resolved(r, source, urls)
  PROVE  Changed(r) /\ MovedOn(r, source, urls)
<1> DEFINE x == req[r]
           more == x.place < Len(Terms[r])
           w == [x EXCEPT !.at = IF more THEN "memory" ELSE "scrape",
                          !.place = IF more THEN x.place + 1 ELSE x.place,
                          !.source = [x.source EXCEPT ![x.place] = source],
                          !.found = {}, !.urls = x.urls \cup urls]
<1>1. x \in State(r) /\ DOMAIN req = Requests /\ x.place \in DOMAIN Terms[r]
  BY DEF Types, State
<1>2. (IF more THEN x.place + 1 ELSE x.place) \in DOMAIN Terms[r]
  BY <1>1, Constants
<1>3. [x.source EXCEPT ![x.place] = source] \in [DOMAIN Terms[r] -> {"none", "memory", "cache", "live"}]
  BY <1>1 DEF State
<1>4. x.urls \cup urls \in SUBSET AllUrls
  BY <1>1 DEF State
<1>5. /\ w \in State(r) /\ w.at = (IF more THEN "memory" ELSE "scrape")
      /\ w.place = (IF more THEN x.place + 1 ELSE x.place)
      /\ w.source = [x.source EXCEPT ![x.place] = source] /\ w.urls = x.urls \cup urls
      /\ w.turn = x.turn /\ w.linked = x.linked /\ w.failed = x.failed
  BY <1>1, <1>2, <1>3, <1>4 DEF State, PCs
<1>6. req' = [req EXCEPT ![r] = w]
  BY DEF Resolved
<1> HIDE DEF w
<1> QED
  BY <1>1, <1>5, <1>6 DEF Changed, MovedOn

-----------------------------------------------------------------------------
(***************************************************************************)
(* The ways a request can go.                                              *)
(***************************************************************************)
Walk(r) ==
  LET x == req[r]
      y == req'[r] IN
  /\ Kept(r) /\ UNCHANGED <<searchMu, query, searches>>
  /\ \/ x.at = "new" /\ y.at = "memory"
     \/ x.at = "memory" /\ y.at = "cache"
     \/ x.at = "cache" /\ y.at = "start"
     \/ x.at = "start" /\ y.at \in {"lock", "failed"}
     \/ x.at = "lock" /\ y.at = "read" /\ ended[r]
     \/ x.at = "wait" /\ y.at = "begin" /\ \A e \in EngineSet : Queried(r, e)
     \/ x.at = "begin" /\ y.at = "links"
     \/ x.at = "links" /\ y.at = "commit" /\ x.linked = Collected(r)
     \/ x.at = "keep" /\ y.at = "finish"
     \/ x.at = "finish" /\ y.at = "failed"
     \/ x.at \in {"scrape", "scraping"} /\ y.at \in {"scraping", "answered", "failed"}

Answer(r) ==
  LET x == req[r]
      y == req'[r] IN
  /\ UNCHANGED <<searchMu, query, searches>>
  /\ y.turn = x.turn /\ y.linked = x.linked /\ y.failed = x.failed /\ x.urls \subseteq y.urls
  /\ IF x.place < Len(Terms[r]) THEN y.at = "memory" /\ y.place = x.place + 1
                                ELSE y.at = "scrape" /\ y.place = x.place
  /\ \/ /\ x.at = "finish" /\ ~x.failed /\ x.found \subseteq y.urls
        /\ y.source = [x.source EXCEPT ![x.place] = "live"]
     \/ /\ x.at \in {"memory", "cache"}
        /\ \E s \in {"memory", "cache"} : y.source = [x.source EXCEPT ![x.place] = s]

TakeMutex(r) ==
  /\ Kept(r) /\ req[r].at = "lock" /\ req'[r].at = "wait"
  /\ searchMu = NoOne /\ searchMu' = r /\ searches' = searches
  /\ query' = [query EXCEPT ![r] = [e \in EngineSet |-> [NotAsked EXCEPT !.at = "delay"]]]

\* What the steps of SaveSearch leave alone.
Same(r) ==
  LET x == req[r]
      y == req'[r] IN
  y.place = x.place /\ y.source = x.source /\ y.urls = x.urls

LinkMore(r) ==
  LET x == req[r]
      y == req'[r] IN
  /\ Same(r) /\ x.at = "links" /\ y.at = "links" /\ y.turn = x.turn /\ y.failed = x.failed
  /\ UNCHANGED <<searchMu, query, searches>>

GiveUp(r) ==
  LET x == req[r]
      y == req'[r] IN
  /\ Same(r) /\ x.at \in Saving /\ y.at = "finish" /\ y.failed /\ y.turn = 1 /\ y.linked = {}
  /\ searchMu' = NoOne /\ query' = Dropped(r) /\ searches' = searches

CommitOne(r) ==
  LET x == req[r]
      y == req'[r] IN
  /\ Same(r) /\ x.at = "commit" /\ y.linked = {} /\ y.failed = x.failed /\ ~ended[r]
  /\ searches' = searches \cup {Record(r)}
  /\ IF x.turn < Len(Engines)
     THEN y.at = "begin" /\ y.turn = x.turn + 1 /\ UNCHANGED <<searchMu, query>>
     ELSE y.at = "read" /\ y.turn = 1 /\ searchMu' = NoOne /\ query' = Dropped(r)

ReadBack(r) ==
  LET x == req[r]
      y == req'[r] IN
  /\ Same(r) /\ y.turn = x.turn /\ y.linked = x.linked /\ x.at = "read"
  /\ \/ y.at = "keep" /\ y.failed = x.failed /\ ~ended[r] /\ y.found = RunURLs(Run(r))
     \/ y.at = "finish" /\ y.failed
  /\ UNCHANGED <<searchMu, query, searches>>

LEMMA AbortPath ==
  ASSUME Types, NEW r \in Requests, req[r].at \in Saving, Abort(r)
  PROVE  Changed(r) /\ GiveUp(r)
<1> DEFINE x == req[r]
           w == [x EXCEPT !.at = "finish", !.failed = TRUE, !.turn = 1, !.linked = {}]
<1>1. x \in State(r) /\ DOMAIN req = Requests
  BY DEF Types
<1>2. 1 \in DOMAIN Engines /\ "finish" \in PCs
  BY Constants DEF PCs
<1>3. /\ w \in State(r) /\ w.at = "finish" /\ w.failed /\ w.turn = 1 /\ w.linked = {}
      /\ w.place = x.place /\ w.source = x.source /\ w.urls = x.urls
  BY <1>1, <1>2 DEF State
<1>4. req' = [req EXCEPT ![r] = w]
  BY DEF Abort
<1> HIDE DEF w
<1>5. Changed(r)
  BY <1>1, <1>3, <1>4 DEF Changed
<1>6. Same(r)
  BY <1>1, <1>3, <1>4 DEF Same
<1> QED
  BY <1>1, <1>3, <1>4, <1>5, <1>6 DEF GiveUp, Abort

\* RunURLs of a run holds URLs only.
LEMMA Urls ==
  ASSUME Types, NEW x
  PROVE  RunURLs(x) \in SUBSET AllUrls
BY DEF Types, Search, RunURLs

LEMMA RequestPath ==
  ASSUME Types, NEW r \in Requests, Ask(r) \/ RequestStep(r)
  PROVE  /\ UNCHANGED ended /\ Changed(r)
         /\ \/ Walk(r) \/ Answer(r) \/ TakeMutex(r) \/ LinkMore(r) \/ GiveUp(r) \/ CommitOne(r)
            \/ ReadBack(r)
<1> DEFINE x == req[r]
<1>1. x \in State(r) /\ DOMAIN req = Requests /\ x.failed \in BOOLEAN /\ x.urls \subseteq AllUrls
  BY DEF Types, State
<1>2. ASSUME NEW source \in {"memory", "cache"}, NEW urls \in SUBSET AllUrls,
             x.at \in {"memory", "cache"}, Resolved(r, source, urls),
             UNCHANGED <<searchMu, query, searches>>
      PROVE  Changed(r) /\ Answer(r)
  <2>1. Changed(r) /\ MovedOn(r, source, urls)
    BY <1>2, ResolvedFrame
  <2> QED
    BY <1>2, <2>1 DEF MovedOn, Answer
<1>3. CASE Ask(r)
  BY <1>3, GotoFrame DEF Ask, At, Walk, PCs, db
<1>4. CASE Remember(r)
  BY <1>2, <1>4, GotoFrame DEF Remember, At, Walk, PCs, db
<1>5. CASE LookupCache(r)
  <2>1. cache[Term(r)].urls \in SUBSET AllUrls
    <3>1. Term(r) \in AllTerms
      BY <1>1, Constants DEF Term, State
    <3> QED
      BY <3>1 DEF Types, Entry
  <2> QED
    BY <1>2, <1>5, <2>1, GotoFrame DEF LookupCache, At, Walk, PCs, db
<1>6. CASE StartRun(r)
  BY <1>6, GotoFrame DEF StartRun, At, Walk, PCs
<1>7. CASE Lock(r)
  <2>1. CASE ended[r]
    BY <1>7, <2>1, GotoFrame DEF Lock, At, Walk, PCs, db
  <2>2. CASE ~ended[r]
    BY <1>7, <2>2, GotoFrame DEF Lock, At, TakeMutex, PCs, db
  <2> QED
    BY <2>1, <2>2
<1>8. CASE FanIn(r)
  BY <1>8, GotoFrame DEF FanIn, At, Walk, PCs, db
<1>9. CASE Begin(r)
  <2>1. CASE Abort(r)
    BY <1>9, <2>1, AbortPath DEF Begin, At, Saving
  <2>2. CASE Goto(r, "links") /\ UNCHANGED <<searchMu, query, searches, errors>>
    BY <1>9, <2>2, GotoFrame DEF Begin, At, Walk, PCs
  <2> QED
    BY <1>9, <2>1, <2>2 DEF Begin
<1>10. CASE Link(r)
  <2>1. CASE Abort(r)
    BY <1>10, <2>1, AbortPath DEF Link, At, Saving
  <2>2. CASE /\ x.linked = Collected(r) /\ Goto(r, "commit")
             /\ UNCHANGED <<searchMu, query, searches, errors>>
    BY <1>10, <2>2, GotoFrame DEF Link, At, Walk, PCs
  <2>3. ASSUME NEW u \in Collected(r), req' = [req EXCEPT ![r].linked = @ \cup {u}],
               UNCHANGED <<searchMu, query, searches, errors>>
        PROVE  Changed(r) /\ LinkMore(r)
    <3>1. Collected(r) \subseteq AllUrls
      BY <1>1, Constants DEF Types, Query, Collected, Engine, State
    <3> DEFINE w == [x EXCEPT !.linked = x.linked \cup {u}]
    <3>2. /\ w \in State(r) /\ w.at = x.at /\ w.turn = x.turn /\ w.failed = x.failed
          /\ w.place = x.place /\ w.source = x.source /\ w.urls = x.urls
      BY <1>1, <2>3, <3>1 DEF State
    <3>3. req' = [req EXCEPT ![r] = w]
      BY <2>3
    <3> HIDE DEF w
    <3> QED
      BY <1>1, <1>10, <2>3, <3>2, <3>3 DEF Changed, LinkMore, Same, Link, At
  <2> QED
    BY <1>10, <2>1, <2>2, <2>3 DEF Link
<1>11. CASE Commit(r)
  <2>1. CASE Abort(r)
    BY <1>11, <2>1, AbortPath DEF Commit, At, Saving
  <2>2. CASE ~Abort(r)
    <3> DEFINE more == x.turn < Len(Engines)
               w == [x EXCEPT !.at = IF more THEN "begin" ELSE "read",
                              !.turn = IF more THEN x.turn + 1 ELSE 1, !.linked = {}]
    <3>1. (IF more THEN x.turn + 1 ELSE 1) \in DOMAIN Engines
      BY <1>1, Constants DEF State
    <3>2. /\ w \in State(r) /\ w.at = (IF more THEN "begin" ELSE "read")
          /\ w.turn = (IF more THEN x.turn + 1 ELSE 1) /\ w.linked = {} /\ w.failed = x.failed
          /\ w.place = x.place /\ w.source = x.source /\ w.urls = x.urls
      BY <1>1, <3>1 DEF State, PCs
    <3>3. req' = [req EXCEPT ![r] = w]
      BY <1>11, <2>2 DEF Commit
    <3> HIDE DEF w
    <3> QED
      BY <1>1, <1>11, <2>2, <3>2, <3>3 DEF Changed, CommitOne, Same, Commit, At
  <2> QED
    BY <2>1, <2>2
<1>12. CASE ReadRun(r)
  <2>1. CASE ~ended[r] /\ req' = [req EXCEPT ![r].at = "keep", ![r].found = RunURLs(Run(r))]
    <3> DEFINE w == [x EXCEPT !.at = "keep", !.found = RunURLs(Run(r))]
    <3>1. /\ w \in State(r) /\ w.at = "keep" /\ w.found = RunURLs(Run(r)) /\ w.turn = x.turn /\ w.failed = x.failed
          /\ w.linked = x.linked /\ w.place = x.place /\ w.source = x.source /\ w.urls = x.urls
      BY <1>1, Urls DEF State, PCs
    <3>2. req' = [req EXCEPT ![r] = w]
      BY <2>1
    <3> HIDE DEF w
    <3> QED
      BY <1>1, <1>12, <2>1, <3>1, <3>2 DEF Changed, ReadBack, Same, ReadRun, At
  <2>2. CASE req' = [req EXCEPT ![r].at = "finish", ![r].failed = TRUE]
    <3> DEFINE w == [x EXCEPT !.at = "finish", !.failed = TRUE]
    <3>1. /\ w \in State(r) /\ w.at = "finish" /\ w.failed /\ w.turn = x.turn
          /\ w.linked = x.linked /\ w.place = x.place /\ w.source = x.source /\ w.urls = x.urls
      BY <1>1 DEF State, PCs
    <3>2. req' = [req EXCEPT ![r] = w]
      BY <2>2
    <3> HIDE DEF w
    <3> QED
      BY <1>1, <1>12, <2>2, <3>1, <3>2 DEF Changed, ReadBack, Same, ReadRun, At
  <2> QED
    BY <1>12, <2>1, <2>2 DEF ReadRun
<1>13. CASE KeepInCache(r)
  BY <1>13, GotoFrame DEF KeepInCache, At, Walk, PCs
<1>14. CASE FinishRun(r)
  <2>1. CASE x.failed
    BY <1>14, <2>1, GotoFrame DEF FinishRun, At, Walk, PCs
  <2>2. CASE ~x.failed
    <3>1. x.found \in SUBSET AllUrls
      BY <1>1 DEF State
    <3>2. /\ x.at = "finish" /\ Resolved(r, "live", x.found)
          /\ UNCHANGED <<searchMu, query, searches>> /\ UNCHANGED ended
      BY <1>14, <2>2 DEF FinishRun, At
    <3>3. Changed(r) /\ MovedOn(r, "live", x.found)
      BY <3>1, <3>2, ResolvedFrame
    <3> QED
      BY <2>2, <3>2, <3>3 DEF MovedOn, Answer
  <2> QED
    BY <2>1, <2>2
<1>15. CASE StartScrape(r)
  BY <1>15, GotoFrame DEF StartScrape, At, Walk, PCs
<1>16. CASE EndScrape(r)
  BY <1>16, GotoFrame DEF EndScrape, At, Walk, PCs
<1> QED
  BY <1>3, <1>4, <1>5, <1>6, <1>7, <1>8, <1>9, <1>10, <1>11, <1>12, <1>13, <1>14, <1>15, <1>16
     DEF RequestStep

\* What the steps of a request do to runs and to the search cache.
Bookkeeping(r) ==
  LET x == req[r]
      y == req'[r] IN
  /\ \/ cache' = cache
     \/ x.at = "keep" /\ cache' = [cache EXCEPT ![Term(r)] = [known |-> TRUE, urls |-> x.found]]
  /\ \/ run' = run /\ x.at \notin Running \cup {"scraping"} /\ y.at \notin Running
     \/ run' = run /\ x.at \in Running /\ y.at \in Running /\ y.place = x.place
     \/ /\ x.at = "start" /\ y.at = "lock" /\ y.place = x.place
        /\ run' = [run EXCEPT ![Run(r)] = "open"]
     \/ /\ x.at = "finish" /\ y.at \notin Running
        /\ run' = IF ended[r] THEN run ELSE [run EXCEPT ![Run(r)] = "finished"]
     \/ /\ x.at = "scrape" /\ y.at = "scraping" /\ Kept(r) /\ Live(r) = {}
        /\ run' = [run EXCEPT ![<<r, 0>>] = "open"]
     \/ /\ x.at = "scraping" /\ y.at = "answered"
        /\ run' = IF Live(r) = {} /\ ~ended[r] THEN [run EXCEPT ![<<r, 0>>] = "finished"] ELSE run

LEMMA RequestBooks ==
  ASSUME Types, NEW r \in Requests, Ask(r) \/ RequestStep(r)
  PROVE  Bookkeeping(r) /\ errors' \in 0 .. MaxErrors
<1> DEFINE x == req[r]
<1>1. /\ x \in State(r) /\ DOMAIN req = Requests /\ x.found \subseteq AllUrls
      /\ errors \in 0 .. MaxErrors /\ MaxErrors \in Nat
  BY HarvestAssumption DEF Types, State
<1>2. UNCHANGED errors \/ Errs(r) => errors' \in 0 .. MaxErrors
  BY <1>1 DEF Errs
<1>3. ASSUME NEW pc \in PCs, Goto(r, pc), cache' = cache, run' = run,
             \/ x.at \notin Running \cup {"scraping"} /\ pc \notin Running
             \/ x.at \in Running /\ pc \in Running
      PROVE  Bookkeeping(r)
  BY <1>3, GotoFrame DEF Bookkeeping, Kept
<1>4. ASSUME NEW source \in {"memory", "cache"}, NEW urls \in SUBSET AllUrls,
             x.at \in {"memory", "cache"}, Resolved(r, source, urls), cache' = cache, run' = run
      PROVE  Bookkeeping(r)
  BY <1>4, ResolvedFrame DEF MovedOn, Bookkeeping, Running
<1>5. CASE Ask(r)
  BY <1>1, <1>3, <1>5 DEF Ask, At, db, PCs, Running
<1>6. CASE Remember(r)
  BY <1>1, <1>3, <1>4, <1>6 DEF Remember, At, db, PCs, Running
<1>7. CASE LookupCache(r)
  <2>1. cache[Term(r)].urls \in SUBSET AllUrls
    <3>1. Term(r) \in AllTerms
      BY <1>1, Constants DEF Term, State
    <3> QED
      BY <3>1 DEF Types, Entry
  <2> QED
    BY <1>1, <1>3, <1>4, <1>7, <2>1 DEF LookupCache, At, db, PCs, Running
<1>8. CASE StartRun(r)
  <2>1. CASE Goto(r, "lock") /\ run' = [run EXCEPT ![Run(r)] = "open"] /\ UNCHANGED errors
    BY <1>1, <1>8, <2>1, GotoFrame DEF StartRun, At, Bookkeeping, Kept, PCs
  <2>2. CASE Errs(r) /\ Goto(r, "failed") /\ UNCHANGED run
    BY <1>2, <1>3, <1>8, <2>2 DEF StartRun, At, PCs, Running
  <2> QED
    BY <1>8, <2>1, <2>2 DEF StartRun
<1>9. CASE Lock(r)
  BY <1>1, <1>3, <1>9 DEF Lock, At, db, PCs, Running
<1>10. CASE FanIn(r)
  BY <1>1, <1>3, <1>10 DEF FanIn, At, db, PCs, Running
<1>11. ASSUME Changed(r), \/ Walk(r) \/ LinkMore(r) \/ GiveUp(r) \/ CommitOne(r) \/ ReadBack(r),
              x.at \in Saving \cup {"read"}, cache' = cache, run' = run
       PROVE  Bookkeeping(r)
  BY <1>11 DEF Walk, LinkMore, GiveUp, CommitOne, ReadBack, Same, Kept, Bookkeeping, Running, Saving
<1>12. x.at \in Saving \cup {"read"} => ~Answer(r) /\ ~TakeMutex(r)
  BY DEF Answer, TakeMutex, Saving
<1>13. ASSUME x.at \in Saving \cup {"read"}, cache' = cache, run' = run
       PROVE  Bookkeeping(r)
  BY <1>11, <1>12, <1>13, RequestPath
<1>14. CASE Begin(r)
  BY <1>1, <1>2, <1>13, <1>14 DEF Begin, At, Abort, Saving
<1>15. CASE Link(r)
  BY <1>1, <1>2, <1>13, <1>15 DEF Link, At, Abort, Saving
<1>16. CASE Commit(r)
  BY <1>1, <1>2, <1>13, <1>16 DEF Commit, At, Abort, Saving
<1>17. CASE ReadRun(r)
  BY <1>1, <1>2, <1>13, <1>17 DEF ReadRun, At
<1>18. CASE KeepInCache(r)
  BY <1>1, <1>18, GotoFrame DEF KeepInCache, At, Bookkeeping, Kept, PCs, Running
<1>19. CASE FinishRun(r)
  <2>1. /\ x.at = "finish" /\ UNCHANGED <<cache, errors>>
        /\ run' = IF ended[r] THEN run ELSE [run EXCEPT ![Run(r)] = "finished"]
    BY <1>19 DEF FinishRun, At
  <2>2. req'[r].at \notin Running
    <3>1. CASE x.failed
      BY <1>19, <3>1, GotoFrame DEF FinishRun, PCs, Running
    <3>2. CASE ~x.failed
      <4>1. Resolved(r, "live", x.found) /\ x.found \in SUBSET AllUrls
        BY <1>1, <1>19, <3>2 DEF FinishRun
      <4> QED
        BY <4>1, ResolvedFrame DEF MovedOn, Running
    <3> QED
      BY <3>1, <3>2
  <2> QED
    BY <1>1, <2>1, <2>2 DEF Bookkeeping
<1>20. CASE StartScrape(r)
  <2>1. CASE Live(r) = {} /\ Goto(r, "scraping") /\ run' = [run EXCEPT ![<<r, 0>>] = "open"]
    BY <1>1, <1>20, <2>1, GotoFrame DEF StartScrape, At, Bookkeeping, PCs
  <2>2. CASE UNCHANGED run /\ \E pc \in {"answered", "failed", "scraping"} : Goto(r, pc)
    BY <1>1, <1>3, <1>20, <2>2 DEF StartScrape, At, PCs, Running
  <2> QED
    BY <1>20, <2>1, <2>2 DEF StartScrape
<1>21. CASE EndScrape(r)
  BY <1>1, <1>21, GotoFrame DEF EndScrape, At, Bookkeeping, PCs
<1> QED
  BY <1>5, <1>6, <1>7, <1>8, <1>9, <1>10, <1>14, <1>15, <1>16, <1>17, <1>18, <1>19, <1>20, <1>21
     DEF RequestStep

-----------------------------------------------------------------------------
(***************************************************************************)
(* The engines' goroutines and the two steps of the surroundings.          *)
(***************************************************************************)
QueryMoved(r, e) ==
  LET q == query[r][e]
      p == query'[r][e] IN
  /\ UNCHANGED <<req, ended, searchMu, run, searches, cache, errors>>
  /\ q.at \notin {"idle", "done"} /\ p.at # "idle"
  /\ query' = [query EXCEPT ![r][e] = p] /\ p \in Query
  /\ \/ p.outcome = q.outcome /\ p.urls = q.urls /\ p.at # "done"
     \/ p.outcome = "skipped" /\ p.urls = {} /\ ended[r]
     \/ p.outcome \in {"failed", "empty"} /\ p.urls = {}
     \/ p.outcome = "page" /\ p.urls = Finds[e]

LEMMA QueryPath ==
  ASSUME Types, NEW r \in Requests, NEW e \in EngineSet, QueryStep(r, e)
  PROVE  QueryMoved(r, e)
<1> DEFINE q == query[r][e]
<1>1. q \in Query /\ query \in [Requests -> [EngineSet -> Query]]
  BY DEF Types
<1>2. UNCHANGED <<req, ended, searchMu, run, searches, cache, errors>>
  BY DEF QueryStep, TimedStep, Delay, newTab, searchByURL, searchByBox, collect, db
<1>3. ASSUME NEW pc \in {"newTab", "visit", "home", "box", "collect"}, QueryGoto(r, e, pc),
             q.at \notin {"idle", "done"}
      PROVE  QueryMoved(r, e)
  <2> DEFINE p == [q EXCEPT !.at = pc]
  <2>1. /\ p \in Query /\ p.at = pc /\ p.outcome = q.outcome /\ p.urls = q.urls
    BY <1>1, <1>3 DEF Query
  <2>2. query' = [query EXCEPT ![r][e] = p]
    BY <1>3 DEF QueryGoto
  <2> HIDE DEF p
  <2>3. query'[r][e] = p
    BY <1>1, <2>2
  <2> QED
    BY <1>2, <1>3, <2>1, <2>2, <2>3 DEF QueryMoved
<1>4. ASSUME NEW o \in {"skipped", "failed", "empty", "page"},
             NEW urls \in SUBSET AllUrls, Outcome(r, e, o, urls), q.at \notin {"idle", "done"},
             \/ o = "skipped" /\ urls = {} /\ ended[r]
             \/ o \in {"failed", "empty"} /\ urls = {}
             \/ o = "page" /\ urls = Finds[e]
      PROVE  QueryMoved(r, e)
  <2> DEFINE p == [at |-> "done", outcome |-> o, urls |-> urls]
  <2>1. /\ p \in Query /\ p.at = "done" /\ p.outcome = o /\ p.urls = urls
    BY <1>4 DEF Query, Outcomes
  <2>2. query' = [query EXCEPT ![r][e] = p]
    BY <1>4 DEF Outcome
  <2> HIDE DEF p
  <2>3. query'[r][e] = p
    BY <1>1, <2>2
  <2> QED
    BY <1>2, <1>4, <2>1, <2>2, <2>3 DEF QueryMoved
<1>5. Finds[e] \in SUBSET AllUrls /\ {} \in SUBSET AllUrls
  BY Constants
<1>6. CASE Delay(r, e)
  BY <1>3, <1>4, <1>5, <1>6 DEF Delay, QueryAt
<1>7. CASE newTab(r, e)
  BY <1>3, <1>4, <1>5, <1>7 DEF newTab, QueryAt
<1>8. CASE searchByURL(r, e)
  BY <1>3, <1>4, <1>5, <1>8 DEF searchByURL, QueryAt
<1>9. CASE searchByBox(r, e)
  BY <1>3, <1>4, <1>5, <1>9 DEF searchByBox, QueryAt
<1>10. CASE collect(r, e)
  BY <1>3, <1>4, <1>5, <1>10 DEF collect, QueryAt
<1> QED
  BY <1>6, <1>7, <1>8, <1>9, <1>10 DEF QueryStep, TimedStep

-----------------------------------------------------------------------------
(***************************************************************************)
(* The types.                                                              *)
(***************************************************************************)
LEMMA InitTypes == ASSUME Init PROVE Types
<1>1. \A r \in Requests : NewRequest(r) \in State(r)
  <2> SUFFICES ASSUME NEW r \in Requests PROVE NewRequest(r) \in State(r)
    OBVIOUS
  <2>1. 1 \in DOMAIN Engines /\ 1 \in DOMAIN Terms[r] /\ "new" \in PCs
    BY Constants DEF PCs
  <2>2. [k \in DOMAIN Terms[r] |-> "none"] \in [DOMAIN Terms[r] -> {"none", "memory", "cache", "live"}]
    OBVIOUS
  <2> QED
    BY <2>1, <2>2 DEF NewRequest, State
<1>2. NotAsked \in Query /\ NoEntry \in Entry
  BY DEF NotAsked, Query, Outcomes, NoEntry, Entry
<1>3. 0 \in 0 .. MaxErrors
  BY HarvestAssumption
<1> QED
  BY <1>1, <1>2, <1>3 DEF Init, Types

LEMMA Recorded ==
  ASSUME Types, NEW r \in Requests
  PROVE  /\ Record(r) \in Search /\ Record(r).engine = Engine(r) /\ Engine(r) \in EngineSet
         /\ Record(r).outcome = query[r][Engine(r)].outcome /\ Record(r).urls = req[r].linked
         /\ Record(r).run \in {NoRun, Run(r)}
         /\ Record(r).outcome \notin {"none", "skipped"} => Record(r).run = Run(r)
         /\ Run(r) \in Runs /\ Run(r) # NoRun
<1>1. req[r] \in State(r) /\ req[r].place \in 0 .. Len(Terms[r]) /\ req[r].linked \in SUBSET AllUrls
  BY Constants DEF Types, State
<1>2. Engine(r) \in EngineSet
  BY <1>1, Constants DEF Engine, State
<1>3. query[r][Engine(r)] \in Query /\ query[r][Engine(r)].outcome \in Outcomes
  BY <1>2 DEF Types, Query
<1>4. Run(r) \in Runs /\ Run(r) # NoRun
  BY <1>1, RunNames DEF Run
<1> QED
  BY <1>1, <1>2, <1>3, <1>4 DEF Record, Search

LEMMA DroppedTypes ==
  ASSUME Types, NEW r \in Requests
  PROVE  /\ Dropped(r) \in [Requests -> [EngineSet -> Query]]
         /\ \A h \in Requests : h # r => Dropped(r)[h] = query[h]
         /\ \A e \in EngineSet : Dropped(r)[r][e] = IF Queried(r, e) THEN NotAsked ELSE query[r][e]
<1>1. query \in [Requests -> [EngineSet -> Query]] /\ NotAsked \in Query
  BY DEF Types, NotAsked, Query, Outcomes
<1> DEFINE f == [e \in EngineSet |-> IF Queried(r, e) THEN NotAsked ELSE query[r][e]]
<1>2. f \in [EngineSet -> Query] /\ Dropped(r) = [query EXCEPT ![r] = f]
  BY <1>1 DEF Dropped
<1>3. \A e \in EngineSet : f[e] = IF Queried(r, e) THEN NotAsked ELSE query[r][e]
  OBVIOUS
<1> HIDE DEF f
<1> QED
  BY <1>1, <1>2, <1>3

\* The goroutines of a request that starts.
LEMMA AskedTypes ==
  ASSUME Types, NEW r \in Requests, TakeMutex(r)
  PROVE  /\ query' \in [Requests -> [EngineSet -> Query]]
         /\ \A h \in Requests : h # r => query'[h] = query[h]
         /\ \A e \in EngineSet :
              query'[r][e].at = "delay" /\ query'[r][e].outcome = "none" /\ query'[r][e].urls = {}
<1> DEFINE q == [NotAsked EXCEPT !.at = "delay"]
           f == [e \in EngineSet |-> q]
<1>1. query \in [Requests -> [EngineSet -> Query]]
  BY DEF Types
<1>2. q \in Query /\ q.at = "delay" /\ q.outcome = "none" /\ q.urls = {}
  BY DEF NotAsked, Query, Outcomes
<1> HIDE DEF q
<1>3. f \in [EngineSet -> Query] /\ \A e \in EngineSet : f[e] = q
  BY <1>2
<1>4. query' = [query EXCEPT ![r] = f]
  BY DEF TakeMutex, q
<1> HIDE DEF f
<1> QED
  BY <1>1, <1>2, <1>3, <1>4

LEMMA TypesStep ==
  ASSUME Types, [Next]_vars
  PROVE  Types'
<1>1. ASSUME NEW r \in Requests, Ask(r) \/ RequestStep(r) PROVE Types'
  <2>1. UNCHANGED ended /\ Changed(r) /\ Bookkeeping(r) /\ errors' \in 0 .. MaxErrors
    BY <1>1, RequestPath, RequestBooks
  <2>2. DOMAIN req' = Requests /\ \A h \in Requests : req'[h] \in State(h)
    BY <2>1 DEF Types, Changed
  <2>3. /\ searchMu' \in Requests \cup {NoOne} /\ searches' \subseteq Search
        /\ query' \in [Requests -> [EngineSet -> Query]]
    <3>1. CASE Walk(r) \/ Answer(r) \/ LinkMore(r) \/ ReadBack(r)
      BY <3>1 DEF Types, Walk, Answer, LinkMore, ReadBack
    <3>2. CASE TakeMutex(r)
      BY <3>2, AskedTypes DEF Types, TakeMutex
    <3>3. CASE GiveUp(r)
      BY <3>3, DroppedTypes DEF Types, GiveUp
    <3>4. CASE CommitOne(r)
      BY <3>4, DroppedTypes, Recorded DEF Types, CommitOne
    <3> QED
      BY <1>1, <3>1, <3>2, <3>3, <3>4, RequestPath
  <2>4. run' \in [Runs -> {"none", "open", "finished"}]
    BY <2>1 DEF Types, Bookkeeping
  <2>5. cache' \in [AllTerms -> Entry]
    <3>1. [known |-> TRUE, urls |-> req[r].found] \in Entry
      BY DEF Types, State, Entry
    <3> QED
      BY <2>1, <3>1 DEF Types, Bookkeeping
  <2> QED
    BY <2>1, <2>2, <2>3, <2>4, <2>5 DEF Types
<1>2. ASSUME NEW r \in Requests, EndContext(r) PROVE Types'
  BY <1>2 DEF Types, EndContext, db
<1>3. ASSUME NEW r \in Requests, NEW e \in EngineSet, QueryStep(r, e) PROVE Types'
  <2>1. QueryMoved(r, e)
    BY <1>3, QueryPath
  <2>2. query' \in [Requests -> [EngineSet -> Query]]
    <3>1. PICK p \in Query : query' = [query EXCEPT ![r][e] = p]
      BY <2>1 DEF QueryMoved
    <3>2. query \in [Requests -> [EngineSet -> Query]]
      BY DEF Types
    <3> QED
      BY <3>1, <3>2
  <2> QED
    BY <2>1, <2>2 DEF QueryMoved, Types
<1>4. ASSUME NEW t \in AllTerms, ExpireEntry(t) PROVE Types'
  <2>1. NoEntry \in Entry
    BY DEF NoEntry, Entry
  <2> QED
    BY <1>4, <2>1 DEF Types, ExpireEntry
<1>5. CASE UNCHANGED vars
  BY <1>5 DEF Types, vars
<1> QED
  BY <1>1, <1>2, <1>3, <1>4, <1>5 DEF Next

\* The states of requests, the mutex, the tabs, the rows and the caches are of
\* their types, for any requests, terms and engines.
THEOREM HarvestTypeCorrect == Spec => []TypeOK
<1>1. Init => Types
  BY InitTypes
<1>2. Types /\ [Next]_vars => Types'
  BY TypesStep
<1>3. Types => TypeOK
  <2> SUFFICES ASSUME Types PROVE TypeOK
    OBVIOUS
  <2>1. ASSUME NEW r \in Requests
        PROVE  /\ req[r].at \in PCs
               /\ req[r].place \in DOMAIN Terms[r] /\ req[r].turn \in DOMAIN Engines
               /\ req[r].linked \subseteq AllUrls /\ req[r].found \subseteq AllUrls
               /\ req[r].failed \in BOOLEAN
               /\ req[r].source \in [DOMAIN Terms[r] -> {"none", "memory", "cache", "live"}]
               /\ req[r].urls \subseteq AllUrls
    BY <2>1 DEF Types, State
  <2> QED
    BY <2>1 DEF Types, TypeOK, PCs, Query, Outcomes, Search, Entry
<1> QED
  BY <1>1, <1>2, <1>3, PTL DEF Spec

-----------------------------------------------------------------------------
(***************************************************************************)
(* The mutex and the goroutines: a request has the mutex from before its   *)
(* goroutines start until they are done, and what they bring is an outcome.*)
(***************************************************************************)
Serial == \A r \in Requests : MutexOK(r)
Brought == \A r \in Requests, e \in EngineSet : QueryOK(r, e)

LEMMA InitSerial == ASSUME Init PROVE Serial /\ Brought
<1>1. ASSUME NEW r \in Requests
      PROVE  /\ req[r].at = "new" /\ searchMu = NoOne
             /\ \A e \in EngineSet : query[r][e] = NotAsked
  BY DEF Init, NewRequest
<1>2. NoOne \notin Requests
  BY Constants
<1>3. Serial
  BY <1>1, <1>2 DEF Serial, MutexOK, Searching, Saving
<1>4. NotAsked.at = "idle" /\ NotAsked.outcome = "none" /\ NotAsked.urls = {}
  BY DEF NotAsked
<1>5. Brought
  BY <1>1, <1>4 DEF Brought, QueryOK
<1> QED
  BY <1>3, <1>5

\* The mutex of a request that a step leaves where it is.
LEMMA OtherMutex ==
  ASSUME NEW h \in Requests, MutexOK(h), req'[h].at = req[h].at, query'[h] = query[h],
         searchMu' = h <=> searchMu = h
  PROVE  MutexOK(h)'
BY DEF MutexOK, Queried

LEMMA RequestMutex ==
  ASSUME Types, Serial, NEW r \in Requests, Ask(r) \/ RequestStep(r)
  PROVE  Serial'
<1> DEFINE x == req[r]
           y == req'[r]
<1>1. Changed(r) /\ MutexOK(r) /\ NoOne \notin Requests
  BY RequestPath, Constants DEF Serial
<1>2. ASSUME UNCHANGED <<searchMu, query>>, x.at \in Searching <=> y.at \in Searching,
             y.at \in Saving => x.at \in Saving \/ \A e \in EngineSet : Queried(r, e)
      PROVE  Serial'
  <2>1. MutexOK(r)'
    BY <1>1, <1>2 DEF MutexOK, Queried
  <2>2. ASSUME NEW h \in Requests, h # r PROVE MutexOK(h)'
    BY <1>1, <1>2, <2>2, OtherMutex DEF Changed, Serial
  <2> QED
    BY <2>1, <2>2 DEF Serial
<1>3. CASE Walk(r)
  BY <1>2, <1>3 DEF Walk, Searching, Saving
<1>4. CASE Answer(r)
  BY <1>2, <1>4 DEF Answer, Searching, Saving
<1>5. CASE LinkMore(r)
  BY <1>2, <1>5 DEF LinkMore, Searching, Saving
<1>6. CASE ReadBack(r)
  BY <1>2, <1>6 DEF ReadBack, Searching, Saving
<1>7. CASE TakeMutex(r)
  <2>1. MutexOK(r)'
    BY <1>1, <1>7 DEF TakeMutex, MutexOK, Searching, Saving
  <2>2. ASSUME NEW h \in Requests, h # r PROVE MutexOK(h)'
    <3>1. query'[h] = query[h] /\ searchMu' # h /\ searchMu # h
      BY <1>1, <1>7, <2>2, AskedTypes DEF TakeMutex
    <3> QED
      BY <1>1, <2>2, <3>1, OtherMutex DEF Changed, Serial
  <2> QED
    BY <2>1, <2>2 DEF Serial
<1>8. ASSUME x.at \in Saving, y.at \notin Searching, searchMu' = NoOne, query' = Dropped(r)
      PROVE  Serial'
  <2>1. searchMu = r /\ \A e \in EngineSet : Queried(r, e)
    BY <1>1, <1>8 DEF MutexOK, Saving, Searching
  <2>2. MutexOK(r)'
    <3>1. \A e \in EngineSet : query'[r][e] = NotAsked
      BY <1>8, <2>1, DroppedTypes
    <3>2. y.at \notin Saving /\ searchMu' # r
      BY <1>1, <1>8 DEF Saving, Searching
    <3> QED
      BY <1>8, <3>1, <3>2 DEF MutexOK
  <2>3. ASSUME NEW h \in Requests, h # r PROVE MutexOK(h)'
    <3>1. query'[h] = query[h] /\ searchMu' # h /\ searchMu # h
      BY <1>1, <1>8, <2>1, <2>3, DroppedTypes
    <3> QED
      BY <1>1, <2>3, <3>1, OtherMutex DEF Changed, Serial
  <2> QED
    BY <2>2, <2>3 DEF Serial
<1>9. CASE GiveUp(r)
  BY <1>8, <1>9 DEF GiveUp, Searching
<1>10. CASE CommitOne(r)
  <2>1. CASE x.turn < Len(Engines)
    BY <1>2, <1>10, <2>1 DEF CommitOne, Searching, Saving
  <2>2. CASE ~(x.turn < Len(Engines))
    BY <1>8, <1>10, <2>2 DEF CommitOne, Searching, Saving
  <2> QED
    BY <2>1, <2>2
<1> QED
  BY <1>3, <1>4, <1>5, <1>6, <1>7, <1>9, <1>10, RequestPath

LEMMA RequestBrings ==
  ASSUME Types, Brought, NEW r \in Requests, Ask(r) \/ RequestStep(r)
  PROVE  Brought'
<1>1. UNCHANGED ended
  BY RequestPath
<1>2. ASSUME NEW h \in Requests, NEW e \in EngineSet,
             \/ query'[h][e] = query[h][e]
             \/ query'[h][e].outcome = "none" /\ query'[h][e].urls = {} /\ query'[h][e].at # "done"
      PROVE  QueryOK(h, e)'
  BY <1>1, <1>2 DEF Brought, QueryOK
<1>3. ASSUME UNCHANGED query PROVE Brought'
  BY <1>2, <1>3 DEF Brought
<1>4. CASE TakeMutex(r)
  BY <1>2, <1>4, AskedTypes DEF Brought
<1>5. ASSUME query' = Dropped(r) PROVE Brought'
  <2>1. NotAsked.outcome = "none" /\ NotAsked.urls = {} /\ NotAsked.at # "done"
    BY DEF NotAsked
  <2> QED
    BY <1>2, <1>5, <2>1, DroppedTypes DEF Brought
<1> QED
  BY <1>3, <1>4, <1>5, RequestPath DEF Walk, Answer, LinkMore, ReadBack, GiveUp, CommitOne

LEMMA SerialStep ==
  ASSUME Types, Serial, Brought, [Next]_vars
  PROVE  Serial' /\ Brought'
<1>1. ASSUME NEW r \in Requests, Ask(r) \/ RequestStep(r) PROVE Serial' /\ Brought'
  BY <1>1, RequestMutex, RequestBrings
<1>2. ASSUME NEW r \in Requests, EndContext(r) PROVE Serial' /\ Brought'
  <2>1. UNCHANGED <<req, searchMu, query>> /\ \A h \in Requests : ended[h] => ended'[h]
    BY <1>2 DEF EndContext, Types
  <2> QED
    BY <2>1 DEF Serial, MutexOK, Queried, Brought, QueryOK
<1>3. ASSUME NEW r \in Requests, NEW e \in EngineSet, QueryStep(r, e) PROVE Serial' /\ Brought'
  <2>1. QueryMoved(r, e)
    BY <1>3, QueryPath
  <2>2. /\ UNCHANGED <<req, ended, searchMu>>
        /\ \A h \in Requests, f \in EngineSet :
             h # r \/ f # e => query'[h][f] = query[h][f]
    BY <2>1 DEF QueryMoved, Types
  <2>3. req[r].at \in Searching /\ req[r].at \notin Saving
    BY <2>1 DEF QueryMoved, Serial, MutexOK, Queried, NotAsked
  <2>4. Serial'
    BY <2>2, <2>3 DEF Serial, MutexOK, Queried
  <2>5. QueryOK(r, e)'
    <3>1. PICK p \in Query :
            /\ p = query'[r][e]
            /\ \/ p.outcome = query[r][e].outcome /\ p.urls = query[r][e].urls /\ p.at # "done"
               \/ p.outcome = "skipped" /\ p.urls = {} /\ ended[r]
               \/ p.outcome \in {"failed", "empty"} /\ p.urls = {}
               \/ p.outcome = "page" /\ p.urls = Finds[e]
      BY <2>1 DEF QueryMoved
    <3>2. QueryOK(r, e)
      BY DEF Brought
    <3> QED
      BY <2>2, <3>1, <3>2 DEF QueryOK
  <2> QED
    BY <2>2, <2>4, <2>5 DEF Brought, QueryOK
<1>4. ASSUME NEW t \in AllTerms, ExpireEntry(t) PROVE Serial' /\ Brought'
  BY <1>4 DEF ExpireEntry, Serial, MutexOK, Queried, Brought, QueryOK
<1>5. CASE UNCHANGED vars
  BY <1>5 DEF vars, Serial, MutexOK, Queried, Brought, QueryOK
<1> QED
  BY <1>1, <1>2, <1>3, <1>4, <1>5 DEF Next

\* Never two requests on the same engine: only the holder of the mutex has
\* goroutines, whoever's client has gone.
THEOREM OneAtATime == Spec => []NoBurst
<1>1. Init => Types /\ Serial /\ Brought
  BY InitTypes, InitSerial
<1>2. Types /\ Serial /\ Brought /\ [Next]_vars => (Types /\ Serial /\ Brought)'
  BY TypesStep, SerialStep
<1>3. Types /\ Serial => NoBurst
  <2> SUFFICES ASSUME Types, Serial, NEW e \in EngineSet
               PROVE  Cardinality({r \in Requests :
                        query[r][e].at \in {"visit", "home", "box", "collect"}}) <= 1
    BY DEF NoBurst
  <2> DEFINE On == {r \in Requests : query[r][e].at \in {"visit", "home", "box", "collect"}}
  <2>1. On \subseteq {searchMu}
    BY DEF Serial, MutexOK, NotAsked
  <2>2. IsFiniteSet({searchMu}) /\ Cardinality({searchMu}) = 1
    BY FS_Singleton
  <2> HIDE DEF On
  <2>3. Cardinality(On) <= 1
    BY <2>1, <2>2, FS_Subset
  <2> QED
    BY <2>3 DEF On
<1> QED
  BY <1>1, <1>2, <1>3, PTL DEF Spec

-----------------------------------------------------------------------------
(***************************************************************************)
(* The searches: each engine's outcome is saved once for a term, and the   *)
(* list that is read back is that of all of them.                          *)
(***************************************************************************)
Accounts == \A r \in Requests : SavesOK(r)

\* Searches that are not r's are none of h's business, nor is another term's.
LEMMA SearchesKept ==
  ASSUME NEW x, \A s \in (searches' \ searches) \cup (searches \ searches') : s.run # x
  PROVE  RunURLs(x)' = RunURLs(x)
BY DEF RunURLs

LEMMA SavedKept ==
  ASSUME NEW r, NEW k,
         \A s \in (searches' \ searches) \cup (searches \ searches') : s.run # <<r, k>>
  PROVE  /\ \A e \in EngineSet : Saved(r, k, e)' = Saved(r, k, e)
         /\ \A e \in EngineSet : Once(r, k, e)' <=> Once(r, k, e)
         /\ Unsaved(r, k)' <=> Unsaved(r, k)
         /\ Full(r, k)' <=> Full(r, k)
         /\ RunURLs(<<r, k>>)' = RunURLs(<<r, k>>)
<1>1. ASSUME NEW e \in EngineSet PROVE Saved(r, k, e)' = Saved(r, k, e)
  BY DEF Saved
<1>2. ASSUME NEW e \in EngineSet PROVE Once(r, k, e)' <=> Once(r, k, e)
  BY <1>1 DEF Once
<1>3. Unsaved(r, k)' <=> Unsaved(r, k)
  BY <1>1 DEF Unsaved
<1>4. Full(r, k)' <=> Full(r, k)
  BY <1>2 DEF Full
<1>5. RunURLs(<<r, k>>)' = RunURLs(<<r, k>>)
  BY SearchesKept
<1> QED
  BY <1>1, <1>2, <1>3, <1>4, <1>5

\* What is saved of r, as long as nothing new is.
LEMMA OtherSaves ==
  ASSUME Types, NEW h \in Requests, SavesOK(h), req'[h] = req[h], ended[h] => ended'[h],
         req[h].at = "commit" => query'[h] = query[h],
         \A s \in (searches' \ searches) \cup (searches \ searches') :
           \A k \in DOMAIN Terms[h] : s.run # <<h, k>>
  PROVE  SavesOK(h)'
<1> DEFINE x == req[h]
<1>1. x \in State(h) /\ x.place \in DOMAIN Terms[h]
  BY DEF Types, State
<1>2. \A k \in DOMAIN Terms[h] :
        /\ \A e \in EngineSet : Saved(h, k, e)' = Saved(h, k, e)
        /\ \A e \in EngineSet : Once(h, k, e)' <=> Once(h, k, e)
        /\ Unsaved(h, k)' <=> Unsaved(h, k)
        /\ Full(h, k)' <=> Full(h, k)
        /\ RunURLs(<<h, k>>)' = RunURLs(<<h, k>>)
  BY SavedKept
<1>3. x.at = "commit" => Collected(h)' = Collected(h)
  BY DEF Collected, Engine
<1>4. Linked(h)'
  BY <1>3 DEF SavesOK, Linked
<1>5. InTurn(h)'
  <2>1. \A i \in DOMAIN Engines :
          /\ Saved(h, x.place, Engines[i])' = Saved(h, x.place, Engines[i])
          /\ Once(h, x.place, Engines[i])' <=> Once(h, x.place, Engines[i])
    BY <1>1, <1>2, Constants
  <2> QED
    BY <2>1 DEF SavesOK, InTurn
<1>6. Ahead(h)'
  BY <1>1, <1>2 DEF SavesOK, Ahead
<1>7. ReadOK(h)'
  BY <1>1, <1>2 DEF SavesOK, ReadOK
<1>8. LiveOK(h)'
  <2>1. Live(h)' = Live(h) /\ \A k \in Live(h) : k \in DOMAIN Terms[h]
    BY DEF Live
  <2> QED
    BY <1>2, <2>1 DEF SavesOK, LiveOK
<1> QED
  BY <1>4, <1>5, <1>6, <1>7, <1>8 DEF SavesOK

\* r itself, when nothing is committed.
LEMMA OwnSaves ==
  ASSUME Types, Serial, NEW r \in Requests, SavesOK(r), UNCHANGED <<ended, searches>>, Changed(r),
         Walk(r) \/ Answer(r) \/ TakeMutex(r) \/ LinkMore(r) \/ GiveUp(r) \/ ReadBack(r)
  PROVE  SavesOK(r)'
<1> DEFINE x == req[r]
           y == req'[r]
<1>1. /\ x \in State(r) /\ x.place \in DOMAIN Terms[r] /\ y.place \in DOMAIN Terms[r]
      /\ x.source \in [DOMAIN Terms[r] -> {"none", "memory", "cache", "live"}]
      /\ DOMAIN Terms[r] = 1 .. Len(Terms[r]) /\ Len(Terms[r]) \in Nat
      /\ DOMAIN Engines = 1 .. Len(Engines) /\ Len(Engines) \in Nat
  BY Constants DEF Types, State, Changed
<1>2. \A k \in DOMAIN Terms[r] :
        /\ \A e \in EngineSet : Saved(r, k, e)' = Saved(r, k, e)
        /\ \A e \in EngineSet : Once(r, k, e)' <=> Once(r, k, e)
        /\ Unsaved(r, k)' <=> Unsaved(r, k)
        /\ Full(r, k)' <=> Full(r, k)
        /\ RunURLs(<<r, k>>)' = RunURLs(<<r, k>>)
  BY SavedKept
<1>3. \A k \in Live(r) : k \in DOMAIN Terms[r]
  BY DEF Live
<1>4. \A k \in DOMAIN Terms[r], i \in DOMAIN Engines :
        /\ Saved(r, k, Engines[i])' = Saved(r, k, Engines[i])
        /\ Once(r, k, Engines[i])' <=> Once(r, k, Engines[i])
  <2>1. \A i \in DOMAIN Engines : Engines[i] \in EngineSet
    BY Constants
  <2> QED
    BY <1>2, <2>1
<1>5. CASE Walk(r)
  <2>1. /\ y.place = x.place /\ y.turn = x.turn /\ y.linked = x.linked /\ y.found = x.found
        /\ y.failed = x.failed /\ y.source = x.source /\ y.urls = x.urls /\ query' = query
    BY <1>5 DEF Walk, Kept
  <2>2. Linked(r)'
    <3>1. Collected(r)' = Collected(r)
      BY <2>1 DEF Collected, Engine
    <3> QED
      BY <1>5, <2>1, <3>1 DEF Walk, SavesOK, Linked, Saving
  <2>3. InTurn(r)'
    <3>1. CASE x.at \in Saving
      BY <1>1, <1>4, <2>1, <3>1 DEF SavesOK, InTurn
    <3>2. CASE x.at = "wait"
      <4>1. x.turn = 1 /\ Unsaved(r, x.place)
        BY <3>2 DEF SavesOK, Linked, Ahead, Saving
      <4>2. \A i \in DOMAIN Engines : Engines[i] \in EngineSet /\ ~(i < 1)
        BY Constants
      <4>3. \A i \in DOMAIN Engines : Saved(r, x.place, Engines[i]) = {}
        BY <4>1, <4>2 DEF Unsaved
      <4> QED
        BY <1>1, <1>4, <2>1, <4>1, <4>2, <4>3 DEF InTurn
    <3>3. CASE x.at \notin Saving /\ x.at # "wait"
      BY <1>5, <3>3 DEF Walk, InTurn, Saving
    <3> QED
      BY <3>1, <3>2, <3>3
  <2>4. Ahead(r)'
    BY <1>1, <1>2, <1>5, <2>1 DEF Walk, SavesOK, Ahead
  <2>5. ReadOK(r)'
    BY <1>1, <1>2, <1>5, <2>1 DEF Walk, SavesOK, ReadOK
  <2>6. LiveOK(r)'
    <3>1. Live(r)' = Live(r)
      BY <2>1 DEF Live
    <3>2. x.at \in Over => y.at \in Over
      BY <1>5 DEF Walk, Over
    <3> QED
      BY <1>2, <1>3, <2>1, <3>1, <3>2 DEF SavesOK, LiveOK
  <2> QED
    BY <2>2, <2>3, <2>4, <2>5, <2>6 DEF SavesOK
<1>6. CASE Answer(r)
  <2>1. /\ x.at \in {"finish", "memory", "cache"} /\ y.at \in {"memory", "scrape"}
        /\ y.turn = x.turn /\ y.linked = x.linked /\ x.urls \subseteq y.urls
        /\ IF y.at = "memory" THEN y.place = x.place + 1 ELSE y.place = x.place
    BY <1>6 DEF Answer
  <2>2. Linked(r)' /\ InTurn(r)'
    BY <2>1 DEF SavesOK, Linked, InTurn, Saving
  <2>3. Ahead(r)'
    <3>1. \A k \in DOMAIN Terms[r] : k > y.place => k > x.place
      BY <1>1, <2>1
    <3>2. y.at = "memory" => y.place > x.place
      BY <1>1, <2>1
    <3> QED
      BY <1>1, <1>2, <2>1, <3>1, <3>2 DEF SavesOK, Ahead
  <2>4. ReadOK(r)'
    BY <2>1 DEF ReadOK
  <2>5. LiveOK(r)'
    <3> SUFFICES ASSUME NEW k \in DOMAIN Terms[r], y.source[k] = "live"
                 PROVE  /\ Full(r, k) /\ RunURLs(<<r, k>>) \subseteq y.urls
                        /\ k < y.place \/ y.at \in Over
      BY <1>2 DEF LiveOK, Live
    <3>1. CASE x.source[k] = "live"
      <4>1. Full(r, k) /\ RunURLs(<<r, k>>) \subseteq x.urls /\ k < x.place
        BY <2>1, <3>1 DEF SavesOK, LiveOK, Live, Over
      <4>2. k < y.place
        BY <1>1, <2>1, <4>1
      <4> QED
        BY <2>1, <4>1, <4>2
    <3>2. CASE x.source[k] # "live"
      <4>1. /\ x.at = "finish" /\ ~x.failed /\ x.found \subseteq y.urls /\ k = x.place
        BY <1>1, <1>6, <3>2 DEF Answer
      <4>2. Full(r, k) /\ RunURLs(<<r, k>>) \subseteq y.urls
        BY <4>1 DEF SavesOK, ReadOK
      <4>3. k < y.place \/ y.at \in Over
        BY <1>1, <2>1, <4>1 DEF Over
      <4> QED
        BY <4>2, <4>3
    <3> QED
      BY <3>1, <3>2
  <2> QED
    BY <2>2, <2>3, <2>4, <2>5 DEF SavesOK
<1>7. ASSUME Same(r), x.at \in Saving \cup {"lock", "read"}, y.at \in Saving \cup {"wait", "keep", "finish"},
             Linked(r)', InTurn(r)', ReadOK(r)', y.at = "wait" => x.at = "lock"
      PROVE  SavesOK(r)'
  <2>1. Ahead(r)'
    BY <1>1, <1>2, <1>7 DEF SavesOK, Ahead, Same, Saving
  <2>2. LiveOK(r)'
    <3>1. Live(r)' = Live(r) /\ x.at \notin Over
      BY <1>7 DEF Live, Same, Over, Saving
    <3> QED
      BY <1>2, <1>3, <1>7, <3>1 DEF SavesOK, LiveOK, Same
  <2> QED
    BY <1>7, <2>1, <2>2 DEF SavesOK
<1>8. CASE TakeMutex(r)
  BY <1>7, <1>8 DEF TakeMutex, Kept, Same, SavesOK, Linked, InTurn, ReadOK, Saving
<1>9. CASE LinkMore(r)
  <2>1. /\ Same(r) /\ x.at = "links" /\ y.at = "links" /\ y.turn = x.turn /\ y.place = x.place
    BY <1>9 DEF LinkMore, Same
  <2>2. InTurn(r)'
    BY <1>1, <1>4, <2>1 DEF SavesOK, InTurn, Saving
  <2> QED
    BY <1>7, <2>1, <2>2 DEF Linked, ReadOK, Saving
<1>10. CASE GiveUp(r)
  BY <1>7, <1>10 DEF GiveUp, Linked, InTurn, ReadOK, Saving
<1>11. CASE ReadBack(r)
  <2>1. /\ Same(r) /\ x.at = "read" /\ y.at \in {"keep", "finish"} /\ y.place = x.place
        /\ y.turn = x.turn /\ y.linked = x.linked
    BY <1>11 DEF ReadBack, Same
  <2>2. Linked(r)' /\ InTurn(r)'
    BY <2>1 DEF SavesOK, Linked, InTurn, Saving
  <2>3. ReadOK(r)'
    <3>1. CASE y.at = "keep" /\ ~ended[r] /\ y.found = RunURLs(Run(r))
      BY <1>1, <1>2, <2>1, <3>1 DEF SavesOK, ReadOK, Run
    <3>2. CASE y.at = "finish" /\ y.failed
      BY <3>2 DEF ReadOK
    <3> QED
      BY <1>11, <3>1, <3>2 DEF ReadBack
  <2> QED
    BY <1>7, <2>1, <2>2, <2>3
<1> QED
  BY <1>5, <1>6, <1>8, <1>9, <1>10, <1>11

\* What a commit is of: an outcome that came from the engine, whole.
LEMMA Committed ==
  ASSUME Types, Serial, Brought, NEW r \in Requests, SavesOK(r), CommitOne(r)
  PROVE  /\ Record(r).run = Run(r) /\ Record(r).engine = Engines[req[r].turn]
         /\ Record(r).urls = IF Record(r).outcome = "page" THEN Finds[Record(r).engine] ELSE {}
         /\ searches' = searches \cup {Record(r)}
         /\ Saved(r, req[r].place, Engines[req[r].turn]) = {}
         /\ req[r].at = "commit" /\ Run(r) = <<r, req[r].place>>
<1> DEFINE e == Engine(r)
<1>1. /\ req[r].at = "commit" /\ ~ended[r] /\ searches' = searches \cup {Record(r)}
      /\ Run(r) = <<r, req[r].place>>
  BY DEF CommitOne, Run
<1>2. e \in EngineSet /\ req[r].turn \in DOMAIN Engines /\ e = Engines[req[r].turn]
  BY Recorded DEF Engine, Types, State
<1>3. query[r][e].at = "done"
  BY <1>1, <1>2 DEF Serial, MutexOK, Saving, Queried
<1>4. /\ query[r][e].outcome \notin {"none", "skipped"}
      /\ query[r][e].urls = IF query[r][e].outcome = "page" THEN Finds[e] ELSE {}
  BY <1>1, <1>2, <1>3 DEF Brought, QueryOK
<1>5. req[r].linked = query[r][e].urls
  BY <1>1 DEF SavesOK, Linked, Collected
<1>6. Saved(r, req[r].place, e) = {}
  <2>1. ~(req[r].turn < req[r].turn)
    BY <1>2, Constants
  <2> QED
    BY <1>1, <1>2, <2>1 DEF SavesOK, InTurn, Saving
<1> HIDE DEF e
<1> QED
  BY <1>1, <1>2, <1>4, <1>5, <1>6, Recorded DEF e

LEMMA CommitSaves ==
  ASSUME Types, Serial, Brought, NEW r \in Requests, SavesOK(r), UNCHANGED ended, Changed(r),
         CommitOne(r)
  PROVE  SavesOK(r)'
<1> DEFINE x == req[r]
           y == req'[r]
           new == Record(r)
<1>1. /\ x \in State(r) /\ x.place \in DOMAIN Terms[r] /\ x.turn \in DOMAIN Engines
      /\ DOMAIN Engines = 1 .. Len(Engines) /\ Len(Engines) \in Nat
      /\ \A i \in DOMAIN Engines : Engines[i] \in EngineSet
      /\ \A i, j \in DOMAIN Engines : Engines[i] = Engines[j] => i = j
  BY Constants, HarvestAssumption DEF Types, State
<1>2. /\ x.at = "commit" /\ y.place = x.place /\ y.source = x.source /\ y.urls = x.urls
      /\ y.linked = {} /\ y.at \in {"begin", "read"}
      /\ y.at = "begin" => x.turn < Len(Engines) /\ y.turn = x.turn + 1
      /\ y.at = "read" => ~(x.turn < Len(Engines)) /\ y.turn = 1
  BY DEF CommitOne, Same
<1>3. /\ new.run = <<r, x.place>> /\ new.engine = Engines[x.turn]
      /\ searches' = searches \cup {new} /\ Saved(r, x.place, Engines[x.turn]) = {}
  BY Committed
<1> HIDE DEF new
<1>4. \A k \in DOMAIN Terms[r] : k # x.place =>
        /\ Unsaved(r, k)' <=> Unsaved(r, k)
        /\ Full(r, k)' <=> Full(r, k)
        /\ RunURLs(<<r, k>>)' = RunURLs(<<r, k>>)
  <2> SUFFICES ASSUME NEW k \in DOMAIN Terms[r], k # x.place
               PROVE  /\ Unsaved(r, k)' <=> Unsaved(r, k)
                      /\ Full(r, k)' <=> Full(r, k)
                      /\ RunURLs(<<r, k>>)' = RunURLs(<<r, k>>)
    OBVIOUS
  <2>1. \A s \in (searches' \ searches) \cup (searches \ searches') : s.run # <<r, k>>
    BY <1>3
  <2> QED
    BY <2>1, SavedKept
<1>5. \A i \in DOMAIN Engines : i < x.turn => Once(r, x.place, Engines[i])
  BY <1>2 DEF SavesOK, InTurn, Saving
<1>6. PICK p : p = x.place
  OBVIOUS
<1>7. ASSUME NEW i \in DOMAIN Engines
      PROVE  /\ i < x.turn + 1 => Once(r, p, Engines[i])'
             /\ Saved(r, p, Engines[i]) = {} /\ i # x.turn => Saved(r, p, Engines[i])' = {}
  <2>1. CASE i = x.turn
    <3>1. Saved(r, p, Engines[i])' = {new}
      BY <1>3, <1>6, <2>1 DEF Saved
    <3> QED
      BY <2>1, <3>1 DEF Once
  <2>2. CASE i # x.turn
    <3>1. Engines[i] # new.engine
      BY <1>1, <1>3, <2>2
    <3>2. Saved(r, p, Engines[i])' = Saved(r, p, Engines[i])
      BY <1>3, <3>1 DEF Saved
    <3>3. i < x.turn + 1 => i < x.turn
      BY <1>1, <2>2
    <3>4. i < x.turn => Once(r, p, Engines[i])
      BY <1>5, <1>6
    <3> QED
      BY <3>2, <3>3, <3>4 DEF Once
  <2> QED
    BY <2>1, <2>2
<1>8. Linked(r)'
  BY <1>2 DEF Linked, Saving
<1>9. InTurn(r)'
  <2>1. CASE y.at = "begin"
    <3>1. ASSUME NEW i \in DOMAIN Engines
          PROVE  IF i < x.turn + 1 THEN Once(r, p, Engines[i])' ELSE Saved(r, p, Engines[i])' = {}
      <4>1. ~(i < x.turn + 1) => Saved(r, p, Engines[i]) = {} /\ i # x.turn
        <5>1. ~(i < x.turn + 1) => ~(i < x.turn) /\ i # x.turn
          BY <1>1
        <5>2. ~(i < x.turn) => Saved(r, p, Engines[i]) = {}
          BY <1>2, <1>6 DEF SavesOK, InTurn, Saving
        <5> QED
          BY <5>1, <5>2
      <4> QED
        BY <1>7, <1>6, <4>1
    <3>2. y.place = p /\ y.turn = x.turn + 1
      BY <1>2, <1>6, <2>1
    <3> QED
      BY <3>1, <3>2 DEF InTurn
  <2>2. CASE y.at = "read"
    BY <2>2 DEF InTurn, Saving
  <2> QED
    BY <1>2, <2>1, <2>2
<1>10. Ahead(r)'
  <2>1. \A k \in DOMAIN Terms[r] : k > x.place => k # x.place
    BY <1>1, Constants
  <2> QED
    BY <1>2, <1>4, <2>1 DEF SavesOK, Ahead
<1>11. ReadOK(r)'
  <2>1. CASE y.at = "read"
    <3>1. \A i \in DOMAIN Engines : i < x.turn + 1
      BY <1>1, <1>2, <2>1
    <3>2. \A i \in DOMAIN Engines : Once(r, p, Engines[i])'
      BY <1>7, <1>6, <3>1
    <3>3. \A e \in EngineSet : Once(r, p, e)'
      BY <3>2 DEF EngineSet
    <3>4. y.place = p
      BY <1>2, <1>6
    <3> QED
      BY <2>1, <3>3, <3>4 DEF ReadOK, Full
  <2>2. CASE y.at = "begin"
    BY <2>2 DEF ReadOK
  <2> QED
    BY <1>2, <2>1, <2>2
<1>12. LiveOK(r)'
  <2>1. Live(r)' = Live(r)
    BY <1>2 DEF Live
  <2>2. \A k \in Live(r) : k \in DOMAIN Terms[r]
    BY DEF Live
  <2>3. \A k \in Live(r) : Full(r, k) /\ RunURLs(<<r, k>>) \subseteq x.urls /\ k < x.place
    BY <1>2 DEF SavesOK, LiveOK, Over
  <2>4. \A k \in Live(r) : k # x.place
    <3>1. \A k, l \in DOMAIN Terms[r] : k < l => k # l
      BY Constants
    <3> QED
      BY <1>1, <2>2, <2>3, <3>1
  <2> QED
    BY <1>2, <1>4, <2>1, <2>2, <2>3, <2>4 DEF LiveOK
<1> QED
  BY <1>8, <1>9, <1>10, <1>11, <1>12 DEF SavesOK

LEMMA InitAccounts == ASSUME Init PROVE Accounts
<1> SUFFICES ASSUME NEW r \in Requests PROVE SavesOK(r)
  BY DEF Accounts
<1>1. /\ req[r].at = "new" /\ req[r].turn = 1 /\ req[r].linked = {}
      /\ \A k \in DOMAIN Terms[r] : req[r].source[k] = "none"
      /\ searches = {}
  BY DEF Init, NewRequest
<1>2. Linked(r) /\ InTurn(r) /\ ReadOK(r)
  BY <1>1 DEF Linked, InTurn, ReadOK, Saving
<1>3. Ahead(r)
  BY <1>1 DEF Ahead, Unsaved, Saved
<1>4. LiveOK(r)
  BY <1>1 DEF LiveOK, Live
<1> QED
  BY <1>2, <1>3, <1>4 DEF SavesOK

LEMMA AccountsStep ==
  ASSUME Types, Serial, Brought, Accounts, [Next]_vars
  PROVE  Accounts'
<1>1. ASSUME NEW r \in Requests, Ask(r) \/ RequestStep(r) PROVE Accounts'
  <2>1. UNCHANGED ended /\ Changed(r) /\ SavesOK(r)
    BY <1>1, RequestPath DEF Accounts
  <2>2. \/ Walk(r) \/ Answer(r) \/ TakeMutex(r) \/ LinkMore(r) \/ GiveUp(r) \/ ReadBack(r)
        \/ CommitOne(r)
    BY <1>1, RequestPath
  <2>3. SavesOK(r)'
    <3>1. CASE CommitOne(r)
      BY <2>1, <3>1, CommitSaves
    <3>2. CASE Walk(r) \/ Answer(r) \/ TakeMutex(r) \/ LinkMore(r) \/ GiveUp(r) \/ ReadBack(r)
      <4>1. UNCHANGED searches
        BY <3>2 DEF Walk, Answer, TakeMutex, LinkMore, GiveUp, ReadBack
      <4> QED
        BY <2>1, <3>2, <4>1, OwnSaves
    <3> QED
      BY <2>2, <3>1, <3>2
  <2>4. ASSUME NEW h \in Requests, h # r PROVE SavesOK(h)'
    <3>1. SavesOK(h) /\ req'[h] = req[h]
      BY <2>1, <2>4 DEF Accounts, Changed
    <3>2. query'[h] = query[h]
      BY <2>2, <2>4, AskedTypes, DroppedTypes DEF Walk, Answer, LinkMore, GiveUp, ReadBack, CommitOne
    <3>3. \A s \in (searches' \ searches) \cup (searches \ searches') :
            \A k \in DOMAIN Terms[h] : s.run # <<h, k>>
      <4>1. CASE CommitOne(r)
        <5>1. searches' = searches \cup {Record(r)} /\ Record(r).run = Run(r) /\ Run(r) = <<r, req[r].place>>
          BY <2>1, <4>1, Committed
        <5> QED
          BY <2>4, <5>1
      <4>2. CASE UNCHANGED searches
        BY <4>2
      <4> QED
        BY <2>2, <4>1, <4>2 DEF Walk, Answer, TakeMutex, LinkMore, GiveUp, ReadBack
    <3> QED
      BY <2>1, <3>1, <3>2, <3>3, OtherSaves
  <2> QED
    BY <2>3, <2>4 DEF Accounts
<1>2. ASSUME UNCHANGED <<req, searches>>, NEW h \in Requests, ended[h] => ended'[h],
             req[h].at = "commit" => query'[h] = query[h]
      PROVE  SavesOK(h)'
  BY <1>2, OtherSaves DEF Accounts
<1>3. ASSUME NEW r \in Requests, EndContext(r) PROVE Accounts'
  <2>1. UNCHANGED <<req, query, searches>> /\ \A h \in Requests : ended[h] => ended'[h]
    BY <1>3 DEF EndContext, Types, db
  <2> QED
    BY <1>2, <2>1 DEF Accounts
<1>4. ASSUME NEW r \in Requests, NEW e \in EngineSet, QueryStep(r, e) PROVE Accounts'
  <2>1. QueryMoved(r, e)
    BY <1>4, QueryPath
  <2>2. UNCHANGED <<req, ended, searches>> /\ \A h \in Requests : h # r => query'[h] = query[h]
    BY <2>1 DEF QueryMoved, Types
  <2>3. req[r].at # "commit"
    BY <2>1 DEF QueryMoved, Serial, MutexOK, Queried, Saving
  <2> QED
    BY <1>2, <2>2, <2>3 DEF Accounts
<1>5. ASSUME NEW t \in AllTerms, ExpireEntry(t) PROVE Accounts'
  BY <1>2, <1>5 DEF ExpireEntry, Accounts
<1>6. CASE UNCHANGED vars
  BY <1>2, <1>6 DEF vars, Accounts
<1> QED
  BY <1>1, <1>3, <1>4, <1>5, <1>6 DEF Next

\* An answer accounts for every engine of every term it took to them.
THEOREM AnswerIsWhole == Spec => []AnswerAccounted
<1>1. Init => Types /\ Serial /\ Brought /\ Accounts
  BY InitTypes, InitSerial, InitAccounts
<1>2. Types /\ Serial /\ Brought /\ Accounts /\ [Next]_vars => (Types /\ Serial /\ Brought /\ Accounts)'
  BY TypesStep, SerialStep, AccountsStep
<1>3. Accounts => AnswerAccounted
  <2> SUFFICES ASSUME Accounts, NEW r \in Requests, NEW k \in Live(r)
               PROVE  /\ \A e \in EngineSet :
                           Cardinality({s \in searches : s.run = <<r, k>> /\ s.engine = e}) = 1
                      /\ RunURLs(<<r, k>>) \subseteq req[r].urls
    BY DEF AnswerAccounted
  <2>1. Full(r, k) /\ RunURLs(<<r, k>>) \subseteq req[r].urls
    BY DEF Accounts, SavesOK, LiveOK
  <2>2. ASSUME NEW e \in EngineSet PROVE Cardinality(Saved(r, k, e)) = 1
    <3>1. PICK s \in Saved(r, k, e) : Saved(r, k, e) = {s}
      BY <2>1, <2>2 DEF Full, Once
    <3>2. Cardinality({s}) = 1
      BY FS_Singleton
    <3> QED
      BY <3>1, <3>2
  <2> QED
    BY <2>1, <2>2 DEF Saved
<1> QED
  BY <1>1, <1>2, <1>3, PTL DEF Spec

-----------------------------------------------------------------------------
(***************************************************************************)
(* The runs, the rows and the search cache.                                *)
(***************************************************************************)
Finishing == \A r \in Requests : RunOK(r)

LEMMA InitFinishing == ASSUME Init PROVE Finishing
<1>1. ASSUME NEW r \in Requests PROVE RunOK(r)
  <2>1. req[r].at \notin Running
    BY DEF Init, NewRequest, Running
  <2>2. \A k \in 0 .. Len(Terms[r]) : run[<<r, k>>] = "none"
    BY RunNames DEF Init
  <2> QED
    BY <2>1, <2>2 DEF RunOK
<1> QED
  BY <1>1 DEF Finishing

\* No other request's run changes.
LEMMA OwnRuns ==
  ASSUME Types, NEW r \in Requests, Bookkeeping(r)
  PROVE  \A x \in Runs : x[1] # r => run'[x] = run[x]
<1>1. /\ run \in [Runs -> {"none", "open", "finished"}]
      /\ Run(r) = <<r, req[r].place>>
  BY DEF Types, Run
<1> QED
  BY <1>1 DEF Bookkeeping

LEMMA RequestFinishing ==
  ASSUME Types, Finishing, NEW r \in Requests, UNCHANGED ended, Changed(r), Bookkeeping(r)
  PROVE  Finishing'
<1> DEFINE x == req[r]
           y == req'[r]
<1>1. /\ x.place \in 0 .. Len(Terms[r]) /\ x.place # 0 /\ Run(r) = <<r, x.place>>
      /\ run \in [Runs -> {"none", "open", "finished"}]
      /\ \A k \in 0 .. Len(Terms[r]) : <<r, k>> \in Runs
      /\ 0 \in 0 .. Len(Terms[r])
  BY Constants, RunNames DEF Types, State, Run
<1>2. /\ x.at \in Running => run[Run(r)] # "none"
      /\ \A k \in 0 .. Len(Terms[r]) : run[<<r, k>>] = "open" =>
           \/ ended[r]
           \/ k = x.place /\ x.at \in Running
           \/ k = 0 /\ x.at = "scraping" /\ Live(r) = {}
  BY DEF Finishing, RunOK
<1>3. RunOK(r)'
  <2> SUFFICES /\ y.at \in Running => run'[<<r, y.place>>] # "none"
               /\ \A k \in 0 .. Len(Terms[r]) : run'[<<r, k>>] = "open" =>
                    \/ ended[r]
                    \/ k = y.place /\ y.at \in Running
                    \/ k = 0 /\ y.at = "scraping" /\ Live(r)' = {}
    BY DEF RunOK, Run
  <2>1. CASE run' = run /\ x.at \notin Running \cup {"scraping"} /\ y.at \notin Running
    BY <1>2, <2>1
  <2>2. CASE run' = run /\ x.at \in Running /\ y.at \in Running /\ y.place = x.place
    BY <1>1, <1>2, <2>2 DEF Running
  <2>3. CASE /\ x.at = "start" /\ y.at = "lock" /\ y.place = x.place
             /\ run' = [run EXCEPT ![Run(r)] = "open"]
    <3>1. run'[<<r, x.place>>] = "open"
      BY <1>1, <2>3
    <3>2. \A k \in 0 .. Len(Terms[r]) : k # x.place => run'[<<r, k>>] = run[<<r, k>>]
      BY <1>1, <2>3
    <3> QED
      BY <1>2, <2>3, <3>1, <3>2 DEF Running
  <2>4. CASE /\ x.at = "finish" /\ y.at \notin Running
             /\ run' = IF ended[r] THEN run ELSE [run EXCEPT ![Run(r)] = "finished"]
    <3>1. ~ended[r] => run'[<<r, x.place>>] = "finished"
      BY <1>1, <2>4
    <3>2. ~ended[r] => \A k \in 0 .. Len(Terms[r]) : k # x.place => run'[<<r, k>>] = run[<<r, k>>]
      BY <1>1, <2>4
    <3> QED
      BY <1>2, <2>4, <3>1, <3>2
  <2>5. CASE /\ x.at = "scrape" /\ y.at = "scraping" /\ Kept(r) /\ Live(r) = {}
             /\ run' = [run EXCEPT ![<<r, 0>>] = "open"]
    <3>1. Live(r)' = {}
      BY <2>5 DEF Kept, Live
    <3>2. \A k \in 0 .. Len(Terms[r]) : k # 0 => run'[<<r, k>>] = run[<<r, k>>]
      BY <1>1, <2>5
    <3> QED
      BY <1>2, <2>5, <3>1, <3>2 DEF Running
  <2>6. CASE /\ x.at = "scraping" /\ y.at = "answered"
             /\ run' = IF Live(r) = {} /\ ~ended[r] THEN [run EXCEPT ![<<r, 0>>] = "finished"] ELSE run
    <3>1. Live(r) = {} /\ ~ended[r] => run'[<<r, 0>>] = "finished"
      BY <1>1, <2>6
    <3>2. \A k \in 0 .. Len(Terms[r]) : k # 0 => run'[<<r, k>>] = run[<<r, k>>]
      BY <1>1, <2>6
    <3>3. x.at \notin Running /\ y.at \notin Running
      BY <2>6 DEF Running
    <3> QED
      BY <1>1, <1>2, <2>6, <3>1, <3>2, <3>3
  <2> QED
    BY <2>1, <2>2, <2>3, <2>4, <2>5, <2>6 DEF Bookkeeping
<1>4. ASSUME NEW h \in Requests, h # r PROVE RunOK(h)'
  <2>1. req'[h] = req[h] /\ RunOK(h) /\ req[h].place \in 0 .. Len(Terms[h])
    BY <1>4, Constants DEF Changed, Finishing, Types, State
  <2>2. \A k \in 0 .. Len(Terms[h]) : run'[<<h, k>>] = run[<<h, k>>]
    BY <1>4, RunNames, OwnRuns
  <2> QED
    BY <2>1, <2>2 DEF RunOK, Run, Live
<1> QED
  BY <1>3, <1>4 DEF Finishing

LEMMA FinishingStep ==
  ASSUME Types, Finishing, [Next]_vars
  PROVE  Finishing'
<1>1. ASSUME NEW r \in Requests, Ask(r) \/ RequestStep(r) PROVE Finishing'
  BY <1>1, RequestPath, RequestBooks, RequestFinishing
<1>2. ASSUME UNCHANGED <<req, run>>, \A h \in Requests : ended[h] => ended'[h] PROVE Finishing'
  BY <1>2 DEF Finishing, RunOK, Run, Live
<1>3. ASSUME NEW r \in Requests, EndContext(r) PROVE Finishing'
  BY <1>2, <1>3 DEF EndContext, Types, db
<1>4. ASSUME NEW r \in Requests, NEW e \in EngineSet, QueryStep(r, e) PROVE Finishing'
  BY <1>2, <1>4, QueryPath DEF QueryMoved
<1>5. ASSUME NEW t \in AllTerms, ExpireEntry(t) PROVE Finishing'
  BY <1>2, <1>5 DEF ExpireEntry
<1>6. CASE UNCHANGED vars
  BY <1>2, <1>6 DEF vars
<1> QED
  BY <1>1, <1>3, <1>4, <1>5, <1>6 DEF Next

\* A request that is over has finished its runs, on every path, unless its
\* client has gone.
THEOREM NoRunLeftOpen == Spec => []RunsFinished
<1>1. Init => Types /\ Finishing
  BY InitTypes, InitFinishing
<1>2. Types /\ Finishing /\ [Next]_vars => (Types /\ Finishing)'
  BY TypesStep, FinishingStep
<1>3. Finishing => RunsFinished
  <2> SUFFICES ASSUME Finishing, NEW r \in Requests, NEW k \in 0 .. Len(Terms[r]),
                      req[r].at \in {"answered", "failed"}, ~ended[r]
               PROVE  run[<<r, k>>] # "open"
    BY DEF RunsFinished, Runs
  <2> QED
    BY DEF Finishing, RunOK, Running
<1> QED
  BY <1>1, <1>2, <1>3, PTL DEF Spec

Steady == Types /\ Serial /\ Brought /\ Accounts /\ Finishing

LEMMA InitSteady == ASSUME Init PROVE Steady
BY InitTypes, InitSerial, InitAccounts, InitFinishing DEF Steady

LEMMA SteadyStep == ASSUME Steady, [Next]_vars PROVE Steady'
BY TypesStep, SerialStep, AccountsStep, FinishingStep DEF Steady

\* A step of a request commits nothing, or one whole search of its own run.
LEMMA OneMore ==
  ASSUME Steady, NEW r \in Requests, Ask(r) \/ RequestStep(r)
  PROVE  \/ searches' = searches
         \/ CommitOne(r) /\ searches' = searches \cup {Record(r)} /\ Run(r) \in Runs /\ run[Run(r)] # "none"
<1>1. CASE CommitOne(r)
  <2>1. Run(r) \in Runs /\ searches' = searches \cup {Record(r)}
    BY <1>1, Recorded DEF CommitOne, Steady
  <2>2. run[Run(r)] # "none"
    BY <1>1 DEF CommitOne, Steady, Finishing, RunOK, Running
  <2> QED
    BY <1>1, <2>1, <2>2
<1>2. CASE Walk(r) \/ Answer(r) \/ TakeMutex(r) \/ LinkMore(r) \/ GiveUp(r) \/ ReadBack(r)
  BY <1>2 DEF Walk, Answer, TakeMutex, LinkMore, GiveUp, ReadBack
<1> QED
  BY <1>1, <1>2, RequestPath DEF Steady

LEMMA RowsStep ==
  ASSUME Steady, RowsWhole, [Next]_vars
  PROVE  RowsWhole'
<1>1. ASSUME NEW r \in Requests, Ask(r) \/ RequestStep(r) PROVE RowsWhole'
  <2>1. \A x \in Runs : run[x] # "none" => run'[x] # "none"
    <3>1. Bookkeeping(r) /\ run \in [Runs -> {"none", "open", "finished"}]
      BY <1>1, RequestBooks DEF Steady, Types
    <3> QED
      BY <3>1 DEF Bookkeeping
  <2>2. \A s \in searches : s.run \in Runs /\ run'[s.run] # "none"
                            /\ s.urls = IF s.outcome = "page" THEN Finds[s.engine] ELSE {}
    BY <2>1 DEF RowsWhole
  <2>3. CASE searches' = searches
    BY <2>2, <2>3 DEF RowsWhole
  <2>4. CASE CommitOne(r) /\ searches' = searches \cup {Record(r)} /\ Run(r) \in Runs /\ run[Run(r)] # "none"
    <3> DEFINE new == Record(r)
    <3>1. /\ new.run = Run(r)
          /\ new.urls = IF new.outcome = "page" THEN Finds[new.engine] ELSE {}
      BY <2>4, Committed DEF Steady, Accounts
    <3>2. searches' = searches \cup {new}
      BY <2>4
    <3> HIDE DEF new
    <3>3. \A s \in searches' : s.run \in Runs /\ run'[s.run] # "none"
                               /\ s.urls = IF s.outcome = "page" THEN Finds[s.engine] ELSE {}
      BY <2>1, <2>2, <2>4, <3>1, <3>2
    <3> QED
      BY <3>3 DEF RowsWhole
  <2> QED
    BY <1>1, <2>3, <2>4, OneMore
<1>2. ASSUME UNCHANGED <<run, searches>> PROVE RowsWhole'
  BY <1>2 DEF RowsWhole
<1>3. ASSUME NEW r \in Requests, EndContext(r) PROVE RowsWhole'
  BY <1>2, <1>3 DEF EndContext, db
<1>4. ASSUME NEW r \in Requests, NEW e \in EngineSet, QueryStep(r, e) PROVE RowsWhole'
  BY <1>2, <1>4, QueryPath DEF QueryMoved, Steady
<1>5. ASSUME NEW t \in AllTerms, ExpireEntry(t) PROVE RowsWhole'
  BY <1>2, <1>5 DEF ExpireEntry
<1>6. CASE UNCHANGED vars
  BY <1>2, <1>6 DEF vars
<1> QED
  BY <1>1, <1>3, <1>4, <1>5, <1>6 DEF Next

\* A committed search is whole, and of a run that is there.
THEOREM EveryRowWhole == Spec => []RowsWhole
<1>1. Init => Steady /\ RowsWhole
  BY InitSteady DEF Init, RowsWhole
<1>2. Steady /\ RowsWhole /\ [Next]_vars => (Steady /\ RowsWhole)'
  BY SteadyStep, RowsStep
<1> QED
  BY <1>1, <1>2, PTL DEF Spec

\* The run whose list an entry is: a term's, all engines saved.
Searched(t, x) ==
  /\ x[2] # 0 /\ Terms[x[1]][x[2]] = t
  /\ \A e \in EngineSet : \E s \in searches : s.run = x /\ s.engine = e
  /\ cache[t].urls = RunURLs(x)

LEMMA CacheStep ==
  ASSUME Steady, CacheIsSearched, [Next]_vars
  PROVE  CacheIsSearched'
<1>1. \A t \in AllTerms : cache[t].known => \E x \in Runs : Searched(t, x)
  BY DEF CacheIsSearched, Searched
<1>2. ASSUME NEW t \in AllTerms, NEW x \in Runs, Searched(t, x), cache'[t] = cache[t],
             RunURLs(x)' = RunURLs(x), searches \subseteq searches'
      PROVE  Searched(t, x)'
  BY <1>2 DEF Searched
<1>3. ASSUME \A t \in AllTerms : cache'[t].known => \E x \in Runs : Searched(t, x)'
      PROVE  CacheIsSearched'
  BY <1>3 DEF CacheIsSearched, Searched
<1>4. ASSUME UNCHANGED searches, NEW t \in AllTerms, cache'[t] = cache[t], cache[t].known
      PROVE  \E x \in Runs : Searched(t, x)'
  <2>1. PICK x \in Runs : Searched(t, x)
    BY <1>1, <1>4
  <2>2. RunURLs(x)' = RunURLs(x)
    BY <1>4 DEF RunURLs
  <2> QED
    BY <1>2, <1>4, <2>1, <2>2
<1>5. ASSUME NEW r \in Requests, Ask(r) \/ RequestStep(r) PROVE CacheIsSearched'
  <2> SUFFICES ASSUME NEW t \in AllTerms, cache'[t].known PROVE \E x \in Runs : Searched(t, x)'
    BY <1>3
  <2>1. Bookkeeping(r) /\ SavesOK(r) /\ Types /\ cache \in [AllTerms -> Entry]
    BY <1>5, RequestBooks DEF Steady, Accounts, Types
  <2>2. \/ searches' = searches
        \/ CommitOne(r) /\ searches' = searches \cup {Record(r)}
    BY <1>5, OneMore
  <2>3. CASE cache'[t] = cache[t] /\ searches' = searches
    BY <1>4, <2>3
  <2>4. CASE cache'[t] = cache[t] /\ CommitOne(r) /\ searches' = searches \cup {Record(r)}
    <3>1. PICK x \in Runs : Searched(t, x)
      BY <1>1, <2>4
    <3>2. /\ Record(r).run = Run(r) /\ Run(r) = <<r, req[r].place>>
          /\ Saved(r, req[r].place, Engines[req[r].turn]) = {}
          /\ Engines[req[r].turn] \in EngineSet
      BY <2>4, Committed, Recorded DEF Steady, Accounts, Engine
    <3>3. x # Run(r)
      BY <3>1, <3>2 DEF Searched, Saved
    <3>4. RunURLs(x)' = RunURLs(x)
      BY <2>4, <3>2, <3>3, SearchesKept
    <3> QED
      BY <1>2, <2>4, <3>1, <3>4
  <2>5. CASE cache'[t] # cache[t]
    <3>1. /\ req[r].at = "keep" /\ t = Term(r)
          /\ cache' = [cache EXCEPT ![Term(r)] = [known |-> TRUE, urls |-> req[r].found]]
      BY <2>1, <2>5 DEF Bookkeeping
    <3>2. /\ Run(r) = <<r, req[r].place>> /\ Run(r) \in Runs /\ req[r].place # 0
          /\ Terms[r][req[r].place] = t
      BY <2>1, <3>1, Recorded, Constants DEF Run, Term, Types, State
    <3>3. Full(r, req[r].place) /\ req[r].found = RunURLs(<<r, req[r].place>>)
      BY <2>1, <3>1 DEF SavesOK, ReadOK
    <3>4. searches' = searches
      <4>1. ~CommitOne(r)
        BY <3>1 DEF CommitOne
      <4> QED
        BY <2>2, <4>1
    <3>5. PICK x : x = <<r, req[r].place>>
      OBVIOUS
    <3>6. /\ x \in Runs /\ x[2] # 0 /\ Terms[x[1]][x[2]] = t
      BY <3>2, <3>5
    <3>7. \A e \in EngineSet : \E s \in searches : s.run = x /\ s.engine = e
      BY <3>3, <3>5 DEF Full, Once, Saved
    <3>8. cache'[t].urls = RunURLs(x)'
      <4>1. cache'[t].urls = req[r].found
        BY <2>1, <3>1
      <4> QED
        BY <3>3, <3>4, <3>5, <4>1 DEF RunURLs
    <3> QED
      BY <3>4, <3>6, <3>7, <3>8 DEF Searched
  <2> QED
    BY <2>2, <2>3, <2>4, <2>5
<1>6. ASSUME UNCHANGED <<searches, cache>> PROVE CacheIsSearched'
  BY <1>3, <1>4, <1>6
<1>7. ASSUME NEW r \in Requests, EndContext(r) PROVE CacheIsSearched'
  BY <1>6, <1>7 DEF EndContext, db
<1>8. ASSUME NEW r \in Requests, NEW e \in EngineSet, QueryStep(r, e) PROVE CacheIsSearched'
  BY <1>6, <1>8, QueryPath DEF QueryMoved, Steady
<1>9. ASSUME NEW u \in AllTerms, ExpireEntry(u) PROVE CacheIsSearched'
  <2>1. ASSUME NEW t \in AllTerms, cache'[t].known PROVE cache'[t] = cache[t]
    BY <1>9, <2>1 DEF ExpireEntry, NoEntry, Steady, Types
  <2>2. UNCHANGED searches
    BY <1>9 DEF ExpireEntry
  <2> QED
    BY <1>3, <1>4, <2>1, <2>2
<1>10. CASE UNCHANGED vars
  BY <1>6, <1>10 DEF vars
<1> QED
  BY <1>5, <1>7, <1>8, <1>9, <1>10 DEF Next

\* What the search cache holds is the list of a whole search for the term.
THEOREM CacheHoldsSearches == Spec => []CacheIsSearched
<1>1. Init => Steady /\ CacheIsSearched
  <2>1. Init => CacheIsSearched
    BY DEF Init, CacheIsSearched, NoEntry
  <2> QED
    BY <2>1, InitSteady
<1>2. Steady /\ CacheIsSearched /\ [Next]_vars => (Steady /\ CacheIsSearched)'
  BY SteadyStep, CacheStep
<1> QED
  BY <1>1, <1>2, PTL DEF Spec

-----------------------------------------------------------------------------
(***************************************************************************)
(* SearchContract: what has been told of the terms so far.                 *)
(***************************************************************************)
Told(r) ==
  LET x == req[r] IN
  /\ x.failed => x.at \in {"finish", "failed"}
  /\ x.at \in {"scrape", "scraping", "answered"} => x.place = Len(Terms[r])
  /\ x.at # "failed" => \A k \in DOMAIN Terms[r] :
       x.source[k] # "none" <=>
         k < x.place \/ (k = x.place /\ x.at \in {"scrape", "scraping", "answered"})

AllTold == \A r \in Requests : Told(r)

LEMMA InitTold == ASSUME Init PROVE AllTold
<1>1. ASSUME NEW r \in Requests PROVE Told(r)
  <2>1. req[r] = NewRequest(r)
    BY DEF Init
  <2> QED
    BY <2>1, Constants DEF NewRequest, Told
<1> QED
  BY <1>1 DEF AllTold

LEMMA RequestTold ==
  ASSUME Types, AllTold, NEW r \in Requests, Ask(r) \/ RequestStep(r)
  PROVE  AllTold'
<1> DEFINE x == req[r]
           y == req'[r]
<1>1. /\ Changed(r)
      /\ \/ Walk(r) \/ Answer(r) \/ TakeMutex(r) \/ LinkMore(r) \/ GiveUp(r) \/ CommitOne(r)
         \/ ReadBack(r)
  BY RequestPath
<1>2. /\ Told(r) /\ x \in State(r)
      /\ Len(Terms[r]) \in Nat \ {0} /\ DOMAIN Terms[r] = 1 .. Len(Terms[r])
      /\ x.source \in [DOMAIN Terms[r] -> {"none", "memory", "cache", "live"}]
      /\ x.place \in 1 .. Len(Terms[r])
  BY Constants DEF AllTold, Types, State
<1>3. Told(r)'
  <2>1. CASE Walk(r)
    BY <1>2, <2>1 DEF Walk, Kept, Told
  <2>2. CASE Answer(r)
    <3>1. PICK s \in {"memory", "cache", "live"} : y.source = [x.source EXCEPT ![x.place] = s]
      BY <2>2 DEF Answer
    <3>2. \A k \in DOMAIN Terms[r] : y.source[k] # "none" <=> k < x.place \/ k = x.place
      <4>1. x.at \in {"memory", "cache", "finish"}
        BY <2>2 DEF Answer
      <4>2. \A k \in DOMAIN Terms[r] : x.source[k] # "none" <=> k < x.place
        BY <1>2, <4>1 DEF Told
      <4> QED
        BY <1>2, <3>1, <4>2
    <3>3. ~x.failed /\ y.failed = x.failed
      BY <1>2, <2>2 DEF Answer, Told
    <3>4. CASE x.place < Len(Terms[r])
      <4>1. y.at = "memory" /\ y.place = x.place + 1
        BY <2>2, <3>4 DEF Answer
      <4> QED
        BY <1>2, <3>2, <3>3, <4>1 DEF Told
    <3>5. CASE ~(x.place < Len(Terms[r]))
      <4>1. y.at = "scrape" /\ y.place = x.place /\ x.place = Len(Terms[r])
        BY <1>2, <2>2, <3>5 DEF Answer
      <4> QED
        BY <1>2, <3>2, <3>3, <4>1 DEF Told
    <3> QED
      BY <3>4, <3>5
  <2>3. CASE TakeMutex(r)
    BY <1>2, <2>3 DEF TakeMutex, Kept, Told
  <2>4. CASE LinkMore(r) \/ GiveUp(r)
    BY <1>2, <2>4 DEF LinkMore, GiveUp, Same, Told, Saving
  <2>5. CASE CommitOne(r) \/ ReadBack(r)
    BY <1>2, <2>5 DEF CommitOne, ReadBack, Same, Told
  <2> QED
    BY <1>1, <2>1, <2>2, <2>3, <2>4, <2>5
<1>4. ASSUME NEW h \in Requests, h # r PROVE Told(h)'
  BY <1>1, <1>4 DEF Changed, AllTold, Told
<1> QED
  BY <1>3, <1>4 DEF AllTold

LEMMA ToldStep == ASSUME Types, AllTold, [Next]_vars PROVE AllTold'
<1>1. ASSUME UNCHANGED req PROVE AllTold'
  BY <1>1 DEF AllTold, Told
<1>2. ASSUME NEW r \in Requests, Ask(r) \/ RequestStep(r) PROVE AllTold'
  BY <1>2, RequestTold
<1>3. ASSUME NEW r \in Requests, EndContext(r) PROVE AllTold'
  BY <1>1, <1>3 DEF EndContext
<1>4. ASSUME NEW r \in Requests, NEW e \in EngineSet, QueryStep(r, e) PROVE AllTold'
  BY <1>1, <1>4, QueryPath DEF QueryMoved
<1>5. ASSUME NEW t \in AllTerms, ExpireEntry(t) PROVE AllTold'
  BY <1>1, <1>5 DEF ExpireEntry
<1>6. CASE UNCHANGED vars
  BY <1>1, <1>6 DEF vars
<1> QED
  BY <1>2, <1>3, <1>4, <1>5, <1>6 DEF Next

\* The state of a request in SearchContract.
StateOf(x) == IF x.at \in {"answered", "failed"} THEN x.at ELSE IF x.failed THEN "lost" ELSE "open"

LEMMA ContractStates ==
  ASSUME NEW r \in Requests, Changed(r)
  PROVE  /\ state' = [state EXCEPT ![r] = StateOf(req'[r])]
         /\ sources' = [sources EXCEPT ![r] = req'[r].source]
         /\ state[r] = StateOf(req[r]) /\ sources[r] = req[r].source
BY DEF Changed, state, sources, StateOf

LEMMA ContractRecords ==
  ASSUME NEW r \in Requests, NEW k \in DOMAIN Terms[r]
  PROVE  /\ Unsaved(r, k) => recorded[r][k] = {}
         /\ Full(r, k) => recorded[r][k] = EngineSet
         /\ \A e \in EngineSet : e \in recorded[r][k] <=> Saved(r, k, e) # {}
         /\ recorded[r][k] \subseteq EngineSet
<1>1. recorded[r][k] = {e \in EngineSet : Saved(r, k, e) # {}}
  BY DEF recorded, Saved
<1> QED
  BY <1>1 DEF Unsaved, Full, Once

LEMMA RecordsKept == ASSUME UNCHANGED searches PROVE UNCHANGED recorded
BY DEF recorded

\* One more engine is recorded for one term.
LEMMA RecordsMore ==
  ASSUME NEW r \in Requests, NEW k \in DOMAIN Terms[r], NEW e \in EngineSet, NEW s,
         s.run = <<r, k>>, s.engine = e, searches' = searches \cup {s}
  PROVE  recorded' = [recorded EXCEPT ![r][k] = @ \cup {e}]
<1> DEFINE Of(h, l) == {f \in EngineSet : \E z \in searches : z.run = <<h, l>> /\ z.engine = f}
<1>1. ASSUME NEW h \in Requests, NEW l \in DOMAIN Terms[h]
      PROVE  Of(h, l)' = IF h = r /\ l = k THEN Of(h, l) \cup {e} ELSE Of(h, l)
  <2>1. ASSUME NEW f \in EngineSet
        PROVE  (\E z \in searches' : z.run = <<h, l>> /\ z.engine = f)
                 <=> \/ \E z \in searches : z.run = <<h, l>> /\ z.engine = f
                     \/ h = r /\ l = k /\ f = e
    OBVIOUS
  <2> QED
    BY <2>1
<1>2. recorded = [h \in Requests |-> [l \in DOMAIN Terms[h] |-> Of(h, l)]]
  BY DEF recorded
<1>3. recorded' = [h \in Requests |-> [l \in DOMAIN Terms[h] |-> Of(h, l)']]
  BY DEF recorded
<1> HIDE DEF Of
<1> QED
  BY <1>1, <1>2, <1>3

Agreed == Steady /\ AllTold

LEMMA ContractInit == Init => Contract!Init
<1> SUFFICES ASSUME Init PROVE Contract!Init
  OBVIOUS
<1>1. state = [r \in Requests |-> "open"]
  BY DEF Init, NewRequest, state
<1>2. sources = [r \in Requests |-> [k \in DOMAIN Terms[r] |-> "none"]]
  BY DEF Init, NewRequest, sources
<1>3. recorded = [r \in Requests |-> [k \in DOMAIN Terms[r] |-> {}]]
  BY DEF Init, recorded
<1> QED
  BY <1>1, <1>2, <1>3 DEF Init, Contract!Init

\* What SearchContract has to know of a request that is at a term.
LEMMA AtTerm ==
  ASSUME Agreed, NEW r \in Requests, req[r].at \notin Over
  PROVE  LET x == req[r] IN
         /\ x.place \in DOMAIN Terms[r] /\ x.source \in [DOMAIN Terms[r] -> {"none", "memory", "cache", "live"}]
         /\ x.at # "finish" => Contract!Current(r, x.place)
         /\ x.at = "finish" /\ ~x.failed => Contract!Current(r, x.place)
         /\ searchMu = r <=> x.at \in Searching
         /\ x.at \in {"memory", "cache", "lock"} => recorded[r][x.place] = {}
         /\ x.at = "finish" /\ ~x.failed => recorded[r][x.place] = EngineSet
<1> DEFINE x == req[r]
<1>1. /\ Told(r) /\ x \in State(r) /\ x.place \in DOMAIN Terms[r]
      /\ x.source \in [DOMAIN Terms[r] -> {"none", "memory", "cache", "live"}]
      /\ MutexOK(r) /\ SavesOK(r)
      /\ Len(Terms[r]) \in Nat \ {0} /\ DOMAIN Terms[r] = 1 .. Len(Terms[r])
  BY Constants DEF Agreed, AllTold, Steady, Types, Serial, Accounts, State
<1>2. \A k \in DOMAIN Terms[r] : x.source[k] # "none" <=> k < x.place
  BY <1>1 DEF Told, Over
<1>3. ~x.failed => Contract!Current(r, x.place)
  <2>1. state[r] = StateOf(x) /\ sources[r] = x.source
    BY DEF state, sources, StateOf
  <2> QED
    BY <1>1, <1>2, <2>1 DEF Contract!Current, StateOf, Over
<1>4. x.at # "finish" => ~x.failed
  BY <1>1 DEF Told, Over
<1>5. x.at \in {"memory", "cache", "lock"} => Unsaved(r, x.place)
  BY <1>1 DEF SavesOK, Ahead
<1>6. x.at = "finish" /\ ~x.failed => Full(r, x.place)
  BY <1>1 DEF SavesOK, ReadOK
<1> QED
  BY <1>1, <1>3, <1>4, <1>5, <1>6, ContractRecords DEF MutexOK

\* The last outcome is the one that makes the set of engines full.
LEMMA LastOutcome ==
  ASSUME Agreed, NEW r \in Requests, CommitOne(r)
  PROVE  LET x == req[r] IN
         /\ Engine(r) \notin recorded[r][x.place]
         /\ recorded[r][x.place] \cup {Engine(r)} = EngineSet <=> ~(x.turn < Len(Engines))
<1> DEFINE x == req[r]
           done == recorded[r][x.place]
<1>1. /\ x.at = "commit" /\ x.place \in DOMAIN Terms[r] /\ x.turn \in DOMAIN Engines
      /\ DOMAIN Engines = 1 .. Len(Engines) /\ Len(Engines) \in Nat \ {0}
      /\ Engine(r) = Engines[x.turn]
  BY Constants DEF CommitOne, Agreed, Steady, Types, State, Engine
<1>2. \A i \in DOMAIN Engines : Engines[i] \in EngineSet /\ (Engines[i] \in done <=> i < x.turn)
  <2>1. \A i \in DOMAIN Engines :
          IF i < x.turn THEN Once(r, x.place, Engines[i]) ELSE Saved(r, x.place, Engines[i]) = {}
    BY <1>1 DEF Agreed, Steady, Accounts, SavesOK, InTurn, Saving
  <2> QED
    BY <1>1, <2>1, Constants, ContractRecords DEF Once
<1>3. \A i, j \in DOMAIN Engines : Engines[i] = Engines[j] => i = j
  BY HarvestAssumption
<1>4. \A e \in EngineSet : \E i \in DOMAIN Engines : e = Engines[i]
  BY DEF EngineSet
<1>5. done \subseteq EngineSet
  BY <1>1, ContractRecords
<1> HIDE DEF done, x
<1>6. Engine(r) \notin done
  BY <1>1, <1>2
<1>7. CASE x.turn < Len(Engines)
  <2>1. x.turn + 1 \in DOMAIN Engines /\ x.turn + 1 # x.turn /\ ~(x.turn + 1 < x.turn)
    BY <1>1, <1>7
  <2>2. Engines[x.turn + 1] \in EngineSet /\ Engines[x.turn + 1] \notin done \cup {Engine(r)}
    BY <1>1, <1>2, <1>3, <2>1
  <2> QED
    BY <1>6, <1>7, <2>2 DEF done, x
<1>8. CASE ~(x.turn < Len(Engines))
  <2>1. ASSUME NEW e \in EngineSet PROVE e \in done \cup {Engine(r)}
    <3>1. PICK i \in DOMAIN Engines : e = Engines[i]
      BY <1>4
    <3>2. i < x.turn \/ i = x.turn
      BY <1>1, <1>8
    <3> QED
      BY <1>1, <1>2, <3>1, <3>2
  <2>2. Engine(r) \in EngineSet
    BY <1>1, <1>2
  <2> QED
    BY <1>5, <1>6, <1>8, <2>1, <2>2 DEF done, x
<1> QED
  BY <1>7, <1>8

LEMMA RequestContract ==
  ASSUME Agreed, NEW r \in Requests, Ask(r) \/ RequestStep(r)
  PROVE  [Contract!Next]_(Contract!vars)
<1> DEFINE x == req[r]
           y == req'[r]
<1>1. /\ Changed(r)
      /\ \/ Walk(r) \/ Answer(r) \/ TakeMutex(r) \/ LinkMore(r) \/ GiveUp(r) \/ CommitOne(r)
         \/ ReadBack(r)
  BY RequestPath DEF Agreed, Steady
<1>2. /\ state' = [state EXCEPT ![r] = StateOf(y)]
      /\ sources' = [sources EXCEPT ![r] = y.source]
      /\ state[r] = StateOf(x) /\ sources[r] = x.source
  BY <1>1, ContractStates
<1>3. /\ Told(r) /\ MutexOK(r) /\ x.place \in DOMAIN Terms[r] /\ x.failed \in BOOLEAN
      /\ Len(Terms[r]) \in Nat \ {0} /\ DOMAIN Terms[r] = 1 .. Len(Terms[r])
      /\ searchMu \in Requests \cup {NoOne} /\ NoOne \notin Requests
      /\ x \in State(r) /\ y \in State(r)
  BY <1>1, Constants DEF Agreed, AllTold, Steady, Types, Serial, State, Changed
<1>4. state = [h \in Requests |-> state[h]] /\ sources = [h \in Requests |-> sources[h]]
  BY DEF state, sources
<1>5. ASSUME StateOf(y) = StateOf(x), y.source = x.source, UNCHANGED <<searchMu, searches>>
      PROVE  [Contract!Next]_(Contract!vars)
  <2>1. UNCHANGED <<state, sources, recorded>>
    BY <1>2, <1>4, <1>5, RecordsKept
  <2> QED
    BY <1>5, <2>1 DEF Contract!vars
<1>6. ASSUME StateOf(y) = "lost", StateOf(x) = "open", y.source = x.source, searches' = searches,
             searchMu' = IF searchMu = r THEN NoOne ELSE searchMu
      PROVE  [Contract!Next]_(Contract!vars)
  <2>1. UNCHANGED <<sources, recorded>> /\ state' = [state EXCEPT ![r] = "lost"]
    BY <1>2, <1>4, <1>6, RecordsKept
  <2>2. Contract!Lose(r)
    BY <1>2, <1>6, <2>1 DEF Contract!Lose
  <2> QED
    BY <2>2 DEF Contract!Next
<1>7. CASE Walk(r)
  <2>1. /\ y.source = x.source /\ y.failed = x.failed /\ y.place = x.place
        /\ UNCHANGED <<searchMu, searches>>
    BY <1>7 DEF Walk, Kept
  <2>2. CASE y.at \notin {"answered", "failed"}
    <3>1. StateOf(y) = StateOf(x)
      BY <1>7, <2>1, <2>2 DEF Walk, StateOf
    <3> QED
      BY <1>5, <2>1, <3>1
  <2>3. CASE y.at \in {"answered", "failed"}
    <3>1. x.at \in {"start", "finish", "scrape", "scraping"}
      BY <1>7, <2>3 DEF Walk
    <3>2. searchMu # r /\ StateOf(x) \in {"open", "lost"} /\ StateOf(y) = y.at
      BY <1>3, <2>3, <3>1 DEF MutexOK, Searching, StateOf
    <3>3. UNCHANGED <<sources, recorded>>
      BY <1>2, <1>4, <2>1, RecordsKept
    <3>4. CASE y.at = "answered"
      <4>1. x.at \in {"scrape", "scraping"}
        BY <1>7, <3>4 DEF Walk
      <4>2. ~x.failed /\ \A k \in DOMAIN Terms[r] : x.source[k] # "none"
        BY <1>3, <4>1 DEF Told
      <4>3. state[r] = "open"
        BY <1>2, <4>1, <4>2 DEF StateOf
      <4>4. Contract!Return(r)
        BY <1>2, <2>1, <3>2, <3>3, <3>4, <4>2, <4>3 DEF Contract!Return
      <4> QED
        BY <4>4 DEF Contract!Next
    <3>5. CASE y.at = "failed"
      <4>1. Contract!Return(r)
        BY <1>2, <2>1, <3>2, <3>3, <3>5 DEF Contract!Return
      <4> QED
        BY <4>1 DEF Contract!Next
    <3> QED
      BY <2>3, <3>4, <3>5
  <2> QED
    BY <2>2, <2>3
<1>8. CASE Answer(r)
  <2>1. /\ x.at \in {"memory", "cache", "finish"} /\ ~x.failed /\ ~y.failed
        /\ y.at \in {"memory", "scrape"} /\ UNCHANGED <<searchMu, searches>>
    BY <1>3, <1>8 DEF Answer, Told
  <2>2. Contract!Current(r, x.place) /\ searchMu # r
    BY <2>1, AtTerm DEF Over, Searching
  <2>3. UNCHANGED <<state, recorded>>
    <3>1. StateOf(y) = StateOf(x)
      BY <2>1 DEF StateOf
    <3> QED
      BY <1>2, <1>4, <2>1, <3>1, RecordsKept
  <2>4. ASSUME NEW s, y.source = [x.source EXCEPT ![x.place] = s]
        PROVE  sources' = [sources EXCEPT ![r][x.place] = s]
    BY <1>2, <2>4
  <2>5. CASE x.at = "finish" /\ y.source = [x.source EXCEPT ![x.place] = "live"]
    <3>1. recorded[r][x.place] = EngineSet
      BY <2>1, <2>5, AtTerm DEF Over
    <3>2. Contract!Live(r, x.place)
      BY <2>1, <2>2, <2>3, <2>4, <2>5, <3>1 DEF Contract!Live, Contract!Answered
    <3> QED
      BY <1>3, <3>2 DEF Contract!Next
  <2>6. ASSUME x.at \in {"memory", "cache"}, NEW s \in {"memory", "cache"},
               y.source = [x.source EXCEPT ![x.place] = s]
        PROVE  [Contract!Next]_(Contract!vars)
    <3>1. recorded[r][x.place] = {}
      BY <2>6, AtTerm DEF Over
    <3>2. Contract!Hit(r, x.place)
      BY <2>1, <2>2, <2>3, <2>4, <2>6, <3>1 DEF Contract!Hit, Contract!Answered
    <3> QED
      BY <1>3, <3>2 DEF Contract!Next
  <2> QED
    BY <1>8, <2>5, <2>6 DEF Answer
<1>9. CASE TakeMutex(r)
  <2>1. /\ x.at = "lock" /\ y.at = "wait" /\ y.failed = x.failed /\ y.source = x.source
        /\ searchMu = NoOne /\ searchMu' = r /\ searches' = searches
    BY <1>9 DEF TakeMutex, Kept
  <2>2. Contract!Current(r, x.place) /\ recorded[r][x.place] = {}
    BY <2>1, AtTerm DEF Over
  <2>3. UNCHANGED <<state, sources, recorded>>
    <3>1. StateOf(y) = StateOf(x)
      BY <2>1 DEF StateOf
    <3> QED
      BY <1>2, <1>4, <2>1, <3>1, RecordsKept
  <2>4. Contract!Begin(r, x.place)
    BY <2>1, <2>2, <2>3 DEF Contract!Begin
  <2> QED
    BY <1>3, <2>4 DEF Contract!Next
<1>10. CASE LinkMore(r)
  BY <1>5, <1>10 DEF LinkMore, Same, StateOf
<1>11. CASE GiveUp(r)
  <2>1. /\ x.at \in Saving /\ y.at = "finish" /\ y.failed /\ y.source = x.source
        /\ searchMu' = NoOne /\ searches' = searches
    BY <1>11 DEF GiveUp, Same
  <2>2. searchMu = r /\ ~x.failed
    BY <1>3, <2>1 DEF MutexOK, Told, Saving, Searching
  <2>3. StateOf(y) = "lost" /\ StateOf(x) = "open"
    BY <2>1, <2>2 DEF StateOf, Saving
  <2> QED
    BY <1>6, <2>1, <2>2, <2>3
<1>12. CASE CommitOne(r)
  <2> DEFINE e == Engine(r)
             s == Record(r)
  <2>1. /\ x.at = "commit" /\ y.failed = x.failed /\ y.source = x.source
        /\ searchMu' = IF x.turn < Len(Engines) THEN searchMu ELSE NoOne
        /\ y.at \in {"begin", "read"}
    BY <1>12 DEF CommitOne, Same
  <2>2. s.run = <<r, x.place>> /\ s.engine = e /\ e \in EngineSet /\ searches' = searches \cup {s}
    BY <1>12, Committed, Recorded DEF Agreed, Steady, Accounts, Engine
  <2>3. UNCHANGED <<state, sources>>
    <3>1. StateOf(y) = StateOf(x)
      BY <2>1 DEF StateOf
    <3> QED
      BY <1>2, <1>4, <2>1, <3>1
  <2>4. searchMu = r /\ Contract!Current(r, x.place)
    BY <2>1, AtTerm DEF Over, Searching
  <2>5. /\ e \notin recorded[r][x.place]
        /\ recorded[r][x.place] \cup {e} = EngineSet <=> ~(x.turn < Len(Engines))
    BY <1>12, LastOutcome
  <2> HIDE DEF e, s
  <2>6. recorded' = [recorded EXCEPT ![r][x.place] = @ \cup {e}]
    <3>1. PICK k, f, z : k = x.place /\ f = e /\ z = s
      OBVIOUS
    <3>2. /\ k \in DOMAIN Terms[r] /\ f \in EngineSet
          /\ z.run = <<r, k>> /\ z.engine = f /\ searches' = searches \cup {z}
      BY <1>3, <2>2, <3>1
    <3> HIDE DEF x
    <3>3. recorded' = [recorded EXCEPT ![r][k] = @ \cup {f}]
      BY ONLY <3>2, r \in Requests, RecordsMore
    <3> QED
      BY <3>1, <3>3
  <2>7. Contract!Record(r, x.place, e)
    BY <2>1, <2>3, <2>4, <2>5, <2>6 DEF Contract!Record
  <2> QED
    BY <1>3, <2>2, <2>7 DEF Contract!Next
<1>13. CASE ReadBack(r)
  <2>1. x.at = "read" /\ y.source = x.source /\ UNCHANGED <<searchMu, searches>>
    BY <1>13 DEF ReadBack, Same
  <2>2. searchMu # r /\ ~x.failed
    BY <1>3, <2>1 DEF MutexOK, Told, Searching
  <2>3. CASE y.at = "keep" /\ y.failed = x.failed
    BY <1>5, <2>1, <2>3 DEF StateOf
  <2>4. CASE y.at = "finish" /\ y.failed
    BY <1>6, <2>1, <2>2, <2>4 DEF StateOf
  <2> QED
    BY <1>13, <2>3, <2>4 DEF ReadBack
<1> QED
  BY <1>1, <1>7, <1>8, <1>9, <1>10, <1>11, <1>12, <1>13

LEMMA ContractStep == ASSUME Agreed, [Next]_vars PROVE [Contract!Next]_(Contract!vars)
<1>1. ASSUME UNCHANGED <<req, searchMu, searches>> PROVE [Contract!Next]_(Contract!vars)
  BY <1>1, RecordsKept DEF state, sources, Contract!vars
<1>2. ASSUME NEW r \in Requests, Ask(r) \/ RequestStep(r) PROVE [Contract!Next]_(Contract!vars)
  BY <1>2, RequestContract
<1>3. ASSUME NEW r \in Requests, EndContext(r) PROVE [Contract!Next]_(Contract!vars)
  BY <1>1, <1>3 DEF EndContext, db
<1>4. ASSUME NEW r \in Requests, NEW e \in EngineSet, QueryStep(r, e)
      PROVE  [Contract!Next]_(Contract!vars)
  BY <1>1, <1>4, QueryPath DEF QueryMoved, Agreed, Steady
<1>5. ASSUME NEW t \in AllTerms, ExpireEntry(t) PROVE [Contract!Next]_(Contract!vars)
  BY <1>1, <1>5 DEF ExpireEntry
<1>6. CASE UNCHANGED vars
  BY <1>1, <1>6 DEF vars
<1> QED
  BY <1>2, <1>3, <1>4, <1>5, <1>6 DEF Next

\* Requests, the mutex, the transactions and the rows keep SearchContract: terms
\* in order and once, one request at the engines, each engine recorded once in
\* its turn, a live answer only after all of them, nothing after a lost turn.
THEOREM KeepsSearchContract == Spec => ImplementsContract
<1>1. Init => Agreed
  BY InitSteady, InitTold DEF Agreed
<1>2. Agreed /\ [Next]_vars => Agreed'
  BY SteadyStep, ToldStep DEF Agreed, Steady
<1>3. Agreed /\ [Next]_vars => [Contract!Next]_(Contract!vars)
  BY ContractStep
<1> QED
  BY <1>1, <1>2, <1>3, ContractInit, PTL DEF Spec, ImplementsContract, Contract!Spec
==============================================================================
