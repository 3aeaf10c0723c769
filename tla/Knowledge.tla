------------------------------ MODULE Knowledge ------------------------------
(***************************************************************************)
(* What the program remembers: the search cache (searchcache.go), memory   *)
(* facts (memory.go, gate.go, distill.go), the vectors that make both      *)
(* searchable, and the cleanup job that deletes expired rows (cleanup.go). *)
(*                                                                         *)
(* Every SQL statement is a step.  A hit is a SELECT, whose copy of tier   *)
(* and hit_count an UPDATE by id writes back later; a store is an UPDATE   *)
(* and, if that met no row, an INSERT; cleanup SELECTs ids and deletes     *)
(* them one by one.  Requests, distill jobs and cleanup run side by side.  *)
(*                                                                         *)
(* Any two queries, and any two facts, are similar enough for a semantic   *)
(* hit; max_age, volatility, the similarity threshold, top_k and the       *)
(* model's verdict may refuse any row, which is a choice.  Ids are used    *)
(* again once nothing mentions them, as if they were new.                  *)
(***************************************************************************)
EXTENDS Tiers, FiniteSets

CONSTANTS
  Queries,    \* normalized queries, the UNIQUE key of search_cache
  Facts,      \* facts that distillation or memory_store may bring
  Scopes,     \* sets of subjects; the clients of one behaviour ask about one
  Clients,    \* requests and distill jobs that run at the same time
  QueryIds,   \* row ids of search_cache; an INSERT takes a free one
  FactIds,    \* row ids of memory_facts
  Remember,   \* the remember values callers send
  MayErr,     \* TRUE: SQL statements may fail
  Prompt      \* TRUE: no request or distill job lasts a tick

Subjects == Queries \cup Facts
Ids == QueryIds \cup FactIds

ASSUME KnowledgeAssumption ==
  /\ Queries \cap Facts = {} /\ "none" \notin Subjects
  /\ Scopes \subseteq SUBSET Subjects
  /\ QueryIds \cap FactIds = {}
  /\ IsFiniteSet(Ids)
  /\ Remember \subseteq RememberValues \ {"off"}
  /\ MayErr \in BOOLEAN /\ Prompt \in BOOLEAN

VARIABLES
  scope,    \* the subjects asked about, chosen once
  table,    \* a vector table is active: the boot of this or an earlier start made one
  row,      \* search_cache and memory_facts: [of, tier, hits, left] or NoRow
  vectors,  \* ids with a vector in the active table
  toEmbed,  \* ids with an embed job in the queue
  client,   \* client[c]: the statement it is at, and what it holds
  cleanup,  \* the cleanup job: [at, todo, gone]
  granted   \* history: per id the tiers asked for, the hits recorded, and
            \* whether the write of its vector was given up, or skipped

vars == <<scope, table, row, vectors, toEmbed, client, cleanup, granted>>

NoRow == [of |-> "none", tier |-> "short", hits |-> 0, left |-> Expired]
Copies == [id : Ids, tier : TierNames, hits : 0 .. PromoteAfterHits]
Idle == [at |-> "idle", of |-> "none", tier |-> "short", ids |-> {}, copies |-> {}]
NoPass == [at |-> "idle", todo |-> {}, gone |-> {}]
NothingGranted == [asked |-> {}, hits |-> 0, lost |-> FALSE]

Init ==
  /\ scope \in Scopes
  /\ table \in BOOLEAN
  /\ row = [i \in Ids |-> NoRow]
  /\ vectors = {} /\ toEmbed = {}
  /\ client = [c \in Clients |-> Idle]
  /\ cleanup = NoPass
  /\ granted = [i \in Ids |-> NothingGranted]

Stored(i) == row[i].of # "none"
IdsOf(q) == {i \in QueryIds : row[i].of = q}
Copy(i) == [id |-> i, tier |-> row[i].tier, hits |-> row[i].hits]
At(c, pc) == client[c].at = pc
Goto(c, state) == client' = [client EXCEPT ![c] = state]
Mentioned ==
  vectors \cup toEmbed \cup cleanup.todo \cup cleanup.gone \cup
  UNION {client[c].ids \cup {k.id : k \in client[c].copies} : c \in Clients}
FreeIds == {i \in Ids \ Mentioned : ~Stored(i)}

\* INSERT of a row with no hits in the window of its tier.
Insert(i, s, tier) ==
  LET e == nextExpiry(tier, 0) IN
  /\ row' = [row EXCEPT ![i] = [of |-> s, tier |-> e.tier, hits |-> 0, left |-> e.left]]
  /\ granted' = [granted EXCEPT ![i] = [NothingGranted EXCEPT !.asked = {tier}]]

-----------------------------------------------------------------------------
(***************************************************************************)
(* Hits: resolver.Search over the cache, MemoryAnswer over facts.          *)
(***************************************************************************)
\* LookupSearchCacheExact: the SELECT by query_norm and freshEnough.
LookupExact(c, q) ==
  /\ At(c, "idle")
  /\ \/ \E i \in IdsOf(q) :
          /\ Fresh(row[i].left)
          /\ Goto(c, [Idle EXCEPT !.at = "touch", !.of = q, !.copies = {Copy(i)}])
     \/ Goto(c, [Idle EXCEPT !.at = "semantic", !.of = q])
  /\ UNCHANGED <<row, vectors, toEmbed, cleanup, granted>>

\* LookupSearchCacheSemantic: the SELECT by id of a similar query.
LookupSemantic(c) ==
  /\ At(c, "semantic")
  /\ \E i \in vectors \cap QueryIds :
       /\ Stored(i) /\ Fresh(row[i].left)
       /\ Goto(c, [client[c] EXCEPT !.at = "touch", !.copies = {Copy(i)}])
  /\ UNCHANGED <<row, vectors, toEmbed, cleanup, granted>>

\* MemoryAnswer up to its verdict: the facts it will record hits for.
RetrieveFacts(c) ==
  /\ At(c, "idle")
  /\ \E found \in SUBSET (vectors \cap FactIds) :
       /\ found # {}
       /\ \A i \in found : Stored(i) /\ Fresh(row[i].left)
       /\ Goto(c, [Idle EXCEPT !.at = "touch", !.copies = {Copy(i) : i \in found}])
  /\ UNCHANGED <<row, vectors, toEmbed, cleanup, granted>>

\* Mutant: the hit brings back a row that is no longer there.
MutTouchRevives(c) ==
  /\ At(c, "touch")
  /\ \E k \in client[c].copies :
       LET hits == IncHits(k.hits)
           e == nextExpiry(k.tier, hits)
       IN /\ row' = [row EXCEPT ![k.id] =
               [of |-> IF client[c].of = "none" THEN CHOOSE f \in Facts : TRUE ELSE client[c].of,
                tier |-> e.tier, hits |-> hits, left |-> e.left]]
          /\ granted' = [granted EXCEPT ![k.id].hits = IncHits(@)]
          /\ Goto(c, IF client[c].copies = {k} THEN Idle ELSE [client[c] EXCEPT !.copies = @ \ {k}])
  /\ UNCHANGED <<vectors, toEmbed, cleanup>>

\* touchSearchCache and touchMemoryFact: one UPDATE by id from the copy.
Touch(c) ==
  /\ At(c, "touch")
  /\ \E k \in client[c].copies :
       LET hits == IncHits(k.hits)
           e == nextExpiry(k.tier, hits)
       IN /\ IF Stored(k.id)
             THEN /\ row' = [row EXCEPT ![k.id] =
                       [@ EXCEPT !.tier = e.tier, !.hits = hits, !.left = e.left]]
                  /\ granted' = [granted EXCEPT ![k.id].hits = IncHits(@)]
             ELSE UNCHANGED <<row, granted>>
          /\ Goto(c, IF client[c].copies = {k} THEN Idle ELSE [client[c] EXCEPT !.copies = @ \ {k}])
  /\ UNCHANGED <<vectors, toEmbed, cleanup>>

\* A touch of the cache that errs makes the lookup a miss; one of memory is dropped.
TouchError(c) ==
  /\ MayErr /\ At(c, "touch")
  /\ Goto(c, IF client[c].of \in Queries
             THEN [Idle EXCEPT !.at = "semantic", !.of = client[c].of] ELSE Idle)
  /\ UNCHANGED <<row, vectors, toEmbed, cleanup, granted>>

-----------------------------------------------------------------------------
(***************************************************************************)
(* StoreSearchCache, after a live search.                                  *)
(***************************************************************************)
\* The UPDATE by query_norm resets the row; with no row an INSERT follows.
CacheUpdate(c) ==
  /\ At(c, "semantic")
  /\ \E v \in Remember :
       LET q == client[c].of
           tier == normalizeTier(v)
           e == nextExpiry(tier, 0)
       IN \/ \E i \in IdsOf(q) :
               /\ row' = [row EXCEPT ![i] = [of |-> q, tier |-> e.tier, hits |-> 0, left |-> e.left]]
               /\ granted' = [granted EXCEPT ![i].asked = @ \cup {tier}]
               /\ Goto(c, Idle)
          \/ /\ IdsOf(q) = {}
             /\ Goto(c, [Idle EXCEPT !.at = "insert", !.of = q, !.tier = tier])
             /\ UNCHANGED <<row, granted>>
  /\ UNCHANGED <<vectors, toEmbed, cleanup>>

\* The INSERT: query_norm is UNIQUE, and the error of a second row is logged.
CacheInsert(c) ==
  /\ At(c, "insert")
  /\ \/ /\ IdsOf(client[c].of) # {}
        /\ Goto(c, Idle)
        /\ UNCHANGED <<row, granted>>
     \/ /\ IdsOf(client[c].of) = {}
        /\ \E i \in FreeIds \cap QueryIds :
             /\ Insert(i, client[c].of, client[c].tier)
             /\ Goto(c, [Idle EXCEPT !.at = "enqueue", !.ids = {i}])
  /\ UNCHANGED <<vectors, toEmbed, cleanup>>

EnqueueEmbed(c) ==
  /\ At(c, "enqueue")
  /\ toEmbed' = toEmbed \cup client[c].ids
  /\ Goto(c, Idle)
  /\ UNCHANGED <<row, vectors, cleanup, granted>>

\* The embed job writes the vector whether or not the row is still there; it
\* errs as long as no table is active.
Embed(i) ==
  /\ table /\ i \in toEmbed
  /\ toEmbed' = toEmbed \ {i}
  /\ vectors' = vectors \cup {i}
  /\ UNCHANGED <<row, client, cleanup, granted>>

GivenUp(ids) ==
  granted' = [i \in Ids |->
    IF i \in ids \ vectors /\ Stored(i) THEN [granted[i] EXCEPT !.lost = TRUE] ELSE granted[i]]

\* The embed job has no attempt left (JobQueue).
EmbedFails(i) ==
  /\ MayErr \/ ~table
  /\ i \in toEmbed
  /\ toEmbed' = toEmbed \ {i}
  /\ GivenUp({i})
  /\ UNCHANGED <<row, vectors, client, cleanup>>

\* The engines bring nothing, or a statement of the stores errs: they return
\* there, and what they stored before stays.  The error is logged, or it fails
\* a distill job, which starts over.
StoreError(c) ==
  /\ client[c].at \in {"semantic", "insert", "enqueue", "refresh", "vector"}
  /\ MayErr
  /\ Goto(c, Idle)
  /\ GivenUp(IF client[c].at \in {"enqueue", "vector"} THEN client[c].ids ELSE {})
  /\ UNCHANGED <<row, vectors, toEmbed, cleanup>>

-----------------------------------------------------------------------------
(***************************************************************************)
(* StoreFact, for a fact of a distill job or of memory_store.              *)
(***************************************************************************)
\* VectorSearch: the nearest fact is close enough, or there is none (or no
\* table, or the store is migrating, or the search errs) and the fact is inserted.
FactSearch(c, f) ==
  /\ At(c, "idle")
  /\ \E v \in Remember :
       LET work == [Idle EXCEPT !.of = f, !.tier = rememberTier(v)] IN
       \/ \E i \in vectors \cap FactIds :
            /\ table
            /\ Goto(c, [work EXCEPT !.at = "scan", !.ids = {i}])
            /\ UNCHANGED <<row, granted>>
       \/ \E i \in FreeIds \cap FactIds :
            /\ Insert(i, f, work.tier)
            /\ Goto(c, [work EXCEPT !.at = IF table THEN "vector" ELSE "noTable", !.ids = {i}])
  /\ UNCHANGED <<vectors, toEmbed, cleanup>>

\* scanFact, whose error is dropped: the tier and hits the refresh keeps.
FactScan(c) ==
  /\ At(c, "scan")
  /\ \E i \in client[c].ids :
       \/ /\ Stored(i)
          /\ Goto(c, [client[c] EXCEPT !.at = "refresh", !.copies = {Copy(i)}])
       \/ /\ ~Stored(i) \/ MayErr
          /\ Goto(c, [client[c] EXCEPT !.at = "refresh",
                        !.copies = {[id |-> i, tier |-> client[c].tier, hits |-> 0]}])
  /\ UNCHANGED <<row, vectors, toEmbed, cleanup, granted>>

\* The UPDATE by id: text, tier and window, not hit_count.
FactRefresh(c) ==
  /\ At(c, "refresh")
  /\ \E k \in client[c].copies :
       LET e == nextExpiry(k.tier, k.hits) IN
       /\ IF Stored(k.id)
          THEN /\ row' = [row EXCEPT ![k.id].of = client[c].of,
                                     ![k.id].tier = e.tier, ![k.id].left = e.left]
               /\ granted' = [granted EXCEPT ![k.id].asked = @ \cup {client[c].tier}]
          ELSE UNCHANGED <<row, granted>>
  /\ Goto(c, [client[c] EXCEPT !.at = "vector", !.copies = {}])
  /\ UNCHANGED <<vectors, toEmbed, cleanup>>

\* UpsertVector, which is skipped without a word when StoreFact read that no
\* table is active; it returns the id in both cases.
FactVector(c) ==
  /\ \/ /\ At(c, "vector")
        /\ vectors' = vectors \cup client[c].ids
        /\ UNCHANGED granted
     \/ /\ At(c, "noTable")
        /\ GivenUp(client[c].ids)
        /\ UNCHANGED vectors
  /\ Goto(c, Idle)
  /\ UNCHANGED <<row, toEmbed, cleanup>>

-----------------------------------------------------------------------------
(***************************************************************************)
(* CleanupExpired: search_cache, then memory_facts, then the vectors of    *)
(* the rows it deleted.                                                    *)
(***************************************************************************)
\* Mutant: the SELECT has the comparison the wrong way round.
MutExpiredIds(ids) == {i \in ids : Stored(i) /\ row[i].left \in Nat \ {Never}}

ExpiredIds(ids) == {i \in ids : Stored(i) /\ row[i].left = Expired}

CleanupStart ==
  /\ cleanup.at = "idle"
  /\ cleanup' = [at |-> "search", todo |-> ExpiredIds(QueryIds), gone |-> {}]
  /\ UNCHANGED <<row, vectors, toEmbed, client, granted>>

CleanupNextTable ==
  /\ cleanup.todo = {}
  /\ \/ /\ cleanup.at = "search"
        /\ cleanup' = [cleanup EXCEPT !.at = "memory", !.todo = ExpiredIds(FactIds)]
     \/ /\ cleanup.at = "memory"
        /\ cleanup' = [cleanup EXCEPT !.at = "vectors"]
  /\ UNCHANGED <<row, vectors, toEmbed, client, granted>>

\* Mutant: the vector goes first, the row in a statement after it.
MutCleanupDelete(i) ==
  /\ i \in cleanup.todo
  /\ vectors' = vectors \ {i}
  /\ IF i \in vectors
     THEN UNCHANGED <<row, granted, cleanup>>
     ELSE /\ row' = [row EXCEPT ![i] = NoRow]
          /\ granted' = [granted EXCEPT ![i] = NothingGranted]
          /\ cleanup' = [cleanup EXCEPT !.todo = @ \ {i}]
  /\ UNCHANGED <<toEmbed, client>>

\* DELETE ... WHERE id = ?, without another look at expires_at.
CleanupDelete(i) ==
  /\ i \in cleanup.todo
  /\ row' = [row EXCEPT ![i] = NoRow]
  /\ granted' = [granted EXCEPT ![i] = NothingGranted]
  /\ cleanup' = [cleanup EXCEPT !.todo = @ \ {i}, !.gone = @ \cup {i}]
  /\ UNCHANGED <<vectors, toEmbed, client>>

\* DeleteVector for every row that was deleted; its errors are dropped.
CleanupVector ==
  /\ cleanup.at = "vectors"
  /\ \/ \E i \in cleanup.gone :
          /\ vectors' \in {vectors \ {i}} \cup (IF MayErr THEN {vectors} ELSE {})
          /\ cleanup' = [cleanup EXCEPT !.gone = @ \ {i}]
     \/ /\ cleanup.gone = {}
        /\ cleanup' = NoPass
        /\ UNCHANGED vectors
  /\ UNCHANGED <<row, toEmbed, client, granted>>

\* A statement errs: the pass ends there and the queue runs the job again,
\* which no longer knows whose vectors are left.
CleanupError ==
  /\ MayErr /\ cleanup.at \in {"search", "memory"}
  /\ cleanup' = NoPass
  /\ UNCHANGED <<row, vectors, toEmbed, client, granted>>

-----------------------------------------------------------------------------
\* bootVectors of a start whose predecessors all failed to make a table; the
\* job runner is already running.  (That a pass of the cleanup keeps the absence
\* it read is in CleanupVector's error: DeleteVector is then not called.)
FirstTable ==
  /\ ~table /\ table' = TRUE
  /\ UNCHANGED <<scope, row, vectors, toEmbed, client, cleanup, granted>>

Tick ==
  /\ Prompt => \A c \in Clients : At(c, "idle")
  /\ row' = [i \in Ids |-> [row[i] EXCEPT !.left = Older(@)]]
  /\ row' # row
  /\ UNCHANGED <<vectors, toEmbed, client, cleanup, granted>>

ClientStep(c) ==
  \/ LookupSemantic(c) \/ Touch(c) \/ TouchError(c) \/ StoreError(c)
  \/ CacheUpdate(c) \/ CacheInsert(c) \/ EnqueueEmbed(c)
  \/ FactScan(c) \/ FactRefresh(c) \/ FactVector(c)

CleanupStep ==
  \/ CleanupStart \/ CleanupNextTable \/ CleanupVector
  \/ \E i \in Ids : CleanupDelete(i)

Next ==
  \/ FirstTable
  \/ /\ \/ \E c \in Clients, q \in scope \cap Queries : LookupExact(c, q)
        \/ \E c \in Clients : RetrieveFacts(c) \/ ClientStep(c)
        \/ \E c \in Clients, f \in scope \cap Facts : FactSearch(c, f)
        \/ \E i \in Ids : Embed(i) \/ EmbedFails(i)
        \/ CleanupStep
        \/ CleanupError
        \/ Tick
     /\ UNCHANGED <<scope, table>>

Spec == Init /\ [][Next]_vars

\* The cleanup job recurs (registerJobs), and its statements are not refused
\* for ever: a job that errs is queued again.
Fairness ==
  /\ WF_vars(UNCHANGED <<scope, table>> /\ CleanupStart)
  /\ WF_vars(UNCHANGED <<scope, table>> /\ CleanupVector)
  /\ SF_vars(UNCHANGED <<scope, table>> /\ CleanupNextTable)
  /\ \A i \in Ids : SF_vars(UNCHANGED <<scope, table>> /\ CleanupDelete(i))

FairSpec == Spec /\ Fairness

-----------------------------------------------------------------------------
TypeOK ==
  /\ scope \in Scopes /\ table \in BOOLEAN
  /\ row \in [Ids -> [of : Subjects \cup {"none"}, tier : TierNames,
                     hits : 0 .. PromoteAfterHits, left : Lefts]]
  /\ vectors \subseteq Ids
  /\ toEmbed \subseteq QueryIds
  /\ client \in [Clients ->
       [at : {"idle", "touch", "semantic", "insert", "enqueue", "scan", "refresh", "vector",
              "noTable"},
        of : Subjects \cup {"none"}, tier : TierNames, ids : SUBSET Ids, copies : SUBSET Copies]]
  /\ cleanup \in [at : {"idle", "search", "memory", "vectors"},
                  todo : SUBSET Ids, gone : SUBSET Ids]
  /\ granted \in [Ids -> [asked : SUBSET TierNames, hits : 0 .. PromoteAfterHits, lost : BOOLEAN]]

\* A tier is asked for or, up to long, earned: however stale the copies that
\* hits and refreshes write back, no row counts more hits than were recorded
\* on it, none is long without the hits or permanent without the request
\* (tier.go: automatic promotion stops at long), and its window is its tier's.
TiersEarned ==
  \A i \in Ids : Stored(i) =>
    /\ row[i].hits <= granted[i].hits
    /\ \/ row[i].tier \in granted[i].asked
       \/ row[i].tier = "long" /\ granted[i].hits >= PromoteAfterHits
    /\ (row[i].tier = "permanent") <=> (row[i].left = Never)
    /\ row[i].tier # "permanent" => row[i].left <= tierTTL(row[i].tier)

\* Whoever deletes, stores and embeds at the same time, a row either has its
\* vector or somebody is still about to write it, unless that very write erred
\* for good, or was skipped for want of a table (memory.go:82, which tells
\* nobody): no row is lost to semantic lookups by a cleanup that takes the
\* vectors of rows it did not delete.
SearchableOrQueued ==
  \A i \in Ids : Stored(i) =>
    \/ i \in vectors \cup toEmbed
    \/ granted[i].lost
    \/ \E c \in Clients : i \in client[c].ids /\ client[c].at \in {"enqueue", "vector", "noTable"}

\* A row that was deleted stays away: hits and refreshes still on their way
\* with its copy do not bring it back.
NoResurrection ==
  [][\A i \in Ids : (~Stored(i) /\ Stored(i)') => i \in FreeIds]_vars

\* An expired row is deleted, or used or stored anew, in the end; a pass that
\* errs half-way only delays it.
ExpiredRowsLeave ==
  \A i \in Ids : (Stored(i) /\ row[i].left = Expired) ~> ~(Stored(i) /\ row[i].left = Expired)

\* StoreFact refreshes the nearest fact "if a near-identical fact already
\* exists" (memory.go): the fact it refreshes, and reports as stored, is there.
FactStored ==
  [][\A c \in Clients : FactRefresh(c) => \A k \in client[c].copies : Stored(k.id)]_vars
=============================================================================
