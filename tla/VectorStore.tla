---------------------------- MODULE VectorStore ----------------------------
(***************************************************************************)
(* The vector tables and their blue/green migration: bootVectors and the   *)
(* reembed job (reembed.go), the embed job (embed.go), the writers of the  *)
(* rows that own vectors (StoreSearchCache, StoreFact), and system_meta.   *)
(*                                                                         *)
(* Generation g is the table vectors_g<g>.  A vector is the model that     *)
(* made it.  The models share a dimension (the case in which no write to   *)
(* the wrong table is refused), so embed_dim never differs.  Every         *)
(* statement on system_meta, and every read that is used after a call to   *)
(* the embedding server, is a step.  The queue is JobContract's: a job     *)
(* that errs is queued again or, its attempts used up, failed; a job in a  *)
(* worker's hand when the process dies is queued again.                    *)
(*                                                                         *)
(* Where MayErr, any statement or embedding call may err.  An error of     *)
(* bootVectors ends it there, and the process serves all the same; the     *)
(* keys it reads after vector_table lose their errors, so that a read that *)
(* errs is an absent key.                                                  *)
(***************************************************************************)
EXTENDS Naturals, FiniteSets

CONSTANTS
  Facts,     \* rows of memory_facts, embedded while they are stored
  Queries,   \* rows of search_cache, embedded by a job of their own
  Models,    \* embedding models the configuration can name
  None,      \* no model: an absent vector or an absent embed_model
  MaxAttempts, \* JobRunner.maxAttempts
  MayErr,    \* TRUE: statements and embedding calls may err
  MaxBoots   \* bound on the times serveMode starts

Rows == Facts \cup Queries

\* A start makes at most one generation, so no start runs out of them.
Gens == 1 .. MaxBoots

ASSUME VectorStoreAssumption ==
  /\ Facts \cap Queries = {}
  /\ None \notin Models
  /\ MaxAttempts \in Nat \ {0} /\ MayErr \in BOOLEAN
  /\ MaxBoots \in Nat \ {0}

VARIABLES
  up, model, boots,  \* the process: running, its embedding model, its starts
  boot,              \* bootVectors: [pc, cur, new], pc "idle" once it returned nil,
                     \* "failed" once it returned an error
  active, gen,       \* system_meta: vector_table and vector_gen, 0 when absent
  metaModel,         \* system_meta: embed_model with embed_dim
  marker,            \* system_meta: vector_migration, 0 when empty
  exists,            \* the generations that are tables of the database
  vec,               \* vec[g][r]: the vector of row r in generation g
  stored,            \* the rows of memory_facts and search_cache
  writer,            \* writer[r]: the work that gives row r its vector
  job,               \* job[g]: the reembed job whose NewTable is g
  indexed            \* history: rows a ready semantic read has been able to find

meta == <<active, gen, metaModel, marker>>
tables == <<exists, vec>>
process == <<up, model, boots>>
vars == <<process, boot, meta, tables, stored, writer, job, indexed>>

NoBoot == [pc |-> "idle", cur |-> 0, new |-> 0]
NoWriter(r) == [pc |-> "none", table |-> 0, ready |-> FALSE, into |-> r, tries |-> 0]
NoJob == [pc |-> "none", old |-> 0, model |-> None, todo |-> {}, tries |-> 0]

Init ==
  /\ up = FALSE /\ model = None /\ boots = 0
  /\ boot = NoBoot
  /\ active = 0 /\ gen = 0 /\ metaModel = None /\ marker = 0
  /\ exists = {}
  /\ vec = [g \in Gens |-> [r \in Rows |-> None]]
  /\ stored = {}
  /\ writer = [r \in Rows |-> NoWriter(r)]
  /\ job = [g \in Gens |-> NoJob]
  /\ indexed = {}

\* serveMode listens once bootVectors has returned, with an error or without.
Serving == up /\ boot.pc \in {"idle", "failed"}

\* activeVectorTable, its two keys read at one moment: a read may trust the
\* active table only with no marker.
Ready == active # 0 /\ marker = 0

Searchable == {r \in stored : Ready /\ active \in exists /\ vec[active][r] # None}

-----------------------------------------------------------------------------
\* CREATE TABLE IF NOT EXISTS.
EnsureVectorTable(g) == exists' = exists \cup {g} /\ UNCHANGED vec

DropTable(g) ==
  /\ exists' = exists \ {g}
  /\ vec' = IF g \in Gens THEN [vec EXCEPT ![g] = [r \in Rows |-> None]] ELSE vec

\* UpsertVector: an error when the table is gone.
UpsertVector(g, r) ==
  /\ g \in exists
  /\ vec' = [vec EXCEPT ![g][r] = model]
  /\ UNCHANGED exists

-----------------------------------------------------------------------------
(***************************************************************************)
(* bootVectors, one statement at a time.  The job runner is already        *)
(* running (serveMode starts it first); the HTTP server is not.            *)
(***************************************************************************)
BootAt(pc) == up /\ boot.pc = pc
BootGoes(pc) == boot' = [boot EXCEPT !.pc = pc]

StartProcess(m) ==
  /\ ~up /\ boots < MaxBoots
  /\ up' = TRUE /\ model' = m /\ boots' = boots + 1
  /\ boot' = [pc |-> "table", cur |-> 0, new |-> 0]
  /\ UNCHANGED <<meta, tables, stored, writer, job>>

BootReadTable ==
  /\ BootAt("table")
  /\ boot' = [pc |-> "model", cur |-> active, new |-> 0]
  /\ UNCHANGED <<process, meta, tables, stored, writer, job>>

\* Mutant: only the first run is told apart.
MutBootReadModelSame ==
  /\ BootAt("model")
  /\ boot' = IF boot.cur = 0 THEN [boot EXCEPT !.pc = "create", !.new = 1]
             ELSE [boot EXCEPT !.pc = "ensure", !.new = boot.cur]
  /\ UNCHANGED <<process, meta, tables, stored, writer, job>>

\* A MetaGet whose error is dropped: the key, or the value of an absent one.
Read(key, absent) == IF MayErr THEN {key, absent} ELSE {key}

\* The three cases: first run, unchanged model, changed model.  The errors of
\* the reads of embed_model, embed_dim and vector_gen are dropped.
BootReadModel ==
  /\ BootAt("model")
  /\ \E curModel \in Read(metaModel, None), curGen \in Read(gen, 0) :
       \/ /\ boot.cur = 0
          /\ boot' = [boot EXCEPT !.pc = "create", !.new = 1]
       \/ /\ boot.cur # 0 /\ curModel = model
          /\ boot' = [boot EXCEPT !.pc = "ensure", !.new = boot.cur]
       \/ /\ boot.cur # 0 /\ curModel # model
          /\ boot' = [boot EXCEPT !.pc = "create", !.new = curGen + 1]
  /\ UNCHANGED <<process, meta, tables, stored, writer, job>>

BootCreate ==
  /\ BootAt("create") \/ BootAt("ensure")
  /\ EnsureVectorTable(boot.new)
  /\ BootGoes(IF boot.pc = "ensure" THEN "idle" ELSE "gen")
  /\ UNCHANGED <<process, meta, stored, writer, job>>

BootSetGen ==
  /\ BootAt("gen")
  /\ gen' = boot.new
  /\ BootGoes(IF boot.cur = 0 THEN "setActive" ELSE "setMarker")
  /\ UNCHANGED <<process, active, metaModel, marker, tables, stored, writer, job>>

\* Mutant: the migration is not marked.
MutBootSetMarkerNot ==
  /\ BootAt("setMarker")
  /\ BootGoes("enqueue")
  /\ UNCHANGED <<process, meta, tables, stored, writer, job>>

BootSetMarker ==
  /\ BootAt("setMarker")
  /\ marker' = boot.new
  /\ BootGoes("enqueue")
  /\ UNCHANGED <<process, active, gen, metaModel, tables, stored, writer, job>>

BootEnqueue ==
  /\ BootAt("enqueue")
  /\ job' = [job EXCEPT ![boot.new] =
               [NoJob EXCEPT !.pc = "queued", !.old = boot.cur, !.model = model]]
  /\ BootGoes("idle")
  /\ UNCHANGED <<process, meta, tables, stored, writer>>

\* setVectorMeta, as bootVectors and the reembed job both call it: the active
\* table, then the model, then the marker.
SetVectorMeta(pc, g, m) ==
  \/ /\ pc = "setActive"
     /\ active' = g
     /\ UNCHANGED <<gen, metaModel, marker>>
  \/ /\ pc = "setModel"
     /\ metaModel' = m
     /\ UNCHANGED <<active, gen, marker>>
  \/ /\ pc = "clearMarker"
     /\ marker' = 0
     /\ UNCHANGED <<active, gen, metaModel>>

AfterMeta(pc, last) ==
  CASE pc = "setActive" -> "setModel"
    [] pc = "setModel" -> "clearMarker"
    [] OTHER -> last

BootSetMeta ==
  /\ up
  /\ SetVectorMeta(boot.pc, boot.new, model)
  /\ BootGoes(AfterMeta(boot.pc, "idle"))
  /\ UNCHANGED <<process, tables, stored, writer, job>>

\* A statement errs: bootVectors returns, what it wrote before stays, and
\* serveMode logs the error and goes on to serve.
BootError ==
  /\ MayErr
  /\ up /\ boot.pc \notin {"idle", "failed", "model"}
  /\ BootGoes("failed")
  /\ UNCHANGED <<process, meta, tables, stored, writer, job>>

BootStep ==
  \/ BootReadTable \/ BootReadModel \/ BootCreate \/ BootSetGen
  \/ BootSetMarker \/ BootEnqueue \/ BootSetMeta \/ BootError

-----------------------------------------------------------------------------
(***************************************************************************)
(* The rows.  A query's row is inserted by an HTTP request and embedded by *)
(* a job of its own; a fact is embedded, stored and given its vector in    *)
(* one call, by the distill job that extracted it or by a request.         *)
(***************************************************************************)
Writes(r, pc) == writer' = [writer EXCEPT ![r].pc = pc]

\* Mutant: one attempt too many.
MutAfterErrorLate(tries) == IF tries + 1 <= MaxAttempts THEN "queued" ELSE "failed"

\* run() after an error: queued again, or failed with the attempts used up.
AfterError(tries) == IF tries + 1 < MaxAttempts THEN "queued" ELSE "failed"

\* StoreSearchCache of a query that is not cached yet: the INSERT ...
InsertQuery(r) ==
  /\ Serving /\ r \in Queries
  /\ writer[r].pc = "none"
  /\ stored' = stored \cup {r}
  /\ Writes(r, "inserted")
  /\ UNCHANGED <<process, boot, meta, tables, job>>

\* ... and enqueueEmbed.
EnqueueEmbed(r) ==
  /\ up /\ r \in Queries
  /\ writer[r].pc = "inserted"
  /\ Writes(r, "queued")
  /\ UNCHANGED <<process, boot, meta, tables, stored, job>>

\* embedHandler reads the active table, ready or not, before it calls the model.
EmbedStart(r) ==
  /\ up /\ r \in Queries
  /\ writer[r].pc = "queued" /\ active # 0
  /\ writer' = [writer EXCEPT ![r].pc = "embedding", ![r].table = active]
  /\ UNCHANGED <<process, boot, meta, tables, stored, job>>

EmbedWrite(r) ==
  /\ up /\ r \in Queries
  /\ writer[r].pc = "embedding"
  /\ UpsertVector(writer[r].table, r)
  /\ Writes(r, "done")
  /\ UNCHANGED <<process, boot, meta, stored, job>>

\* No active table yet, the model's server errs, or the table is gone.
EmbedError(r) ==
  /\ up /\ r \in Queries
  /\ \/ writer[r].pc = "queued" /\ active = 0
     \/ writer[r].pc = "embedding" /\ (MayErr \/ writer[r].table \notin exists)
  /\ writer' = [writer EXCEPT ![r].pc = AfterError(writer[r].tries), ![r].table = 0, ![r].tries = @ + 1]
  /\ UNCHANGED <<process, boot, meta, tables, stored, job>>

\* StoreFact, of a new fact or of one that is stored: activeVectorTable reads
\* the table, then (FactReady) the marker; the embedding call follows.
FactTable(r) ==
  /\ up /\ r \in Facts
  /\ writer[r].pc \in {"none", "done", "unqueued"}
  /\ writer' = [writer EXCEPT ![r] = [NoWriter(r) EXCEPT !.pc = "begun", !.table = active]]
  /\ UNCHANGED <<process, boot, meta, tables, stored, job>>

FactReady(r) ==
  /\ up /\ r \in Facts
  /\ writer[r].pc = "begun"
  /\ writer' = [writer EXCEPT ![r].pc = "embedding", 
                                  ![r].ready = (writer[r].table # 0 /\ marker = 0)]
  /\ UNCHANGED <<process, boot, meta, tables, stored, job>>

\* No vector is close enough: a new row, then (FactVector) its vector, if there
\* is a table.  (A second row for a fact that is stored is another member of Facts.)
FactInsert(r) ==
  /\ up /\ r \in Facts \ stored
  /\ writer[r].pc = "embedding"
  /\ stored' = stored \cup {r}
  /\ Writes(r, IF writer[r].table = 0 THEN "unqueued" ELSE "inserted")
  /\ UNCHANGED <<process, boot, meta, tables, job>>

\* The nearest vector is close enough: the row s that owns it takes the text.
FactRefresh(r, s) ==
  /\ up /\ r \in Facts /\ s \in stored \cap Facts
  /\ writer[r].pc = "embedding"
  /\ writer[r].ready
  /\ writer[r].table \in exists /\ vec[writer[r].table][s] # None
  /\ writer' = [writer EXCEPT ![r].pc = "inserted", ![r].into = s]
  /\ UNCHANGED <<process, boot, meta, tables, stored, job>>

FactVector(r) ==
  /\ up /\ r \in Facts
  /\ writer[r].pc = "inserted"
  /\ UpsertVector(writer[r].table, writer[r].into)
  /\ Writes(r, "done")
  /\ UNCHANGED <<process, boot, meta, stored, job>>

\* StoreFact errs: before the INSERT the distill job tries the fact again;
\* after it the row keeps no vector (the retry inserts another row).
FactError(r) ==
  /\ up /\ r \in Facts
  /\ \/ /\ writer[r].pc \in {"begun", "embedding"}
        /\ MayErr
        /\ writer' = [writer EXCEPT ![r] = NoWriter(r)]
     \/ /\ writer[r].pc = "inserted" /\ (MayErr \/ writer[r].table \notin exists)
        /\ Writes(r, "unqueued")
  /\ UNCHANGED <<process, boot, meta, tables, stored, job>>

-----------------------------------------------------------------------------
(***************************************************************************)
(* The reembed job of generation g: create, the facts, the queries, flip,  *)
(* drop.  The rows of one owner are selected once and embedded in any      *)
(* order (reembedOwner's pool); the last of them ends the pass.            *)
(***************************************************************************)
ReembedAt(g, pc) == up /\ job[g].pc = pc
ReembedGoes(g, pc) == job' = [job EXCEPT ![g].pc = pc]

ReembedStart(g) ==
  /\ ReembedAt(g, "queued")
  /\ EnsureVectorTable(g)
  /\ ReembedGoes(g, "facts")
  /\ UNCHANGED <<process, boot, meta, stored, writer>>

\* Mutant: the second pass selects the facts again.
MutReembedSelectTwice(g) ==
  /\ \/ ReembedAt(g, "facts")
     \/ ReembedAt(g, "queries")
  /\ job' = [job EXCEPT ![g].todo = stored \cap Facts,
               ![g].pc = IF @ = "facts" THEN "factRows" ELSE "queryRows"]
  /\ UNCHANGED <<process, boot, meta, tables, stored, writer>>

\* reembedOwner's SELECT: rows inserted later are not its concern.
ReembedSelect(g) ==
  /\ \/ /\ ReembedAt(g, "facts")
        /\ job' = [job EXCEPT ![g].pc = "factRows", ![g].todo = stored \cap Facts]
     \/ /\ ReembedAt(g, "queries")
        /\ job' = [job EXCEPT ![g].pc = "queryRows", ![g].todo = stored \cap Queries]
  /\ UNCHANGED <<process, boot, meta, tables, stored, writer>>

ReembedRow(g, r) ==
  /\ up /\ job[g].pc \in {"factRows", "queryRows"}
  /\ r \in job[g].todo
  /\ UpsertVector(g, r)
  /\ job' = [job EXCEPT ![g].todo = @ \ {r}]
  /\ UNCHANGED <<process, boot, meta, stored, writer>>

ReembedOwnerDone(g) ==
  /\ job[g].todo = {}
  /\ \/ ReembedAt(g, "factRows") /\ ReembedGoes(g, "queries")
     \/ ReembedAt(g, "queryRows") /\ ReembedGoes(g, "setActive")
  /\ UNCHANGED <<process, boot, meta, tables, stored, writer>>

ReembedSetMeta(g) ==
  /\ up
  /\ SetVectorMeta(job[g].pc, g, job[g].model)
  /\ ReembedGoes(g, AfterMeta(job[g].pc, "drop"))
  /\ UNCHANGED <<process, boot, tables, stored, writer>>

\* Mutant: the two tables of the payload are swapped.
MutReembedDropNew(g) ==
  /\ ReembedAt(g, "drop")
  /\ DropTable(g)
  /\ ReembedGoes(g, "done")
  /\ UNCHANGED <<process, boot, meta, stored, writer>>

\* Mutant: the old table is never dropped.
MutReembedDropNone(g) ==
  /\ ReembedAt(g, "drop")
  /\ ReembedGoes(g, "done")
  /\ UNCHANGED <<process, boot, meta, tables, stored, writer>>

ReembedDrop(g) ==
  /\ ReembedAt(g, "drop")
  /\ IF job[g].old \notin {0, g} THEN DropTable(job[g].old) ELSE UNCHANGED tables
  /\ ReembedGoes(g, "done")
  /\ UNCHANGED <<process, boot, meta, stored, writer>>

Resting == {"none", "queued", "done", "failed"}

\* Mutant: the last attempt is retried for ever.
MutReembedErrorAgain(g) ==
  /\ up /\ job[g].pc \notin Resting
  /\ job' = [job EXCEPT ![g].pc = "queued", ![g].todo = {}]
  /\ UNCHANGED <<process, boot, meta, tables, stored, writer>>

\* Any statement or embedding call errs: the next attempt starts over.
ReembedError(g) ==
  /\ up /\ job[g].pc \notin Resting
  /\ MayErr \/ (job[g].todo # {} /\ g \notin exists)
  /\ job' = [job EXCEPT ![g].pc = AfterError(job[g].tries), ![g].todo = {}, ![g].tries = @ + 1]
  /\ UNCHANGED <<process, boot, meta, tables, stored, writer>>

-----------------------------------------------------------------------------
\* The process dies.  What is in the database stays, and a job a worker held is
\* queued again (JobQueue); a request or a fact on its way is gone, and a row
\* whose INSERT was its last statement is left without a vector.
WriterAfterCrash(r) ==
  CASE writer[r].pc = "embedding" /\ r \in Queries ->
         [NoWriter(r) EXCEPT !.pc = "queued", !.tries = writer[r].tries]
    [] writer[r].pc \in {"begun", "embedding"} /\ r \in Facts -> NoWriter(r)
    [] writer[r].pc = "inserted" ->
         IF writer[r].into = r THEN [NoWriter(r) EXCEPT !.pc = "unqueued"] ELSE NoWriter(r)
    [] OTHER -> writer[r]

Crash ==
  /\ up
  /\ up' = FALSE
  /\ boot' = NoBoot
  /\ writer' = [r \in Rows |-> WriterAfterCrash(r)]
  /\ job' = [g \in Gens |->
       IF job[g].pc \in Resting THEN job[g] ELSE [job[g] EXCEPT !.pc = "queued", !.todo = {}]]
  /\ UNCHANGED <<model, boots, meta, tables, stored>>

RowStep(r) ==
  \/ EnqueueEmbed(r) \/ EmbedStart(r) \/ EmbedWrite(r) \/ EmbedError(r)
  \/ FactReady(r) \/ FactInsert(r) \/ FactVector(r) \/ FactError(r)
  \/ \E s \in Facts : FactRefresh(r, s)

ReembedStep(g) ==
  \/ ReembedStart(g) \/ ReembedSelect(g) \/ ReembedOwnerDone(g)
  \/ ReembedSetMeta(g) \/ ReembedDrop(g) \/ ReembedError(g)
  \/ \E r \in Rows : ReembedRow(g, r)

Step ==
  \/ \E m \in Models : StartProcess(m)
  \/ BootStep
  \/ \E r \in Rows : InsertQuery(r) \/ FactTable(r) \/ RowStep(r)
  \/ \E g \in Gens : ReembedStep(g)
  \/ Crash

Next == Step /\ indexed' = indexed \cup Searchable'

Spec == Init /\ [][Next]_vars

\* A live process finishes its boot and runs its jobs; nothing says that a
\* request or a fact ever comes, or that a dead process is started again.
FairSpec ==
  /\ Spec
  /\ WF_vars(BootStep /\ Next)
  /\ \A g \in Gens : WF_vars(ReembedStep(g) /\ Next)

-----------------------------------------------------------------------------
JobPCs == Resting \cup {"facts", "factRows", "queries", "queryRows",
                        "setActive", "setModel", "clearMarker", "drop"}
WriterPCs == {"none", "begun", "inserted", "queued", "embedding", "done", "failed", "unqueued"}

\* The keys of system_meta, the tables, the rows and the jobs hold what their
\* columns can; only a table that exists holds vectors.
TypeOK ==
  /\ up \in BOOLEAN /\ model \in Models \cup {None} /\ boots \in 0 .. MaxBoots
  /\ boot \in [pc : {"idle", "failed", "table", "model", "create", "ensure", "gen",
                     "setActive", "setModel", "clearMarker", "setMarker", "enqueue"},
               cur : 0 .. MaxBoots, new : 0 .. MaxBoots]
  /\ active \in 0 .. MaxBoots /\ gen \in 0 .. MaxBoots
  /\ metaModel \in Models \cup {None} /\ marker \in 0 .. MaxBoots
  /\ exists \subseteq Gens
  /\ vec \in [Gens -> [Rows -> Models \cup {None}]]
  /\ \A g \in Gens \ exists, r \in Rows : vec[g][r] = None
  /\ stored \subseteq Rows /\ indexed \subseteq stored
  /\ writer \in [Rows -> [pc : WriterPCs, table : 0 .. MaxBoots, ready : BOOLEAN,
                          into : Rows, tries : 0 .. MaxAttempts]]
  /\ job \in [Gens -> [pc : JobPCs, old : 0 .. MaxBoots, model : Models \cup {None},
                       todo : SUBSET Rows, tries : 0 .. MaxAttempts]]

\* system_meta never names a table that is not there.
ActiveTableExists == active # 0 => active \in exists

\* A row a semantic read could find is found by every later ready read: the
\* migration carries over all that the old table served.
NoSearchableRowLost == Ready => indexed \subseteq Searchable

\* Once bootVectors has returned without an error, a ready read compares its
\* query only with vectors of the configured model, though jobs write to the
\* table the whole time.  (After an error it may not: a boot that errs before
\* the marker is set leaves the old model's vectors, and the store ready.)
VectorsMatchModel ==
  (up /\ boot.pc = "idle" /\ Ready) => \A r \in Rows : vec[active][r] \in {None, model}

\* A re-embed job that is queued or running, whose table is not yet the one read.
Open(g) == job[g].pc \notin {"none", "done", "failed"}
Migrating(g) == Open(g) /\ active # g

\* No re-embed migration is in flight while the store is ready (vectors.go,
\* activeVectorTable): from its enqueue to its flip the reads degrade.
DegradedWhileMigrating == \A g \in Gens : Migrating(g) => ~Ready

\* bootVectors succeeded, and nothing of a migration or of a row's own work is
\* left to do.
Settled ==
  /\ up /\ boot.pc = "idle"
  /\ \A g \in Gens : job[g].pc \in {"none", "done"}
  /\ \A r \in Rows : writer[r].pc \notin {"queued", "begun", "embedding", "inserted"}

\* A finished migration leaves the one table that is read (reembed.go,
\* dropTable), whatever was retried on the way.  (A boot that errs or dies
\* after its CREATE may leave a table for good; it is not settled.)
OneTableWhenSettled == Settled => exists = {active}

\* A cached query whose embed job was done without an error is found by the
\* semantic reads once all work is over: the job wrote to the table that was
\* active, and the re-embed pass separately populates the new one (embed.go).
EmbeddedQueriesSearchable ==
  Settled => \A r \in stored \cap Queries : writer[r].pc = "done" => r \in Searchable

\* If the process stays up, an open migration is flipped, or its job has failed,
\* or it was this process's boot that set the marker and erred before EnqueueJob.
MigrationEnds ==
  <>[]up => (marker # 0 ~> \/ marker = 0
                           \/ \E g \in Gens : job[g].pc = "failed"
                           \/ boot.pc = "failed")
=============================================================================
