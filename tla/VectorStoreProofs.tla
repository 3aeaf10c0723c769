-------------------------- MODULE VectorStoreProofs --------------------------
(***************************************************************************)
(* What holds of VectorStore for every set of facts, queries and models,   *)
(* every maxAttempts and every number of starts and generations: its types *)
(* always; while no process starts with a re-embed job under way, that     *)
(* system_meta names a table that is there, that reads degrade until the   *)
(* flip and that the flip loses no row that could be found before; while,  *)
(* besides, every boot runs to its end, that no ready read mixes models;   *)
(* and while no re-embed job is given up either, that a migration leaves   *)
(* one table.                                                              *)
(***************************************************************************)
EXTENDS VectorStore, TLAPS

Writer == [pc : WriterPCs, table : 0 .. MaxBoots, ready : BOOLEAN, into : Rows,
           tries : 0 .. MaxAttempts]
Job == [pc : JobPCs, old : 0 .. MaxBoots, model : Models \cup {None},
        todo : SUBSET Rows, tries : 0 .. MaxAttempts]
Boot == [pc : {"idle", "failed", "table", "model", "create", "ensure", "gen", "setActive",
               "setModel", "clearMarker", "setMarker", "enqueue"},
         cur : 0 .. MaxBoots, new : 0 .. MaxBoots]

\* Work that is not over has an attempt left.
HasTry(w) == w.pc \in {"done", "failed"} \/ w.tries < MaxAttempts

\* bootVectors has chosen the generation it works on.
Chosen == {"create", "ensure", "gen", "setActive", "setModel", "clearMarker", "setMarker", "enqueue"}

\* A start takes a generation that no number of starts before it has reached.
GenInv ==
  /\ gen <= boots
  /\ boot.pc \in {"table", "model"} => gen < boots
  /\ boot.pc \in Chosen => boot.new \in Gens
  /\ boot.pc \in Chosen \ {"ensure"} => boot.new <= boots

\* TypeOK alone is not inductive: an error may be counted because an attempt was
\* left, and a table is created under a number bootVectors has chosen.
TypeInv ==
  /\ TypeOK
  /\ \A r \in Rows : HasTry(writer[r])
  /\ \A g \in Gens : HasTry(job[g])
  /\ GenInv
  /\ up => model \in Models

LEMMA Numbers ==
  /\ MaxBoots \in Nat \ {0} /\ MaxAttempts \in Nat \ {0}
  /\ 0 \in 0 .. MaxBoots /\ 1 \in Gens /\ Gens \subseteq 0 .. MaxBoots /\ 0 \notin Gens
  /\ 0 \in 0 .. MaxAttempts
BY VectorStoreAssumption DEF Gens

LEMMA Types ==
  ASSUME TypeInv
  PROVE  /\ boot \in Boot /\ writer \in [Rows -> Writer] /\ job \in [Gens -> Job]
         /\ exists \subseteq Gens /\ vec \in [Gens -> [Rows -> Models \cup {None}]]
         /\ active \in 0 .. MaxBoots /\ gen \in 0 .. MaxBoots /\ marker \in 0 .. MaxBoots
         /\ metaModel \in Models \cup {None} /\ model \in Models \cup {None}
         /\ stored \subseteq Rows /\ indexed \subseteq stored
         /\ boots \in 0 .. MaxBoots /\ up \in BOOLEAN
BY DEF TypeInv, TypeOK, Boot, Writer, Job

\* An error either leaves an attempt or was the last one.
LEMMA ErrorCounts ==
  ASSUME NEW n \in 0 .. MaxAttempts, n < MaxAttempts
  PROVE  /\ n + 1 \in 0 .. MaxAttempts
         /\ AfterError(n) \in {"queued", "failed"}
         /\ AfterError(n) = "queued" => n + 1 < MaxAttempts
BY Numbers DEF AfterError

-----------------------------------------------------------------------------
(***************************************************************************)
(* What the steps of one actor change.                                     *)
(***************************************************************************)
RowMoves(r) == InsertQuery(r) \/ FactTable(r) \/ RowStep(r)

LEMMA NewWriter ==
  ASSUME NEW r \in Rows
  PROVE  /\ NoWriter(r) \in Writer /\ HasTry(NoWriter(r))
         /\ NoWriter(r).table = 0 /\ NoWriter(r).tries < MaxAttempts
BY Numbers DEF NoWriter, Writer, WriterPCs, Resting, HasTry

LEMMA NewJob == NoJob \in Job /\ NoJob.tries < MaxAttempts
BY Numbers DEF NoJob, Job, JobPCs, Resting

\* A row's work reads the active table once, and writes nothing but the row, its
\* own record, and one vector of the model in the table it has read.
LEMMA RowFrame ==
  ASSUME TypeInv, NEW r \in Rows, RowMoves(r)
  PROVE  /\ UNCHANGED <<process, boot, meta, job, exists>> /\ up
         /\ stored' \in {stored, stored \cup {r}}
         /\ \/ vec' = vec
            \/ \E s \in Rows : /\ writer[r].table \in exists
                               /\ vec' = [vec EXCEPT ![writer[r].table][s] = model]
         /\ \E w \in Writer : /\ writer' = [writer EXCEPT ![r] = w] /\ HasTry(w)
                              /\ w.table \in {0, active, writer[r].table}
<1> DEFINE x == writer[r]
           WriterMoves == \E w \in Writer : /\ writer' = [writer EXCEPT ![r] = w] /\ HasTry(w)
                                            /\ w.table \in {0, active, x.table}
<1>1. x \in Writer /\ HasTry(x) /\ active \in 0 .. MaxBoots /\ DOMAIN writer = Rows
  BY Types DEF TypeInv
<1>2. ASSUME NEW pc \in WriterPCs \ {"failed"}, x.pc \notin {"done", "failed"}, Writes(r, pc)
      PROVE  WriterMoves
  <2> DEFINE w == [x EXCEPT !.pc = pc]
  <2>1. w \in Writer /\ HasTry(w) /\ w.table = x.table
    BY <1>1, <1>2 DEF Writer, HasTry
  <2>2. writer' = [writer EXCEPT ![r] = w]
    BY <1>2 DEF Writes
  <2> HIDE DEF w
  <2> QED
    BY <2>1, <2>2
<1>3. CASE InsertQuery(r)
  <2>1. WriterMoves
    BY <1>2, <1>3 DEF InsertQuery, WriterPCs
  <2> QED
    BY <1>3, <2>1 DEF InsertQuery, Serving, tables
<1>4. CASE EnqueueEmbed(r)
  <2>1. WriterMoves
    BY <1>2, <1>4 DEF EnqueueEmbed, WriterPCs, Resting
  <2> QED
    BY <1>4, <2>1 DEF EnqueueEmbed, tables
<1>5. CASE EmbedStart(r)
  <2> DEFINE w == [x EXCEPT !.pc = "embedding", !.table = active]
  <2>1. w \in Writer /\ HasTry(w) /\ w.table = active
    BY <1>1, <1>5 DEF EmbedStart, Writer, WriterPCs, HasTry
  <2>2. writer' = [writer EXCEPT ![r] = w]
    BY <1>5 DEF EmbedStart
  <2> HIDE DEF w
  <2> QED
    BY <1>5, <2>1, <2>2 DEF EmbedStart, tables
<1>6. CASE EmbedWrite(r)
  <2>1. WriterMoves
    BY <1>2, <1>6 DEF EmbedWrite, WriterPCs, Resting
  <2> QED
    BY <1>6, <2>1 DEF EmbedWrite, UpsertVector
<1>7. CASE EmbedError(r)
  <2> DEFINE w == [x EXCEPT !.pc = AfterError(x.tries), !.table = 0, !.tries = x.tries + 1]
  <2>1. x.tries \in 0 .. MaxAttempts /\ x.tries < MaxAttempts
    BY <1>1, <1>7 DEF EmbedError, Writer, HasTry
  <2>2. w \in Writer /\ HasTry(w) /\ w.table = 0
    BY <1>1, <2>1, ErrorCounts, Numbers DEF Writer, WriterPCs, Resting, HasTry
  <2>3. writer' = [writer EXCEPT ![r] = w]
    BY <1>7 DEF EmbedError
  <2> HIDE DEF w
  <2> QED
    BY <1>7, <2>2, <2>3 DEF EmbedError, tables
<1>8. CASE FactTable(r)
  <2> DEFINE w == [NoWriter(r) EXCEPT !.pc = "begun", !.table = active]
  <2>1. w \in Writer /\ HasTry(w) /\ w.table = active
    BY <1>1, NewWriter DEF Writer, WriterPCs, HasTry
  <2>2. writer' = [writer EXCEPT ![r] = w]
    BY <1>8 DEF FactTable
  <2> HIDE DEF w
  <2> QED
    BY <1>8, <2>1, <2>2 DEF FactTable, tables
<1>9. CASE FactReady(r)
  <2> DEFINE w == [x EXCEPT !.pc = "embedding", !.ready = (x.table # 0 /\ marker = 0)]
  <2>1. w \in Writer /\ HasTry(w) /\ w.table = x.table
    BY <1>1, <1>9 DEF FactReady, Writer, WriterPCs, HasTry
  <2>2. writer' = [writer EXCEPT ![r] = w]
    BY <1>9 DEF FactReady
  <2> HIDE DEF w
  <2> QED
    BY <1>9, <2>1, <2>2 DEF FactReady, tables
<1>10. CASE FactInsert(r)
  <2>1. WriterMoves
    BY <1>2, <1>10 DEF FactInsert, WriterPCs
  <2> QED
    BY <1>10, <2>1 DEF FactInsert, tables
<1>11. ASSUME NEW s \in Facts, FactRefresh(r, s)
       PROVE  /\ UNCHANGED <<process, boot, meta, job, exists, stored, vec>> /\ up
              /\ WriterMoves
  <2> DEFINE w == [x EXCEPT !.pc = "inserted", !.into = s]
  <2>1. w \in Writer /\ HasTry(w) /\ w.table = x.table
    BY <1>1, <1>11 DEF FactRefresh, Writer, WriterPCs, HasTry, Rows
  <2>2. writer' = [writer EXCEPT ![r] = w]
    BY <1>11 DEF FactRefresh
  <2> HIDE DEF w
  <2> QED
    BY <1>11, <2>1, <2>2 DEF FactRefresh, tables
<1>12. CASE FactVector(r)
  <2>1. WriterMoves
    BY <1>2, <1>12 DEF FactVector, WriterPCs, Resting
  <2>2. x.into \in Rows
    BY <1>1 DEF Writer
  <2> QED
    BY <1>12, <2>1, <2>2 DEF FactVector, UpsertVector
<1>13. CASE FactError(r)
  <2>1. ASSUME writer' = [writer EXCEPT ![r] = NoWriter(r)] PROVE WriterMoves
    BY <2>1, NewWriter
  <2>2. ASSUME x.pc = "inserted", Writes(r, "unqueued") PROVE WriterMoves
    BY <1>2, <2>2 DEF WriterPCs
  <2>3. WriterMoves
    BY <1>13, <2>1, <2>2 DEF FactError
  <2> QED
    BY <1>13, <2>3 DEF FactError, tables
<1> QED
  BY <1>3, <1>4, <1>5, <1>6, <1>7, <1>8, <1>9, <1>10, <1>11, <1>12, <1>13
     DEF RowMoves, RowStep

LEMMA AddVector ==
  ASSUME TypeInv, up, NEW g \in exists, NEW r \in Rows, vec' = [vec EXCEPT ![g][r] = model]
  PROVE  /\ vec' \in [Gens -> [Rows -> Models \cup {None}]]
         /\ \A h \in Gens, s \in Rows :
              vec'[h][s] = IF h = g /\ s = r THEN model ELSE vec[h][s]
         /\ model # None
BY Types, VectorStoreAssumption DEF TypeInv

\* A re-embed job keeps to its own record and table, and to the keys of the flip;
\* only its last step takes a table away, the one its payload calls old.
LEMMA JobFrame ==
  ASSUME TypeInv, NEW g \in Gens, ReembedStep(g)
  PROVE  /\ UNCHANGED <<process, boot, gen, stored, writer>> /\ up
         /\ \E j \in Job : job' = [job EXCEPT ![g] = j] /\ HasTry(j)
                            /\ j.old = job[g].old /\ j.model = job[g].model
                            /\ j.pc # "none"
         /\ \/ UNCHANGED tables
            \/ exists' = exists \cup {g} /\ vec' = vec
            \/ exists' = exists /\ g \in exists
                 /\ \E r \in Rows : vec' = [vec EXCEPT ![g][r] = model]
            \/ job[g].pc = "drop" /\ job[g].old \notin {0, g} /\ DropTable(job[g].old)
         /\ \/ UNCHANGED <<active, metaModel, marker>>
            \/ job[g].pc = "setActive" /\ active' = g /\ UNCHANGED <<metaModel, marker>>
            \/ job[g].pc = "setModel" /\ metaModel' = job[g].model /\ UNCHANGED <<active, marker>>
            \/ job[g].pc = "clearMarker" /\ marker' = 0 /\ UNCHANGED <<active, metaModel>>
<1> DEFINE x == job[g]
           JobMoves == \E j \in Job : job' = [job EXCEPT ![g] = j] /\ HasTry(j)
                                        /\ j.old = x.old /\ j.model = x.model /\ j.pc # "none"
<1>1. x \in Job /\ HasTry(x) /\ DOMAIN job = Gens
  BY Types DEF TypeInv
<1>2. ASSUME NEW pc \in JobPCs \ {"none", "failed"}, NEW todo \in SUBSET Rows,
             x.pc \notin {"done", "failed"},
             job' = [job EXCEPT ![g] = [x EXCEPT !.pc = pc, !.todo = todo]]
      PROVE  JobMoves
  <2> DEFINE j == [x EXCEPT !.pc = pc, !.todo = todo]
  <2>1. j \in Job /\ HasTry(j) /\ j.old = x.old /\ j.model = x.model /\ j.pc # "none"
    BY <1>1, <1>2 DEF Job, HasTry
  <2>2. job' = [job EXCEPT ![g] = j]
    BY <1>2
  <2> HIDE DEF j
  <2> QED
    BY <2>1, <2>2
<1>3. ASSUME NEW pc \in JobPCs \ {"none", "failed"}, x.pc \notin {"done", "failed"},
             ReembedGoes(g, pc)
      PROVE  JobMoves
  <2>1. [x EXCEPT !.pc = pc] = [x EXCEPT !.pc = pc, !.todo = x.todo] /\ x.todo \in SUBSET Rows
    BY <1>1 DEF Job
  <2>2. job' = [job EXCEPT ![g] = [x EXCEPT !.pc = pc]]
    BY <1>3 DEF ReembedGoes
  <2> HIDE DEF x
  <2>3. job' = [job EXCEPT ![g] = [x EXCEPT !.pc = pc, !.todo = x.todo]]
    BY <2>1, <2>2
  <2> QED
    BY <1>2, <1>3, <2>1, <2>3 DEF x
<1>4. CASE ReembedStart(g)
  <2>1. JobMoves
    BY <1>3, <1>4 DEF ReembedStart, ReembedAt, JobPCs
  <2> QED
    BY <1>4, <2>1 DEF ReembedStart, ReembedAt, EnsureVectorTable, meta
<1>5. CASE ReembedSelect(g)
  <2>1. PICK pc \in {"factRows", "queryRows"}, todo \in SUBSET Rows :
          job' = [job EXCEPT ![g].pc = pc, ![g].todo = todo]
    BY <1>5, Types DEF ReembedSelect
  <2>2. job' = [job EXCEPT ![g] = [x EXCEPT !.pc = pc, !.todo = todo]]
    BY <1>1, <2>1
  <2>3. x.pc \in {"facts", "queries"} /\ pc \in JobPCs \ {"none", "failed"}
    BY <1>5 DEF ReembedSelect, ReembedAt, JobPCs
  <2>4. JobMoves
    BY <1>2, <2>2, <2>3
  <2> QED
    BY <1>5, <2>4 DEF ReembedSelect, ReembedAt, meta, tables
<1>6. ASSUME NEW r \in Rows, ReembedRow(g, r)
      PROVE  /\ UNCHANGED <<process, boot, meta, stored, writer, exists>> /\ up
             /\ g \in exists /\ vec' = [vec EXCEPT ![g][r] = model]
             /\ JobMoves
  <2>1. job' = [job EXCEPT ![g] = [x EXCEPT !.pc = x.pc, !.todo = x.todo \ {r}]]
    BY <1>1, <1>6 DEF ReembedRow, Job
  <2>2. x.todo \ {r} \in SUBSET Rows /\ x.pc \in JobPCs \ {"none", "failed", "done"}
    BY <1>1, <1>6 DEF ReembedRow, Job, JobPCs
  <2> QED
    BY <1>2, <1>6, <2>1, <2>2 DEF ReembedRow, UpsertVector
<1>7. CASE ReembedOwnerDone(g)
  <2>1. JobMoves
    BY <1>3, <1>7 DEF ReembedOwnerDone, ReembedAt, JobPCs
  <2> QED
    BY <1>7, <2>1 DEF ReembedOwnerDone, ReembedAt, meta, tables
<1>8. CASE ReembedSetMeta(g)
  <2>1. x.pc \in {"setActive", "setModel", "clearMarker"}
    BY <1>8 DEF ReembedSetMeta, SetVectorMeta
  <2>2. AfterMeta(x.pc, "drop") \in JobPCs \ {"none", "failed"}
    BY <2>1 DEF AfterMeta, JobPCs
  <2>3. JobMoves
    BY <1>3, <1>8, <2>1, <2>2 DEF ReembedSetMeta
  <2> QED
    BY <1>8, <2>3 DEF ReembedSetMeta, SetVectorMeta
<1>9. CASE ReembedDrop(g)
  <2>1. JobMoves
    BY <1>3, <1>9 DEF ReembedDrop, ReembedAt, JobPCs, Resting
  <2> QED
    BY <1>9, <2>1 DEF ReembedDrop, ReembedAt, meta
<1>10. CASE ReembedError(g)
  <2> DEFINE j == [x EXCEPT !.pc = AfterError(x.tries), !.todo = {}, !.tries = x.tries + 1]
  <2>1. x.tries \in 0 .. MaxAttempts /\ x.tries < MaxAttempts
    BY <1>1, <1>10 DEF ReembedError, Resting, Job, HasTry
  <2>2. j \in Job /\ HasTry(j) /\ j.old = x.old /\ j.model = x.model /\ j.pc # "none"
    BY <1>1, <2>1, ErrorCounts DEF Job, JobPCs, Resting, HasTry
  <2>3. job' = [job EXCEPT ![g] = j]
    BY <1>10 DEF ReembedError
  <2> HIDE DEF j
  <2> QED
    BY <1>10, <2>2, <2>3 DEF ReembedError, meta, tables
<1> QED
  BY <1>4, <1>5, <1>6, <1>7, <1>8, <1>9, <1>10 DEF ReembedStep, meta, tables

\* How bootVectors moves through its statements.
BootPath ==
  LET x == boot.pc
      y == boot'.pc IN
  \/ /\ x = "table" /\ y = "model" /\ boot'.cur = active
     /\ UNCHANGED <<meta, exists, job>>
  \/ /\ x = "model" /\ boot'.cur = boot.cur /\ UNCHANGED <<meta, exists, job>>
     /\ \/ y = "create" /\ boot.cur = 0 /\ boot'.new = 1
        \/ y = "create" /\ boot.cur # 0 /\ boot'.new \in {1, gen + 1}
        \/ y = "ensure" /\ boot.cur # 0 /\ boot'.new = boot.cur /\ metaModel = model
  \/ /\ boot'.cur = boot.cur /\ boot'.new = boot.new
     /\ \/ /\ x = "create" /\ y = "gen" /\ exists' = exists \cup {boot.new}
           /\ UNCHANGED <<meta, job>>
        \/ /\ x = "ensure" /\ y = "idle" /\ exists' = exists \cup {boot.new}
           /\ UNCHANGED <<meta, job>>
        \/ /\ x = "gen" /\ y = (IF boot.cur = 0 THEN "setActive" ELSE "setMarker")
           /\ gen' = boot.new /\ UNCHANGED <<active, metaModel, marker, exists, job>>
        \/ /\ x = "setMarker" /\ y = "enqueue" /\ marker' = boot.new
           /\ UNCHANGED <<active, gen, metaModel, exists, job>>
        \/ /\ x = "enqueue" /\ y = "idle" /\ UNCHANGED <<meta, exists>>
           /\ job' = [job EXCEPT ![boot.new] =
                        [NoJob EXCEPT !.pc = "queued", !.old = boot.cur, !.model = model]]
        \/ /\ x = "setActive" /\ y = "setModel" /\ active' = boot.new
           /\ UNCHANGED <<gen, metaModel, marker, exists, job>>
        \/ /\ x = "setModel" /\ y = "clearMarker" /\ metaModel' = model
           /\ UNCHANGED <<active, gen, marker, exists, job>>
        \/ /\ x = "clearMarker" /\ y = "idle" /\ marker' = 0
           /\ UNCHANGED <<active, gen, metaModel, exists, job>>
        \/ /\ x \in Chosen \cup {"table"} /\ y = "failed" /\ UNCHANGED <<meta, exists, job>>

LEMMA BootFrame ==
  ASSUME TypeInv, BootStep
  PROVE  /\ UNCHANGED <<process, stored, writer, vec>> /\ up
         /\ boot' \in Boot /\ BootPath
<1>1. /\ boot \in Boot /\ active \in 0 .. MaxBoots /\ gen \in 0 .. MaxBoots
      /\ boots \in 0 .. MaxBoots /\ GenInv /\ model # None
  BY Types, VectorStoreAssumption DEF TypeInv, BootStep, BootReadTable, BootReadModel, BootCreate,
     BootSetGen, BootSetMarker, BootEnqueue, BootSetMeta, BootError, BootAt
<1>2. ASSUME NEW pc \in {"idle", "failed", "gen", "setActive", "setModel", "clearMarker",
                         "setMarker", "enqueue"},
             BootGoes(pc)
      PROVE  boot' \in Boot /\ boot'.pc = pc /\ boot'.cur = boot.cur /\ boot'.new = boot.new
  BY <1>1, <1>2 DEF BootGoes, Boot
<1>3. CASE BootReadTable
  <2>1. boot' \in Boot /\ boot'.pc = "model" /\ boot'.cur = active
    BY <1>1, <1>3, Numbers DEF BootReadTable, Boot
  <2> QED
    BY <1>3, <2>1 DEF BootReadTable, BootAt, tables, BootPath
<1>4. CASE BootReadModel
  <2>1. PICK curModel \in {metaModel, None}, curGen \in {gen, 0} :
          \/ /\ boot.cur = 0
             /\ boot' = [boot EXCEPT !.pc = "create", !.new = 1]
          \/ /\ boot.cur # 0 /\ curModel = model
             /\ boot' = [boot EXCEPT !.pc = "ensure", !.new = boot.cur]
          \/ /\ boot.cur # 0 /\ curModel # model
             /\ boot' = [boot EXCEPT !.pc = "create", !.new = curGen + 1]
    BY <1>4 DEF BootReadModel, Read
  <2>2. curGen + 1 \in 0 .. MaxBoots /\ 1 \in 0 .. MaxBoots
    BY <1>1, <1>4, Numbers DEF GenInv, BootReadModel, BootAt
  <2>3. /\ boot' \in Boot /\ boot'.cur = boot.cur
        /\ \/ boot'.pc = "create" /\ boot.cur = 0 /\ boot'.new = 1
           \/ boot'.pc = "create" /\ boot.cur # 0 /\ boot'.new = curGen + 1
           \/ boot'.pc = "ensure" /\ boot.cur # 0 /\ boot'.new = boot.cur /\ curModel = model
    BY <1>1, <2>1, <2>2 DEF Boot
  <2>4. curGen + 1 \in {1, gen + 1} /\ (curModel = model => metaModel = model)
    BY <1>1
  <2> QED
    BY <1>4, <2>3, <2>4 DEF BootReadModel, BootAt, tables, BootPath
<1>5. CASE BootCreate
  BY <1>2, <1>5 DEF BootCreate, BootAt, EnsureVectorTable, BootPath
<1>6. CASE BootSetGen
  BY <1>2, <1>6 DEF BootSetGen, BootAt, tables, BootPath
<1>7. CASE BootSetMarker
  BY <1>2, <1>7 DEF BootSetMarker, BootAt, tables, BootPath
<1>8. CASE BootEnqueue
  BY <1>2, <1>8 DEF BootEnqueue, BootAt, tables, BootPath
<1>9. CASE BootSetMeta
  <2>1. AfterMeta(boot.pc, "idle") \in {"idle", "setModel", "clearMarker"}
    BY DEF AfterMeta
  <2>2. /\ boot' \in Boot /\ boot'.pc = AfterMeta(boot.pc, "idle")
        /\ boot'.cur = boot.cur /\ boot'.new = boot.new
    BY <1>2, <1>9, <2>1 DEF BootSetMeta
  <2> QED
    BY <1>9, <2>2 DEF BootSetMeta, SetVectorMeta, AfterMeta, tables, BootPath
<1>10. CASE BootError
  <2>1. boot.pc \in Chosen \cup {"table"}
    BY <1>1, <1>10 DEF BootError, Boot, Chosen
  <2> QED
    BY <1>2, <1>10, <2>1 DEF BootError, tables, BootPath
<1> QED
  BY <1>3, <1>4, <1>5, <1>6, <1>7, <1>8, <1>9, <1>10 DEF BootStep

\* The generation a start takes is one more than it found, or the first.
LEMMA GenStep ==
  ASSUME TypeInv, BootStep
  PROVE  GenInv' /\ (boot.pc = "enqueue" => boot.new \in Gens)
<1>1. /\ gen \in 0 .. MaxBoots /\ boots \in 0 .. MaxBoots /\ GenInv
      /\ active \in 0 .. MaxBoots /\ boot \in Boot
  BY Types DEF TypeInv
<1>2. UNCHANGED boots /\ BootPath
  BY BootFrame DEF process
<1>3. CASE boot.pc = "model"
  <2>1. gen + 1 \in Gens /\ gen + 1 <= boots /\ 1 \in Gens /\ 1 <= boots
    BY <1>1, <1>3, Numbers DEF GenInv, Gens
  <2>2. boot'.pc \in {"create", "ensure"} /\ gen' = gen
    BY <1>2, <1>3 DEF BootPath, Chosen, meta
  <2>3. CASE boot'.pc = "ensure"
    <3>1. boot'.new = boot.cur /\ boot.cur # 0 /\ boot.cur \in 0 .. MaxBoots
      BY <1>1, <1>2, <1>3, <2>3 DEF BootPath, Boot, Chosen
    <3>2. boot'.new \in Gens
      BY <3>1, Numbers DEF Gens
    <3> QED
      BY <1>1, <1>2, <2>2, <2>3, <3>2 DEF GenInv, Chosen
  <2>4. CASE boot'.pc = "create"
    <3>1. boot'.new \in {1, gen + 1}
      BY <1>2, <1>3, <2>4 DEF BootPath, Chosen
    <3> QED
      BY <1>1, <1>2, <2>1, <2>2, <2>4, <3>1 DEF GenInv, Chosen
  <2> QED
    BY <1>3, <2>2, <2>3, <2>4
<1>4. CASE boot.pc # "model"
  BY <1>1, <1>2, <1>4 DEF GenInv, Chosen, BootPath, meta
<1> QED
  BY <1>1, <1>3, <1>4 DEF GenInv, Chosen

LEMMA CrashFrame ==
  ASSUME TypeInv, Crash
  PROVE  /\ UNCHANGED <<model, boots, meta, tables, stored>> /\ up' = FALSE /\ boot' = NoBoot
         /\ writer' \in [Rows -> Writer]
         /\ \A r \in Rows : HasTry(writer'[r]) /\ writer'[r].table \in {0, writer[r].table}
         /\ job' \in [Gens -> Job]
         /\ \A g \in Gens :
              /\ HasTry(job'[g])
              /\ job'[g].old = job[g].old /\ job'[g].model = job[g].model
              /\ IF job[g].pc \in Resting THEN job'[g] = job[g] ELSE job'[g].pc = "queued"
<1>1. ASSUME NEW r \in Rows
      PROVE  LET w == WriterAfterCrash(r) IN
             w \in Writer /\ HasTry(w) /\ w.table \in {0, writer[r].table}
  <2> DEFINE x == writer[r]
             n == NoWriter(r)
  <2>1. x \in Writer /\ HasTry(x)
    BY Types DEF TypeInv
  <2>2. n \in Writer /\ HasTry(n) /\ n.table = 0 /\ n.tries < MaxAttempts
    BY NewWriter
  <2> HIDE DEF n
  <2>3. ASSUME x.pc = "embedding"
        PROVE  LET w == [n EXCEPT !.pc = "queued", !.tries = x.tries] IN
               w \in Writer /\ HasTry(w) /\ w.table = 0
    BY <2>1, <2>2, <2>3 DEF Writer, WriterPCs, Resting, HasTry
  <2>4. LET w == [n EXCEPT !.pc = "unqueued"] IN w \in Writer /\ HasTry(w) /\ w.table = 0
    BY <2>2 DEF Writer, WriterPCs, HasTry
  <2> QED
    BY <2>1, <2>2, <2>3, <2>4 DEF WriterAfterCrash, n
<1>2. ASSUME NEW g \in Gens
      PROVE  LET j == [job[g] EXCEPT !.pc = "queued", !.todo = {}] IN
             /\ job[g] \in Job /\ HasTry(job[g])
             /\ job[g].pc \notin Resting => HasTry(j)
             /\ j \in Job /\ j.old = job[g].old /\ j.model = job[g].model /\ j.pc = "queued"
  <2>1. job[g] \in Job /\ HasTry(job[g])
    BY Types DEF TypeInv
  <2> QED
    BY <2>1 DEF Job, JobPCs, Resting, HasTry
<1>3. writer' \in [Rows -> Writer]
      /\ \A r \in Rows : HasTry(writer'[r]) /\ writer'[r].table \in {0, writer[r].table}
  BY <1>1 DEF Crash
<1>4. /\ job' \in [Gens -> Job]
      /\ \A g \in Gens :
           /\ HasTry(job'[g])
           /\ job'[g].old = job[g].old /\ job'[g].model = job[g].model
           /\ IF job[g].pc \in Resting THEN job'[g] = job[g] ELSE job'[g].pc = "queued"
  BY <1>2 DEF Crash
<1> QED
  BY <1>3, <1>4 DEF Crash

LEMMA Moves ==
  ASSUME [Next]_vars
  PROVE  \/ UNCHANGED vars
         \/ /\ indexed' = indexed \cup Searchable'
            /\ \/ \E m \in Models : StartProcess(m)
               \/ BootStep
               \/ \E r \in Rows : RowMoves(r)
               \/ \E g \in Gens : ReembedStep(g)
               \/ Crash
BY DEF Next, Step, RowMoves

-----------------------------------------------------------------------------
(***************************************************************************)
(* The types.                                                              *)
(***************************************************************************)
LEMMA TypeInit == Init => TypeInv
<1> SUFFICES ASSUME Init PROVE TypeInv
  OBVIOUS
<1>1. NoBoot \in Boot /\ NoBoot.pc = "idle"
  BY Numbers DEF NoBoot, Boot
<1>2. NoJob \in Job /\ HasTry(NoJob)
  BY NewJob DEF HasTry
<1>3. writer \in [Rows -> Writer] /\ \A r \in Rows : HasTry(writer[r])
  BY NewWriter DEF Init
<1>4. job \in [Gens -> Job] /\ \A g \in Gens : HasTry(job[g])
  BY <1>2 DEF Init
<1>5. boot \in Boot /\ GenInv
  BY <1>1 DEF Init, GenInv, Chosen
<1>6. vec \in [Gens -> [Rows -> Models \cup {None}]] /\ \A g \in Gens, r \in Rows : vec[g][r] = None
  BY DEF Init
<1> QED
  <2>1. /\ up = FALSE /\ model \in Models \cup {None} /\ boots \in 0 .. MaxBoots
        /\ active \in 0 .. MaxBoots /\ gen \in 0 .. MaxBoots /\ marker \in 0 .. MaxBoots
        /\ metaModel \in Models \cup {None} /\ exists \subseteq Gens
        /\ stored \subseteq Rows /\ indexed \subseteq stored
    BY Numbers DEF Init
  <2>2. TypeOK
    BY <1>3, <1>4, <1>5, <1>6, <2>1 DEF TypeOK, Writer, Job, Boot
  <2> QED
    BY <1>3, <1>4, <1>5, <2>1, <2>2 DEF TypeInv

\* The conjuncts about a record, from the sets of records.
LEMMA TypeParts ==
  ASSUME up' \in BOOLEAN, model' \in Models \cup {None}, boots' \in 0 .. MaxBoots,
         up' => model' \in Models,
         boot' \in Boot, GenInv',
         active' \in 0 .. MaxBoots, gen' \in 0 .. MaxBoots, marker' \in 0 .. MaxBoots,
         metaModel' \in Models \cup {None}, exists' \subseteq Gens,
         vec' \in [Gens -> [Rows -> Models \cup {None}]],
         \A g \in Gens \ exists', r \in Rows : vec'[g][r] = None,
         stored' \subseteq Rows, indexed' \subseteq stored',
         writer' \in [Rows -> Writer], \A r \in Rows : HasTry(writer'[r]),
         job' \in [Gens -> Job], \A g \in Gens : HasTry(job'[g])
  PROVE  TypeInv'
BY DEF TypeInv, TypeOK, Boot, Writer, Job, HasTry

LEMMA TypeStep == TypeInv /\ [Next]_vars => TypeInv'
<1> SUFFICES ASSUME TypeInv, [Next]_vars PROVE TypeInv'
  OBVIOUS
<1>1. /\ boot \in Boot /\ writer \in [Rows -> Writer] /\ job \in [Gens -> Job]
      /\ exists \subseteq Gens /\ vec \in [Gens -> [Rows -> Models \cup {None}]]
      /\ active \in 0 .. MaxBoots /\ gen \in 0 .. MaxBoots /\ marker \in 0 .. MaxBoots
      /\ metaModel \in Models \cup {None} /\ model \in Models \cup {None}
      /\ stored \subseteq Rows /\ indexed \subseteq stored
      /\ boots \in 0 .. MaxBoots /\ up \in BOOLEAN
      /\ \A r \in Rows : HasTry(writer[r])
      /\ \A g \in Gens : HasTry(job[g])
      /\ \A g \in Gens \ exists, r \in Rows : vec[g][r] = None
      /\ GenInv
      /\ up => model \in Models
  BY Types DEF TypeInv, TypeOK
<1>2. CASE UNCHANGED vars
  <2>1. GenInv'
    BY <1>1, <1>2 DEF vars, process, meta, GenInv
  <2> QED
    BY <1>1, <1>2, <2>1, TypeParts DEF vars, process, meta, tables
<1>3. CASE indexed' = indexed \cup Searchable' /\ \E m \in Models : StartProcess(m)
  <2>1. PICK m \in Models : StartProcess(m)
    BY <1>3
  <2>2. boot' \in Boot /\ boots' \in 0 .. MaxBoots /\ GenInv'
    BY <1>1, <2>1, Numbers DEF StartProcess, Boot, GenInv, Chosen, meta
  <2>3. indexed' \subseteq stored'
    BY <1>1, <1>3, <2>1 DEF StartProcess, Searchable
  <2> QED
    BY <1>1, <2>1, <2>2, <2>3, TypeParts DEF StartProcess, meta, tables
<1>4. CASE indexed' = indexed \cup Searchable' /\ BootStep
  <2>1. indexed' \subseteq stored'
    BY <1>1, <1>4, BootFrame DEF Searchable
  <2>2. exists' \subseteq Gens /\ \A g \in Gens \ exists', r \in Rows : vec'[g][r] = None
    <3>1. exists' = exists \/ (boot.new \in Gens /\ exists' = exists \cup {boot.new})
      BY <1>1, <1>4, BootFrame DEF BootPath, GenInv, Chosen
    <3> QED
      BY <1>1, <1>4, <3>1, BootFrame
  <2>3. job' \in [Gens -> Job] /\ \A g \in Gens : HasTry(job'[g])
    <3> DEFINE j == [NoJob EXCEPT !.pc = "queued", !.old = boot.cur, !.model = model]
    <3>1. j \in Job /\ HasTry(j)
      <4>1. /\ NoJob \in Job /\ NoJob.tries < MaxAttempts
            /\ boot.cur \in 0 .. MaxBoots /\ model \in Models \cup {None}
        BY <1>1, NewJob DEF Boot
      <4> QED
        BY <4>1 DEF Job, JobPCs, Resting, HasTry
    <3>2. job' = job \/ job' = [job EXCEPT ![boot.new] = j]
      BY <1>4, BootFrame DEF BootPath
    <3> HIDE DEF j
    <3> QED
      BY <1>1, <3>1, <3>2
  <2>4. /\ active' \in 0 .. MaxBoots /\ gen' \in 0 .. MaxBoots /\ marker' \in 0 .. MaxBoots
        /\ metaModel' \in Models \cup {None}
    <3>1. boot.new \in 0 .. MaxBoots /\ 0 \in 0 .. MaxBoots
      BY <1>1, Numbers DEF Boot
    <3> QED
      BY <1>1, <1>4, <3>1, BootFrame DEF BootPath, meta
  <2>5. UNCHANGED <<process, stored, writer, vec>> /\ boot' \in Boot /\ GenInv'
    BY <1>4, BootFrame, GenStep
  <2> QED
    BY <1>1, <2>1, <2>2, <2>3, <2>4, <2>5, TypeParts DEF process
<1>5. CASE indexed' = indexed \cup Searchable' /\ \E r \in Rows : RowMoves(r)
  <2>1. PICK r \in Rows : RowMoves(r)
    BY <1>5
  <2>2. /\ UNCHANGED <<process, boot, meta, job, exists>> /\ up
        /\ stored' \in {stored, stored \cup {r}}
    BY <2>1, RowFrame
  <2>3. writer' \in [Rows -> Writer] /\ \A q \in Rows : HasTry(writer'[q])
    <3>1. PICK w \in Writer : writer' = [writer EXCEPT ![r] = w] /\ HasTry(w)
      BY <2>1, RowFrame
    <3> QED
      BY <1>1, <3>1
  <2>4. /\ vec' \in [Gens -> [Rows -> Models \cup {None}]]
        /\ \A g \in Gens \ exists', q \in Rows : vec'[g][q] = None
    <3>1. CASE vec' = vec
      BY <1>1, <2>2, <3>1
    <3>2. ASSUME NEW s \in Rows, writer[r].table \in exists,
                 vec' = [vec EXCEPT ![writer[r].table][s] = model]
          PROVE  /\ vec' \in [Gens -> [Rows -> Models \cup {None}]]
                 /\ \A g \in Gens \ exists', q \in Rows : vec'[g][q] = None
      BY <1>1, <2>2, <3>2, AddVector
    <3> QED
      BY <2>1, <3>1, <3>2, RowFrame
  <2>5. indexed' \subseteq stored' /\ stored' \subseteq Rows
    BY <1>1, <1>5, <2>2 DEF Searchable
  <2>6. GenInv'
    BY <1>1, <2>2 DEF process, meta, GenInv
  <2> QED
    BY <1>1, <2>2, <2>3, <2>4, <2>5, <2>6, TypeParts DEF process, meta
<1>6. CASE indexed' = indexed \cup Searchable' /\ \E g \in Gens : ReembedStep(g)
  <2>1. PICK g \in Gens : ReembedStep(g)
    BY <1>6
  <2>2. UNCHANGED <<process, boot, gen, stored, writer>> /\ up
    BY <2>1, JobFrame
  <2>3. PICK j \in Job : job' = [job EXCEPT ![g] = j] /\ HasTry(j)
    BY <2>1, JobFrame
  <2>4. job[g] \in Job
    BY <1>1
  <2>5. /\ active' \in 0 .. MaxBoots /\ marker' \in 0 .. MaxBoots
        /\ metaModel' \in Models \cup {None}
    <3>1. job[g].model \in Models \cup {None} /\ g \in 0 .. MaxBoots /\ 0 \in 0 .. MaxBoots
      BY <2>4, Numbers DEF Job
    <3> QED
      BY <1>1, <2>1, <3>1, JobFrame
  <2>6. /\ exists' \subseteq Gens /\ vec' \in [Gens -> [Rows -> Models \cup {None}]]
        /\ \A h \in Gens \ exists', q \in Rows : vec'[h][q] = None
    <3>1. CASE UNCHANGED tables
      BY <1>1, <3>1 DEF tables
    <3>2. CASE exists' = exists \cup {g} /\ vec' = vec
      BY <1>1, <3>2
    <3>3. ASSUME NEW r \in Rows, g \in exists, exists' = exists, vec' = [vec EXCEPT ![g][r] = model]
          PROVE  /\ exists' \subseteq Gens /\ vec' \in [Gens -> [Rows -> Models \cup {None}]]
                 /\ \A h \in Gens \ exists', q \in Rows : vec'[h][q] = None
      BY <1>1, <2>2, <3>3, AddVector
    <3>4. ASSUME NEW d, DropTable(d)
          PROVE  /\ exists' \subseteq Gens /\ vec' \in [Gens -> [Rows -> Models \cup {None}]]
                 /\ \A h \in Gens \ exists', q \in Rows : vec'[h][q] = None
      BY <1>1, <3>4 DEF DropTable
    <3> QED
      BY <2>1, <3>1, <3>2, <3>3, <3>4, JobFrame
  <2>7. indexed' \subseteq stored'
    BY <1>1, <1>6, <2>2 DEF Searchable
  <2>8. GenInv'
    BY <1>1, <2>2 DEF process, GenInv
  <2> QED
    BY <1>1, <2>2, <2>3, <2>5, <2>6, <2>7, <2>8, TypeParts DEF process
<1>7. CASE indexed' = indexed \cup Searchable' /\ Crash
  <2>1. boot' \in Boot /\ GenInv'
    BY <1>1, <1>7, CrashFrame, Numbers DEF NoBoot, Boot, GenInv, Chosen, meta
  <2>2. indexed' \subseteq stored'
    BY <1>1, <1>7, CrashFrame DEF Searchable
  <2>3. /\ UNCHANGED <<model, boots, meta, tables, stored>> /\ up' = FALSE
        /\ writer' \in [Rows -> Writer] /\ \A r \in Rows : HasTry(writer'[r])
        /\ job' \in [Gens -> Job] /\ \A g \in Gens : HasTry(job'[g])
    BY <1>7, CrashFrame
  <2> QED
    BY <1>1, <2>1, <2>2, <2>3, TypeParts DEF meta, tables
<1> QED
  BY <1>2, <1>3, <1>4, <1>5, <1>6, <1>7, Moves

LEMMA TypeAlways == Spec => []TypeInv
BY TypeInit, TypeStep, PTL DEF Spec

\* system_meta, the tables, the rows and the jobs stay what their columns can
\* hold, and a table that is not there holds no vector, through any number of
\* starts, crashes, migrations and retries.
THEOREM TypeCorrect == Spec => []TypeOK
<1>1. TypeInv => TypeOK
  BY DEF TypeInv
<1> QED
  BY <1>1, TypeAlways, PTL

-----------------------------------------------------------------------------
(***************************************************************************)
(* What the migration needs besides the code: that no process starts with  *)
(* a re-embed job queued or running (the job would meet a second one, and  *)
(* the configuration may have changed again); that bootVectors, once       *)
(* begun, neither errs nor dies; that no re-embed job uses up its          *)
(* attempts.  Each theorem names those it rests on.                        *)
(***************************************************************************)
Alone == ~up /\ up' => \A g \in Gens : ~Open(g)
StartsAlone == [][Alone]_vars

BootRuns == boot.pc \notin {"idle", "failed"} => up' /\ boot'.pc # "failed"
BootsComplete == [][BootRuns]_vars

NoneGivenUp == \A g \in Gens : job[g].pc # "failed"

-----------------------------------------------------------------------------
(***************************************************************************)
(* The flip, when processes start alone.                                   *)
(***************************************************************************)
BootOK ==
  /\ ~up => boot.pc = "idle"
  /\ boot.pc \in {"model", "create", "ensure", "gen", "setMarker", "enqueue"} => boot.cur = active
  /\ boot.pc = "ensure" => boot.new = boot.cur
  /\ boot.pc \in {"gen", "setActive"} => boot.new \in exists
  /\ boot.pc = "setActive" => active = 0
  /\ boot.pc \in {"setModel", "clearMarker"} => active = boot.new
  /\ boot.pc \in {"setMarker", "enqueue"} => active # 0
  /\ boot.pc = "enqueue" => marker = boot.new

\* The flips that have begun have the new table active.
Flipping == {"setModel", "clearMarker", "drop"}

JobOK ==
  /\ \A g, h \in Gens : Open(g) /\ Open(h) => g = h
  /\ \A g \in Gens : Open(g) =>
       /\ boot.pc = "idle" /\ active # 0
       /\ active # g => marker # 0
       /\ job[g].pc \in Flipping => active = g
       /\ job[g].pc # "queued" => g \in exists

MetaOK == active # 0 => active \in exists

FlipOK == BootOK /\ JobOK /\ MetaOK

\* How the re-embed job moves through its steps.
LEMMA JobPath ==
  ASSUME TypeInv, NEW g \in Gens, ReembedStep(g)
  PROVE  LET x == job[g].pc
             y == job'[g].pc IN
         \/ /\ x = "queued" /\ y = "facts" /\ exists' = exists \cup {g} /\ UNCHANGED meta
         \/ /\ x \in {"facts", "factRows", "queries", "queryRows"}
            /\ y \in {"factRows", "queries", "queryRows", "setActive"}
            /\ UNCHANGED <<exists, meta>>
         \/ /\ x = "setActive" /\ y = "setModel" /\ active' = g
            /\ UNCHANGED <<gen, metaModel, marker, exists>>
         \/ /\ x = "setModel" /\ y = "clearMarker" /\ metaModel' = job[g].model
            /\ UNCHANGED <<active, gen, marker, exists>>
         \/ /\ x = "clearMarker" /\ y = "drop" /\ marker' = 0
            /\ UNCHANGED <<active, gen, metaModel, exists>>
         \/ /\ x = "drop" /\ y = "done" /\ UNCHANGED meta
            /\ exists' = IF job[g].old \notin {0, g} THEN exists \ {job[g].old} ELSE exists
         \/ /\ x \notin Resting /\ y \in {"queued", "failed"} /\ UNCHANGED <<exists, meta>>
<1>1. DOMAIN job = Gens /\ job[g] \in Job
  BY Types
<1>2. ASSUME NEW pc, ReembedGoes(g, pc) PROVE job'[g].pc = pc
  BY <1>1, <1>2 DEF ReembedGoes, Job
<1>3. CASE ReembedStart(g)
  BY <1>2, <1>3 DEF ReembedStart, ReembedAt, EnsureVectorTable
<1>4. CASE ReembedSelect(g)
  <2>1. job'[g].pc \in {"factRows", "queryRows"}
    BY <1>1, <1>4 DEF ReembedSelect, Job
  <2> QED
    BY <1>4, <2>1 DEF ReembedSelect, ReembedAt, tables
<1>5. ASSUME NEW r \in Rows, ReembedRow(g, r)
      PROVE  /\ job[g].pc \in {"factRows", "queryRows"} /\ job'[g].pc = job[g].pc
             /\ UNCHANGED <<exists, meta>>
  <2>1. job'[g].pc = job[g].pc
    BY <1>1, <1>5 DEF ReembedRow, Job
  <2> QED
    BY <1>5, <2>1 DEF ReembedRow, UpsertVector
<1>6. CASE ReembedOwnerDone(g)
  BY <1>2, <1>6 DEF ReembedOwnerDone, ReembedAt, tables
<1>7. CASE ReembedSetMeta(g)
  <2>1. job'[g].pc = AfterMeta(job[g].pc, "drop")
    BY <1>2, <1>7 DEF ReembedSetMeta
  <2> QED
    BY <1>7, <2>1 DEF ReembedSetMeta, SetVectorMeta, AfterMeta, tables
<1>8. CASE ReembedDrop(g)
  BY <1>2, <1>8 DEF ReembedDrop, ReembedAt, DropTable, tables
<1>9. CASE ReembedError(g)
  <2>1. job[g].tries \in 0 .. MaxAttempts /\ job[g].tries < MaxAttempts
    BY <1>1, <1>9 DEF ReembedError, Resting, Job, HasTry, TypeInv
  <2>2. job'[g].pc = AfterError(job[g].tries)
    BY <1>1, <1>9 DEF ReembedError, Job
  <2> QED
    BY <1>9, <2>1, <2>2, ErrorCounts DEF ReembedError, tables
<1> QED
  BY <1>3, <1>4, <1>5, <1>6, <1>7, <1>8, <1>9 DEF ReembedStep

\* The other jobs stay as they are.
LEMMA OneJobMoves ==
  ASSUME TypeInv, NEW g \in Gens, ReembedStep(g)
  PROVE  /\ Open(g)
         /\ \A h \in Gens : h # g => job'[h] = job[h]
         /\ job'[g].old = job[g].old /\ job'[g].model = job[g].model
         /\ UNCHANGED <<up, model, boot, gen, stored, writer>> /\ up
<1>1. PICK j \in Job : /\ job' = [job EXCEPT ![g] = j]
                       /\ j.old = job[g].old /\ j.model = job[g].model
  BY JobFrame
<1>2. DOMAIN job = Gens
  BY Types
<1>3. Open(g)
  BY JobPath DEF Open, Resting
<1> QED
  BY <1>1, <1>2, <1>3, JobFrame DEF process

LEMMA FlipInit == Init => FlipOK
BY DEF Init, FlipOK, BootOK, JobOK, MetaOK, NoBoot, NoJob, Open

LEMMA FlipBoot ==
  ASSUME TypeInv, FlipOK, BootStep
  PROVE  FlipOK'
<1>1. /\ UNCHANGED up /\ up /\ BootPath /\ boot \in Boot /\ boot' \in Boot
      /\ boot.pc # "enqueue" => UNCHANGED job
      /\ (boot.pc = "enqueue" => boot.new \in Gens) /\ DOMAIN job = Gens
      /\ boot.pc \in Chosen => boot.new \in Gens
  BY BootFrame, GenStep, Types DEF process, BootPath, TypeInv, GenInv
<1>2. boot.pc # "idle"
  BY <1>1 DEF BootPath, Chosen
<1>3. \A g \in Gens : ~Open(g)
  BY <1>2 DEF FlipOK, JobOK
<1>4. BootOK'
  BY <1>1, Numbers DEF BootPath, FlipOK, BootOK, MetaOK, meta, Chosen
<1>5. MetaOK'
  BY <1>1 DEF BootPath, FlipOK, BootOK, MetaOK, meta
<1>6. JobOK'
  <2>1. CASE UNCHANGED job
    BY <1>1, <1>3, <2>1 DEF JobOK, Open
  <2>2. CASE boot.pc = "enqueue" /\ job' # job
    <3>1. /\ job' = [job EXCEPT ![boot.new] = [NoJob EXCEPT !.pc = "queued", !.old = boot.cur,
                                                            !.model = model]]
          /\ boot'.pc = "idle" /\ UNCHANGED <<active, marker>>
          /\ active # 0 /\ marker = boot.new
      BY <1>1, <2>2 DEF BootPath, Chosen, meta, FlipOK, BootOK
    <3>2. job'[boot.new].pc = "queued" /\ \A g \in Gens : g # boot.new => ~Open(g)'
      BY <1>1, <1>3, <2>2, <3>1 DEF NoJob, Open
    <3>3. marker' # 0
      BY <1>1, <2>2, <3>1, Numbers
    <3> QED
      BY <3>1, <3>2, <3>3 DEF JobOK, Flipping
  <2> QED
    BY <1>1, <2>1, <2>2
<1> QED
  BY <1>4, <1>5, <1>6 DEF FlipOK

LEMMA FlipJob ==
  ASSUME TypeInv, FlipOK, NEW g \in Gens, ReembedStep(g)
  PROVE  FlipOK'
<1>1. /\ Open(g) /\ \A h \in Gens : h # g => job'[h] = job[h]
      /\ UNCHANGED <<up, boot>> /\ up
  BY OneJobMoves
<1>2. /\ boot.pc = "idle" /\ active # 0 /\ (active # g => marker # 0)
      /\ job[g].pc \in Flipping => active = g
      /\ job[g].pc # "queued" => g \in exists
      /\ \A h \in Gens : h # g => ~Open(h)
  BY <1>1 DEF FlipOK, JobOK
<1>3. active' \in {active, g} /\ (job[g].pc \in Flipping => active' = g)
      /\ active' # 0 /\ (active' # g => marker' # 0)
  BY <1>2, JobPath, Numbers DEF meta, Flipping, Resting
<1>4. BootOK'
  BY <1>1, <1>2 DEF FlipOK, BootOK
<1>5. /\ job'[g].pc \in Flipping => active' = g
      /\ Open(g)' /\ job'[g].pc # "queued" => g \in exists'
  BY <1>1, <1>2, JobPath DEF meta, Flipping, Resting, Open
<1>6. active' \in exists'
  BY <1>1, <1>2, JobPath DEF meta, Flipping, Resting, FlipOK, MetaOK, Open
<1>7. \A h \in Gens : h # g => ~Open(h)'
  BY <1>1, <1>2 DEF Open
<1>8. JobOK'
  BY <1>1, <1>2, <1>3, <1>5, <1>7 DEF JobOK
<1> QED
  BY <1>4, <1>6, <1>8 DEF FlipOK, MetaOK

LEMMA FlipStep ==
  ASSUME TypeInv, FlipOK, [Next]_vars, [Alone]_vars
  PROVE  FlipOK'
<1>2. CASE UNCHANGED <<up, boot, meta, job, exists>>
  BY <1>2 DEF FlipOK, BootOK, JobOK, MetaOK, meta, Open
<1>3. ASSUME NEW m \in Models, StartProcess(m) PROVE FlipOK'
  <2>1. /\ boot'.pc = "table" /\ UNCHANGED <<active, marker, exists, job>>
        /\ ~up /\ up'
    BY <1>3 DEF StartProcess, meta, tables
  <2>2. \A g \in Gens : ~Open(g)
    BY <2>1 DEF Alone, vars, process
  <2> QED
    BY <2>1, <2>2 DEF FlipOK, BootOK, JobOK, MetaOK, Open
<1>4. ASSUME NEW r \in Rows, RowMoves(r) PROVE FlipOK'
  BY <1>2, <1>4, RowFrame DEF process
<1>5. CASE Crash
  <2>1. /\ UNCHANGED <<active, marker, exists>> /\ boot'.pc = "idle"
        /\ \A g \in Gens : IF job[g].pc \in Resting THEN job'[g] = job[g] ELSE job'[g].pc = "queued"
    BY <1>5, CrashFrame DEF meta, tables, NoBoot
  <2>2. \A g \in Gens : /\ Open(g)' <=> Open(g)
                        /\ job'[g].pc \in Flipping => job[g].pc \in Flipping
                        /\ job'[g].pc # "queued" => job'[g] = job[g]
    BY <2>1 DEF Open, Resting, Flipping
  <2>3. BootOK'
    BY <2>1 DEF BootOK
  <2>4. JobOK' /\ MetaOK'
    BY <2>1, <2>2 DEF FlipOK, JobOK, MetaOK
  <2> QED
    BY <2>3, <2>4 DEF FlipOK
<1>6. ASSUME NEW g \in Gens, ReembedStep(g) PROVE FlipOK'
  BY <1>6, FlipJob
<1>7. CASE BootStep
  BY <1>7, FlipBoot
<1>8. CASE UNCHANGED vars
  BY <1>2, <1>8 DEF vars, process, tables
<1> QED
  BY <1>3, <1>4, <1>5, <1>6, <1>7, <1>8, Moves

LEMMA FlipAlways == Spec /\ StartsAlone => []FlipOK
<1>1. Init => FlipOK
  BY FlipInit
<1>2. TypeInv /\ FlipOK /\ [Next]_vars /\ [Alone]_vars => FlipOK'
  BY FlipStep
<1> QED
  BY <1>1, <1>2, TypeAlways, PTL DEF Spec, StartsAlone

\* While no process starts with a re-embed job under way, system_meta never
\* names a table that is not there: the new table is created before the flip,
\* and the old one is dropped only when the flip is complete, whatever error,
\* crash or retry falls between them and however many migrations there are.
THEOREM ActiveTableIsThere == Spec /\ StartsAlone => []ActiveTableExists
<1>1. FlipOK => ActiveTableExists
  BY DEF FlipOK, MetaOK, ActiveTableExists
<1> QED
  BY <1>1, FlipAlways, PTL

\* While no process starts with a re-embed job under way, the store is not
\* ready from the enqueue of a job to its flip, and every read of the marker in
\* between degrades (activeVectorTable), in every migration.
THEOREM MigrationDegradesReads == Spec /\ StartsAlone => []DegradedWhileMigrating
<1>1. FlipOK => DegradedWhileMigrating
  BY DEF FlipOK, JobOK, DegradedWhileMigrating, Migrating, Ready
<1> QED
  BY <1>1, FlipAlways, PTL

-----------------------------------------------------------------------------
(***************************************************************************)
(* What the flip carries over.  A pass owes a vector in the new table to   *)
(* the rows it has still to embed, and to no other row that was found.     *)
(***************************************************************************)
Found(g) == {r \in Rows : vec[g][r] # None}

Owed(g) ==
  /\ job[g].pc = "factRows" => indexed \cap Facts \subseteq Found(g) \cup job[g].todo
  /\ job[g].pc \in {"queries", "queryRows"} => indexed \cap Facts \subseteq Found(g)
  /\ job[g].pc = "queryRows" => indexed \cap Queries \subseteq Found(g) \cup job[g].todo
  /\ job[g].pc = "setActive" => indexed \subseteq Found(g)

Carried ==
  /\ active = 0 => indexed = {}
  /\ active # 0 => indexed \subseteq Found(active)
  /\ \A g \in Gens : Owed(g)

\* No step takes a vector of the table that is read, or of the one that is being
\* filled: the old table is dropped after the flip.
LEMMA FoundGrows ==
  ASSUME TypeInv, FlipOK, [Next]_vars, NEW h \in Gens, h = active \/ Open(h)
  PROVE  Found(h) \subseteq Found(h)'
<1>1. CASE UNCHANGED vec
  BY <1>1 DEF Found
<1>2. ASSUME NEW g \in exists, NEW r \in Rows, up, vec' = [vec EXCEPT ![g][r] = model]
      PROVE  Found(h) \subseteq Found(h)'
  BY <1>2, AddVector DEF Found
<1>3. ASSUME NEW r \in Rows, RowMoves(r) PROVE Found(h) \subseteq Found(h)'
  BY <1>1, <1>2, <1>3, RowFrame
<1>4. ASSUME NEW g \in Gens, ReembedStep(g) PROVE Found(h) \subseteq Found(h)'
  <2>1. CASE job[g].pc = "drop" /\ job[g].old \notin {0, g} /\ DropTable(job[g].old)
    <3>1. Open(g) /\ active = g
      BY <1>4, <2>1, OneJobMoves DEF FlipOK, JobOK, Flipping
    <3>2. h = g
      BY <3>1 DEF FlipOK, JobOK
    <3>3. vec'[h] = vec[h]
      BY <2>1, <3>2, Types DEF DropTable
    <3> QED
      BY <3>3 DEF Found
  <2> QED
    BY <1>1, <1>2, <1>4, <2>1, JobFrame DEF tables
<1>5. CASE BootStep
  BY <1>1, <1>5, BootFrame
<1>6. CASE Crash
  BY <1>1, <1>6, CrashFrame DEF tables
<1>7. ASSUME NEW m \in Models, StartProcess(m) PROVE Found(h) \subseteq Found(h)'
  BY <1>1, <1>7 DEF StartProcess, tables
<1> QED
  BY <1>1, <1>3, <1>4, <1>5, <1>6, <1>7, Moves DEF vars, tables

\* How the two passes of a re-embed job pay what they owe.
LEMMA PassPath ==
  ASSUME TypeInv, NEW g \in Gens, ReembedStep(g)
  PROVE  LET x == job[g]
             y == job'[g] IN
         /\ y.pc = "factRows" =>
              \/ y.todo = stored \cap Facts
              \/ /\ x.pc = "factRows"
                 /\ \E r \in Rows : /\ r \in Found(g)' /\ vec'[g][r] = model
                                  /\ y.todo = x.todo \ {r}
         /\ y.pc = "queries" => x.pc = "factRows" /\ x.todo = {}
         /\ y.pc = "queryRows" =>
              \/ x.pc = "queries" /\ y.todo = stored \cap Queries
              \/ /\ x.pc = "queryRows"
                 /\ \E r \in Rows : /\ r \in Found(g)' /\ vec'[g][r] = model
                                  /\ y.todo = x.todo \ {r}
         /\ y.pc = "setActive" => x.pc = "queryRows" /\ x.todo = {}
<1>1. DOMAIN job = Gens /\ job[g] \in Job
  BY Types
<1>2. ASSUME NEW pc, ReembedGoes(g, pc) PROVE job'[g].pc = pc
  BY <1>1, <1>2 DEF ReembedGoes, Job
<1>3. CASE ReembedStart(g)
  BY <1>2, <1>3 DEF ReembedStart
<1>4. CASE ReembedSelect(g)
  BY <1>1, <1>4 DEF ReembedSelect, ReembedAt, Job
<1>5. ASSUME NEW r \in Rows, ReembedRow(g, r)
      PROVE  /\ job[g].pc \in {"factRows", "queryRows"} /\ job'[g].pc = job[g].pc
             /\ r \in Found(g)' /\ vec'[g][r] = model /\ job'[g].todo = job[g].todo \ {r}
  <2>1. job'[g].pc = job[g].pc /\ job'[g].todo = job[g].todo \ {r}
    BY <1>1, <1>5 DEF ReembedRow, Job
  <2>2. g \in exists /\ up /\ vec' = [vec EXCEPT ![g][r] = model]
    BY <1>5 DEF ReembedRow, UpsertVector
  <2>3. r \in Found(g)' /\ vec'[g][r] = model
    BY <2>2, AddVector, Types DEF Found
  <2> QED
    BY <1>5, <2>1, <2>3 DEF ReembedRow
<1>6. CASE ReembedOwnerDone(g)
  BY <1>2, <1>6 DEF ReembedOwnerDone, ReembedAt
<1>7. CASE ReembedSetMeta(g)
  <2>1. job'[g].pc \in {"setModel", "clearMarker", "drop"}
    BY <1>2, <1>7 DEF ReembedSetMeta, AfterMeta
  <2> QED
    BY <2>1
<1>8. CASE ReembedDrop(g)
  BY <1>2, <1>8 DEF ReembedDrop
<1>9. CASE ReembedError(g)
  <2>1. job'[g].pc \in {"queued", "failed"}
    BY <1>1, <1>9 DEF ReembedError, AfterError, Job
  <2> QED
    BY <2>1
<1> QED
  BY <1>3, <1>4, <1>5, <1>6, <1>7, <1>8, <1>9 DEF ReembedStep

\* A row joins the rows found only at a ready moment, through the active table.
LEMMA IndexGrows ==
  ASSUME TypeInv, [Next]_vars
  PROVE  \/ indexed' = indexed
         \/ active' # 0 /\ marker' = 0 /\ indexed' \subseteq indexed \cup Found(active)'
<1>1. stored' \subseteq Rows
  BY TypeStep DEF TypeInv, TypeOK
<1>2. CASE UNCHANGED vars
  BY <1>2 DEF vars
<1>3. CASE indexed' = indexed \cup Searchable'
  <2>1. Searchable' = {} \/ Ready'
    BY DEF Searchable
  <2>2. Searchable' \subseteq Found(active)'
    BY <1>1 DEF Searchable, Found
  <2> QED
    BY <1>3, <2>1, <2>2 DEF Ready
<1> QED
  BY <1>2, <1>3, Moves

LEMMA OwedByJob ==
  ASSUME TypeInv, FlipOK, Carried, [Next]_vars, NEW g \in Gens, ReembedStep(g), indexed' = indexed
  PROVE  Owed(g)'
<1>1. Found(g) \subseteq Found(g)' /\ indexed \subseteq stored /\ indexed \subseteq Facts \cup Queries
  BY FoundGrows, OneJobMoves, Types DEF Rows
<1>2. Owed(g)
  BY DEF Carried, Owed
<1>3. CASE job'[g].pc = "factRows"
  BY <1>1, <1>2, <1>3, PassPath DEF Owed
<1>4. CASE job'[g].pc = "queries"
  BY <1>1, <1>2, <1>4, PassPath DEF Owed
<1>5. CASE job'[g].pc = "queryRows"
  BY <1>1, <1>2, <1>5, PassPath DEF Owed
<1>6. CASE job'[g].pc = "setActive"
  BY <1>1, <1>2, <1>6, PassPath DEF Owed
<1> QED
  BY <1>3, <1>4, <1>5, <1>6 DEF Owed

LEMMA CarriedStep ==
  ASSUME TypeInv, FlipOK, Carried, [Next]_vars, [Alone]_vars
  PROVE  Carried'
<1>1. /\ FlipOK' /\ TypeInv'
      /\ active \in 0 .. MaxBoots /\ active' \in 0 .. MaxBoots
      /\ active # 0 => active \in Gens
      /\ active' # 0 => active' \in Gens
  <2>1. FlipOK' /\ TypeInv'
    BY FlipStep, TypeStep
  <2>2. active \in 0 .. MaxBoots /\ active' \in 0 .. MaxBoots
    BY <2>1 DEF TypeInv, TypeOK
  <2> QED
    BY <2>1, <2>2, Numbers DEF Gens
<1>2. \/ indexed' = indexed
      \/ active' # 0 /\ marker' = 0 /\ indexed' \subseteq indexed \cup Found(active)'
  BY IndexGrows
<1>3. ASSUME active = active' \/ indexed = {} \/ \E g \in Gens : active' = g /\ Open(g) /\ indexed \subseteq Found(g)
      PROVE  /\ active' = 0 => indexed' = {}
             /\ active' # 0 => indexed' \subseteq Found(active)'
  <2>1. CASE active' = 0
    BY <1>1, <1>2, <1>3, <2>1, Numbers DEF Carried
  <2>2. CASE active' # 0
    <3>1. indexed \subseteq Found(active)'
      <4>1. CASE indexed = {}
        BY <4>1
      <4>2. CASE active = active'
        <5>1. Found(active) \subseteq Found(active)' /\ indexed \subseteq Found(active)
          <6>1. \A h \in Gens : h = active => Found(h) \subseteq Found(h)'
            BY FoundGrows
          <6>2. active \in Gens
            BY <1>1, <2>2, <4>2
          <6> QED
            BY <2>2, <4>2, <6>1, <6>2 DEF Carried, Found
        <5> QED
          BY <5>1
      <4>3. ASSUME NEW g \in Gens, active' = g, Open(g), indexed \subseteq Found(g)
            PROVE  indexed \subseteq Found(active)'
        <5>1. Found(g) \subseteq Found(g)'
          BY <4>3, FoundGrows
        <5> QED
          BY <4>3, <5>1 DEF Found
      <4> QED
        BY <1>3, <4>1, <4>2, <4>3
    <3> QED
      BY <1>2, <2>2, <3>1
  <2> QED
    BY <2>1, <2>2
\* What is in the active table is owed to nobody; of another table the job is
\* open, the store is not ready, and no row is found meanwhile.
<1>4. ASSUME NEW g \in Gens, UNCHANGED <<active, job>> PROVE Owed(g)'
  <2>1. CASE active' = g
    BY <1>1, <1>3, <1>4, <2>1, Numbers DEF Owed, Found
  <2>2. CASE Open(g) /\ active' # g
    <3>1. marker' # 0
      BY <1>1, <1>4, <2>2 DEF FlipOK, JobOK, Open
    <3>2. indexed' = indexed /\ Found(g) \subseteq Found(g)'
      BY <1>2, <2>2, <3>1, FoundGrows
    <3> QED
      BY <1>4, <3>2 DEF Carried, Owed
  <2>3. CASE ~Open(g)
    BY <1>4, <2>3 DEF Owed, Open
  <2> QED
    BY <2>1, <2>2, <2>3
<1>5. CASE UNCHANGED <<active, job>>
  BY <1>3, <1>4, <1>5 DEF Carried, Owed
<1>6. ASSUME NEW r \in Rows, RowMoves(r) PROVE Carried'
  BY <1>5, <1>6, RowFrame DEF meta
<1>7. ASSUME NEW m \in Models, StartProcess(m) PROVE Carried'
  BY <1>5, <1>7 DEF StartProcess, meta
<1>8. CASE Crash
  <2>1. UNCHANGED active
    BY <1>8, CrashFrame DEF meta
  <2>2. \A g \in Gens : job'[g].pc \notin {"factRows", "queries", "queryRows", "setActive"}
    BY <1>8, CrashFrame DEF Resting
  <2> QED
    BY <1>3, <2>1, <2>2 DEF Carried, Owed
<1>9. CASE BootStep
  <2>1. /\ BootPath /\ boot.pc # "idle"
    BY <1>9, BootFrame DEF BootPath, Chosen
  <2>2. \A g \in Gens : ~Open(g)
    BY <2>1 DEF FlipOK, JobOK
  <2>3. \A g \in Gens : job'[g].pc \notin {"factRows", "queries", "queryRows", "setActive"}
    <3>1. CASE UNCHANGED job
      BY <2>2, <3>1 DEF Open
    <3>2. CASE job' = [job EXCEPT ![boot.new] = [NoJob EXCEPT !.pc = "queued", !.old = boot.cur,
                                                              !.model = model]]
      BY <2>2, <3>2, Types DEF Open, NoJob
    <3> QED
      BY <2>1, <3>1, <3>2 DEF BootPath
  <2>4. active' = active \/ indexed = {}
    BY <2>1 DEF BootPath, meta, FlipOK, BootOK, Carried
  <2> QED
    BY <1>3, <2>3, <2>4 DEF Carried, Owed
<1>10. ASSUME NEW g \in Gens, ReembedStep(g) PROVE Carried'
  <2>1. /\ Open(g) /\ \A h \in Gens : h # g => job'[h] = job[h] /\ ~Open(h)
        /\ boot.pc = "idle" /\ active # 0
    BY <1>10, OneJobMoves DEF FlipOK, JobOK
  <2>2. active' = active \/ (active' = g /\ indexed \subseteq Found(g))
    BY <1>10, JobPath DEF meta, Carried, Owed
  <2>3. /\ active' = 0 => indexed' = {}
        /\ active' # 0 => indexed' \subseteq Found(active)'
    BY <1>3, <2>1, <2>2
  <2>4. Owed(g)'
    <3>1. CASE active' = g
      BY <2>3, <3>1, Numbers DEF Owed, Found
    <3>2. CASE active' # g
      <4>1. Open(g)' => indexed' = indexed
        BY <1>1, <1>2, <3>2 DEF FlipOK, JobOK
      <4>2. ~Open(g)' => Owed(g)'
        BY DEF Open, Owed
      <4> QED
        BY <1>10, <4>1, <4>2, OwedByJob
    <3> QED
      BY <3>1, <3>2
  <2>5. \A h \in Gens : h # g => Owed(h)'
    BY <2>1 DEF Owed, Open
  <2> QED
    BY <2>3, <2>4, <2>5 DEF Carried, Owed
<1>11. CASE UNCHANGED vars
  BY <1>5, <1>11 DEF vars, meta
<1> QED
  BY <1>6, <1>7, <1>8, <1>9, <1>10, <1>11, Moves

LEMMA CarriedAlways == Spec /\ StartsAlone => []Carried
<1>1. Init => Carried
  BY DEF Init, Carried, Owed, NoJob
<1>2. TypeInv /\ FlipOK /\ Carried /\ [Next]_vars /\ [Alone]_vars => Carried'
  BY CarriedStep
<1> QED
  BY <1>1, <1>2, TypeAlways, FlipAlways, PTL DEF Spec, StartsAlone

\* While no process starts with a re-embed job under way, a row that a semantic
\* read could find once is found by every later ready read, through any number
\* of migrations: rows stored while the passes run are not selected by them, but
\* they could not be found before either, and no row that could is passed over.
THEOREM NoRowLost == Spec /\ StartsAlone => []NoSearchableRowLost
<1>1. TypeInv /\ FlipOK /\ Carried => NoSearchableRowLost
  <2> SUFFICES ASSUME TypeInv, FlipOK, Carried, Ready, NEW r \in indexed PROVE r \in Searchable
    BY DEF NoSearchableRowLost
  <2>1. r \in stored /\ active \in exists
    BY DEF TypeInv, TypeOK, Ready, FlipOK, MetaOK
  <2>2. vec[active][r] # None
    BY DEF Carried, Found, Ready
  <2> QED
    BY <2>1, <2>2 DEF Searchable
<1> QED
  BY <1>1, TypeAlways, FlipAlways, CarriedAlways, PTL

-----------------------------------------------------------------------------
(***************************************************************************)
(* The tables that are there, when besides no boot is cut short and no     *)
(* re-embed job is given up: at most two from the boot that makes the      *)
(* second to the end of its job, and otherwise the one that is read.       *)
(***************************************************************************)
TablesOK ==
  /\ boot.pc # "failed"
  /\ up /\ boot.pc = "idle" => active # 0
  /\ boot.pc = "idle" => \/ exists \subseteq {active} /\ \A g \in Gens : ~Open(g)
                         \/ \E g \in Gens : Open(g) /\ exists \subseteq {job[g].old, g}
  /\ boot.pc \in {"table", "model", "create", "ensure", "setModel", "clearMarker"} =>
       exists \subseteq {active}
  /\ boot.pc \in {"gen", "setMarker", "enqueue", "setActive"} => exists \subseteq {active, boot.new}

LEMMA TablesBoot ==
  ASSUME TypeInv, FlipOK, TablesOK, BootStep, BootRuns
  PROVE  TablesOK'
<1>1. /\ up' /\ BootPath /\ boot \in Boot /\ boot' \in Boot /\ exists \subseteq Gens /\ 0 \notin Gens
      /\ DOMAIN job = Gens /\ (boot.pc \in Chosen => boot.new \in Gens)
  BY BootFrame, Types, Numbers DEF process, TypeInv, GenInv
<1>2. boot.pc \notin {"idle", "failed"} /\ boot'.pc # "failed"
  BY <1>1 DEF BootPath, Chosen, BootRuns
<1>3. boot'.pc \in {"model", "create", "ensure", "gen", "setActive", "setModel", "clearMarker",
                    "setMarker", "enqueue"}
        => TablesOK'
  BY <1>1, <1>2 DEF BootPath, FlipOK, BootOK, TablesOK, meta, Chosen
<1>4. CASE boot'.pc = "idle"
  <2>1. boot.pc \in {"ensure", "enqueue", "clearMarker"} /\ UNCHANGED active
    BY <1>1, <1>2, <1>4 DEF BootPath, Chosen, meta
  <2>2. \A g \in Gens : ~Open(g)
    BY <1>2 DEF FlipOK, JobOK
  <2>3. CASE boot.pc \in {"ensure", "clearMarker"}
    <3>1. UNCHANGED job /\ exists' \subseteq {active} /\ boot.new = active /\ boot.new \in Gens
      BY <1>1, <2>3 DEF BootPath, FlipOK, BootOK, TablesOK, Chosen
    <3> QED
      BY <1>1, <1>4, <2>1, <2>2, <3>1 DEF TablesOK, Open
  <2>4. CASE boot.pc = "enqueue"
    <3> DEFINE g == boot.new
    <3>1. /\ job' = [job EXCEPT ![g] = [NoJob EXCEPT !.pc = "queued", !.old = boot.cur,
                                                     !.model = model]]
          /\ UNCHANGED exists /\ exists \subseteq {active, g} /\ boot.cur = active /\ active # 0
          /\ g \in Gens
      BY <1>1, <1>4, <2>4 DEF BootPath, FlipOK, BootOK, TablesOK, Chosen
    <3>2. job'[g].pc = "queued" /\ job'[g].old = active
      BY <1>1, <3>1 DEF NoJob
    <3> QED
      BY <1>4, <2>1, <3>1, <3>2 DEF TablesOK, Open
  <2> QED
    BY <2>1, <2>3, <2>4
<1> QED
  BY <1>1, <1>2, <1>3, <1>4 DEF BootPath, Chosen

LEMMA TablesJob ==
  ASSUME TypeInv, FlipOK, TablesOK, NoneGivenUp', NEW g \in Gens, ReembedStep(g)
  PROVE  TablesOK'
<1>1. /\ Open(g) /\ \A h \in Gens : h # g => job'[h] = job[h]
      /\ job'[g].old = job[g].old /\ UNCHANGED <<up, boot>>
  BY OneJobMoves
<1>2. /\ boot.pc = "idle" /\ active # 0 /\ exists \subseteq {job[g].old, g}
      /\ job[g].pc \in Flipping => active = g
      /\ \A h \in Gens : h # g => ~Open(h)
  BY <1>1 DEF FlipOK, JobOK, TablesOK
<1>3. active' # 0
  BY <1>2, JobPath, Numbers DEF meta
<1>4. CASE job'[g].pc = "done"
  <2>1. job[g].pc = "drop" /\ active' = active /\ active = g
    BY <1>2, <1>4, JobPath DEF meta, Flipping
  <2>2. exists' = IF job[g].old \notin {0, g} THEN exists \ {job[g].old} ELSE exists
    BY <1>4, JobPath
  <2>3. exists' \subseteq {active'}
    BY <1>2, <2>1, <2>2, Types, Numbers
  <2>4. \A h \in Gens : ~Open(h)'
    BY <1>1, <1>2, <1>4 DEF Open
  <2> QED
    BY <1>1, <1>2, <1>3, <2>3, <2>4 DEF TablesOK
<1>5. CASE job'[g].pc # "done"
  <2>1. Open(g)'
    BY <1>1, <1>5, JobPath DEF Open, NoneGivenUp, Resting
  <2>2. exists' \subseteq {job[g].old, g}
    BY <1>2, <1>5, JobPath
  <2> QED
    BY <1>1, <1>2, <1>3, <2>1, <2>2 DEF TablesOK
<1> QED
  BY <1>4, <1>5

LEMMA TablesStep ==
  ASSUME TypeInv, FlipOK, TablesOK, NoneGivenUp', [Next]_vars, [Alone]_vars, [BootRuns]_vars
  PROVE  TablesOK'
<1>1. CASE UNCHANGED <<up, boot, active, job, exists>>
  BY <1>1 DEF TablesOK, Open
<1>2. ASSUME NEW m \in Models, StartProcess(m) PROVE TablesOK'
  <2>1. /\ boot'.pc = "table" /\ UNCHANGED <<active, exists, job>> /\ ~up /\ up'
    BY <1>2 DEF StartProcess, meta, tables
  <2>2. \A g \in Gens : ~Open(g)
    BY <2>1 DEF Alone, vars, process
  <2>3. exists \subseteq {active}
    BY <2>1, <2>2 DEF TablesOK, FlipOK, BootOK
  <2> QED
    BY <2>1, <2>3 DEF TablesOK
<1>3. ASSUME NEW r \in Rows, RowMoves(r) PROVE TablesOK'
  BY <1>1, <1>3, RowFrame DEF process, meta
<1>4. CASE Crash
  <2>1. /\ UNCHANGED <<active, exists>> /\ up /\ up' = FALSE /\ boot'.pc = "idle"
        /\ \A g \in Gens : /\ job'[g].old = job[g].old
                           /\ IF job[g].pc \in Resting THEN job'[g] = job[g] ELSE job'[g].pc = "queued"
    BY <1>4, CrashFrame DEF meta, tables, NoBoot, Crash
  <2>2. \A g \in Gens : Open(g)' <=> Open(g)
    BY <2>1 DEF Open, Resting
  <2>3. boot.pc = "idle"
    BY <2>1 DEF BootRuns, vars, process, TablesOK
  <2> QED
    BY <2>1, <2>2, <2>3 DEF TablesOK
<1>5. ASSUME NEW g \in Gens, ReembedStep(g) PROVE TablesOK'
  BY <1>5, TablesJob
<1>6. CASE BootStep
  <2>1. boot' # boot
    BY <1>6, BootFrame DEF BootPath, Chosen
  <2> QED
    BY <1>6, <2>1, TablesBoot DEF vars
<1>7. CASE UNCHANGED vars
  BY <1>1, <1>7 DEF vars, process, meta, tables
<1> QED
  BY <1>2, <1>3, <1>4, <1>5, <1>6, <1>7, Moves

\* While no process starts with a re-embed job under way, no boot is cut short
\* and no re-embed job is given up, a store in which nothing is left to do has
\* the one table that is read: dropTable is not skipped on any path of errors,
\* retries and crashes, in any number of migrations.
THEOREM OneTableLeft ==
  Spec /\ StartsAlone /\ BootsComplete /\ []NoneGivenUp => []OneTableWhenSettled
<1>1. Init => TablesOK
  BY DEF Init, TablesOK, NoBoot, NoJob, Open
<1>2. /\ TypeInv /\ FlipOK /\ TablesOK /\ NoneGivenUp'
      /\ [Next]_vars /\ [Alone]_vars /\ [BootRuns]_vars
      => TablesOK'
  BY TablesStep
<1>3. FlipOK /\ TablesOK => OneTableWhenSettled
  <2> SUFFICES ASSUME FlipOK, TablesOK, Settled PROVE exists = {active}
    BY DEF OneTableWhenSettled
  <2>1. active \in exists
    BY DEF Settled, TablesOK, FlipOK, MetaOK
  <2>2. \A g \in Gens : ~Open(g)
    BY DEF Settled, Open
  <2> QED
    BY <2>1, <2>2 DEF Settled, TablesOK
<1> QED
  BY <1>1, <1>2, <1>3, TypeAlways, FlipAlways, PTL DEF Spec, StartsAlone, BootsComplete

-----------------------------------------------------------------------------
(***************************************************************************)
(* The models of the vectors, when no boot is cut short: each pass owes    *)
(* the new model's vector to the rows that have another model's.           *)
(***************************************************************************)
Stale(g) == {r \in Rows : vec[g][r] \notin {None, model}}

\* Only rows that are stored have vectors, or work that may give them one.
StoredOK ==
  /\ \A g \in Gens, r \in Rows : vec[g][r] # None => r \in stored
  /\ \A r \in Queries : writer[r].pc # "none" => r \in stored
  /\ \A r \in Facts :
       /\ writer[r].into \in stored \cup {r}
       /\ writer[r].pc = "inserted" => writer[r].into \in stored
  /\ \A g \in Gens : job[g].todo \subseteq stored

\* Before the first flip nothing can have been written.
FirstOK ==
  active = 0 => /\ \A g \in Gens, r \in Rows : vec[g][r] = None
                /\ \A r \in Rows : writer[r].table = 0

\* What the job owes in stale rows.
Pays(g) ==
  Open(g) =>
    /\ job[g].model = model
    /\ job[g].pc = "factRows" => Stale(g) \cap Facts \subseteq job[g].todo
    /\ job[g].pc \in {"queries", "queryRows"} => Stale(g) \cap Facts = {}
    /\ job[g].pc = "queryRows" => Stale(g) \cap Queries \subseteq job[g].todo
    /\ job[g].pc \in {"setActive", "setModel", "clearMarker", "drop"} => Stale(g) = {}
    /\ job[g].pc \in {"clearMarker", "drop"} => metaModel = model

\* What is read without a marker.
ServedOK ==
  /\ boot.pc # "failed"
  /\ boot.pc \in {"idle", "ensure"} /\ active # 0 /\ marker = 0
       => metaModel = model /\ Stale(active) = {}
  /\ boot.pc \in {"table", "model"} /\ active # 0 /\ marker = 0 /\ metaModel = model
       => Stale(active) = {}
  /\ boot.pc \in {"ensure", "clearMarker"} => metaModel = model
  /\ boot.pc \in {"setModel", "clearMarker"} => Stale(active) = {}

MatchOK == StoredOK /\ FirstOK /\ (\A g \in Gens : Pays(g)) /\ ServedOK

LEMMA StoredRow ==
  ASSUME TypeInv, StoredOK, NEW r \in Rows, RowMoves(r)
  PROVE  StoredOK'
<1>1. /\ DOMAIN writer = Rows /\ stored \subseteq stored' /\ Rows = Facts \cup Queries
      /\ Facts \cap Queries = {} /\ writer[r] \in Writer
  BY RowFrame, Types, VectorStoreAssumption DEF Rows
<1>2. PICK w \in Writer : writer' = [writer EXCEPT ![r] = w]
  BY RowFrame
<1>3. /\ r \in Queries /\ w.pc # "none" => r \in stored'
      /\ r \in Facts => w.into \in stored' \cup {r} /\ (w.pc = "inserted" => w.into \in stored')
  <2>1. CASE r \in Queries
    <3>1. writer[r].pc # "none" => r \in stored'
      BY <1>1, <2>1 DEF StoredOK
    <3>2. CASE InsertQuery(r)
      BY <1>1, <2>1, <3>2 DEF InsertQuery
    <3>3. writer[r].pc = "none" => InsertQuery(r)
      BY <1>1, <2>1 DEF RowMoves, RowStep, EnqueueEmbed, EmbedStart, EmbedWrite, EmbedError,
         FactTable, FactReady, FactInsert, FactVector, FactError, FactRefresh
    <3> QED
      BY <1>1, <2>1, <3>1, <3>2, <3>3
  <2>2. CASE r \in Facts
    <3> DEFINE IntoOK == /\ writer'[r].into \in stored' \cup {r}
                         /\ writer'[r].pc = "inserted" => writer'[r].into \in stored'
    <3>1. ASSUME FactInsert(r) PROVE IntoOK
      <4>1. writer'[r].into = writer[r].into /\ r \in stored'
        BY <1>1, <2>2, <3>1 DEF FactInsert, Writes, Writer
      <4> QED
        BY <1>1, <2>2, <4>1 DEF StoredOK
    <3>2. ASSUME \E s \in Facts : FactRefresh(r, s) PROVE IntoOK
      BY <1>1, <3>2 DEF FactRefresh, Writer
    <3>3. ASSUME FactTable(r) PROVE IntoOK
      BY <1>1, <3>3 DEF FactTable, NoWriter
    <3>4. ASSUME FactReady(r) PROVE IntoOK
      BY <1>1, <2>2, <3>4 DEF FactReady, Writer, StoredOK
    <3>5. ASSUME FactVector(r) PROVE IntoOK
      BY <1>1, <2>2, <3>5 DEF FactVector, Writes, Writer, StoredOK
    <3>6. ASSUME FactError(r) PROVE IntoOK
      <4>1. \/ writer'[r] = NoWriter(r)
            \/ writer'[r].pc = "unqueued" /\ writer'[r].into = writer[r].into
        BY <1>1, <3>6 DEF FactError, Writes, Writer
      <4> QED
        BY <1>1, <2>2, <4>1 DEF NoWriter, StoredOK
    <3>7. IntoOK
      BY <1>1, <2>2, <3>1, <3>2, <3>3, <3>4, <3>5, <3>6
         DEF RowMoves, RowStep, InsertQuery, EnqueueEmbed, EmbedStart, EmbedWrite, EmbedError
    <3> QED
      BY <1>1, <1>2, <2>2, <3>7
  <2> QED
    BY <1>1, <2>1, <2>2
<1>4. \A q \in Rows : q # r => writer'[q] = writer[q]
  BY <1>1, <1>2
<1>5. \A g \in Gens, q \in Rows : vec'[g][q] # None => q \in stored'
  <2>1. CASE vec' = vec
    BY <1>1, <2>1 DEF StoredOK
  <2>2. CASE vec' # vec
    <3>1. PICK s \in stored : vec' = [vec EXCEPT ![writer[r].table][s] = model]
      <4>1. CASE EmbedWrite(r)
        BY <1>1, <2>2, <4>1 DEF EmbedWrite, UpsertVector, StoredOK
      <4>2. CASE FactVector(r)
        <5>1. writer[r].into \in stored
          BY <4>2 DEF FactVector, StoredOK
        <5> QED
          BY <2>2, <4>2, <5>1 DEF FactVector, UpsertVector
      <4> QED
        BY <2>2, <4>1, <4>2 DEF RowMoves, RowStep, InsertQuery, EnqueueEmbed, EmbedStart, EmbedError,
           FactTable, FactReady, FactInsert, FactError, FactRefresh, tables
    <3>2. writer[r].table \in exists /\ up /\ s \in Rows
      <4>1. writer[r].table \in exists /\ up
        BY <2>2, RowFrame
      <4> QED
        BY <3>1, <4>1, Types
    <3> QED
      BY <1>1, <3>1, <3>2, AddVector DEF StoredOK
  <2> QED
    BY <2>1, <2>2
<1>6. \A g \in Gens : job'[g].todo \subseteq stored'
  BY <1>1, RowFrame DEF StoredOK
<1> QED
  BY <1>1, <1>2, <1>3, <1>4, <1>5, <1>6 DEF StoredOK

LEMMA StoredStep ==
  ASSUME TypeInv, StoredOK, [Next]_vars
  PROVE  StoredOK'
<1>1. CASE UNCHANGED <<vec, stored, writer, job>>
  BY <1>1 DEF StoredOK
<1>2. ASSUME NEW m \in Models, StartProcess(m) PROVE StoredOK'
  BY <1>1, <1>2 DEF StartProcess, tables
<1>3. ASSUME NEW r \in Rows, RowMoves(r) PROVE StoredOK'
  BY <1>3, StoredRow
<1>4. CASE BootStep
  <2>1. UNCHANGED <<vec, stored, writer>>
    BY <1>4, BootFrame
  <2>2. CASE job' = [job EXCEPT ![boot.new] = [NoJob EXCEPT !.pc = "queued", !.old = boot.cur,
                                                            !.model = model]]
    <3>1. \A g \in Gens : job'[g] = job[g] \/ job'[g].todo = {}
      BY <2>2, Types DEF NoJob
    <3> QED
      BY <2>1, <3>1 DEF StoredOK
  <2> QED
    BY <1>1, <1>4, <2>1, <2>2, BootFrame DEF BootPath
<1>5. CASE Crash
  <2>1. UNCHANGED <<vec, stored>>
    BY <1>5, CrashFrame DEF tables
  <2>2. \A r \in Rows :
          \/ writer'[r] = writer[r]
          \/ /\ writer'[r].into = r /\ writer'[r].pc # "inserted"
             /\ writer'[r].pc # "none" => writer[r].pc # "none"
    <3> SUFFICES ASSUME NEW r \in Rows
                 PROVE  \/ writer'[r] = writer[r]
                        \/ /\ writer'[r].into = r /\ writer'[r].pc # "inserted"
                           /\ writer'[r].pc # "none" => writer[r].pc # "none"
      OBVIOUS
    <3>1. writer'[r] = WriterAfterCrash(r)
      BY <1>5 DEF Crash
    <3> QED
      BY <3>1 DEF WriterAfterCrash, NoWriter
  <2>3. \A g \in Gens : job'[g].todo \in {{}, job[g].todo}
    <3> SUFFICES ASSUME NEW g \in Gens PROVE job'[g].todo \in {{}, job[g].todo}
      OBVIOUS
    <3>1. job[g] \in Job
      BY Types
    <3> QED
      BY <1>5, <3>1 DEF Crash, Job
  <2> QED
    BY <2>1, <2>2, <2>3, VectorStoreAssumption DEF StoredOK, Rows
<1>6. ASSUME NEW g \in Gens, ReembedStep(g) PROVE StoredOK'
  <2>1. UNCHANGED <<stored, writer>> /\ up
    BY <1>6, OneJobMoves
  <2>2. \A h \in Gens, q \in Rows : vec'[h][q] # None => q \in stored
    <3>1. CASE \E r \in Rows : ReembedRow(g, r)
      <4>1. PICK r \in job[g].todo \cap Rows : g \in exists /\ vec' = [vec EXCEPT ![g][r] = model]
        BY <3>1 DEF ReembedRow, UpsertVector
      <4>2. r \in stored
        BY Types DEF StoredOK
      <4> QED
        BY <2>1, <4>1, <4>2, AddVector DEF StoredOK
    <3>2. CASE UNCHANGED vec
      BY <3>2 DEF StoredOK
    <3>3. ASSUME NEW d, DropTable(d) PROVE \A h \in Gens, q \in Rows : vec'[h][q] # None => q \in stored
      BY <3>3, Types DEF StoredOK, DropTable
    <3>4. \/ \E r \in Rows : ReembedRow(g, r)
          \/ UNCHANGED vec
          \/ DropTable(job[g].old)
      BY <1>6 DEF ReembedStep, ReembedStart, ReembedSelect, ReembedOwnerDone, ReembedSetMeta,
         ReembedDrop, ReembedError, EnsureVectorTable, tables
    <3> QED
      BY <3>1, <3>2, <3>3, <3>4
  <2>3. job[g] \in Job /\ DOMAIN job = Gens
    BY Types
  <2>4. job'[g].todo \subseteq job[g].todo \cup stored
    <3>1. CASE \E r \in Rows : ReembedRow(g, r)
      BY <2>3, <3>1 DEF ReembedRow, Job
    <3>2. CASE ReembedSelect(g)
      BY <2>3, <3>2 DEF ReembedSelect, Job
    <3>3. CASE ReembedError(g)
      BY <2>3, <3>3 DEF ReembedError, Job
    <3>4. ASSUME NEW pc, ReembedGoes(g, pc) PROVE job'[g].todo \subseteq job[g].todo \cup stored
      BY <2>3, <3>4 DEF ReembedGoes, Job
    <3> QED
      BY <1>6, <3>1, <3>2, <3>3, <3>4 DEF ReembedStep, ReembedStart, ReembedOwnerDone,
         ReembedSetMeta, ReembedDrop
  <2>5. \A h \in Gens : h # g => job'[h] = job[h]
    BY <1>6, OneJobMoves
  <2> QED
    BY <2>1, <2>2, <2>4, <2>5 DEF StoredOK
<1>7. CASE UNCHANGED vars
  BY <1>1, <1>7 DEF vars, tables
<1> QED
  BY <1>2, <1>3, <1>4, <1>5, <1>6, <1>7, Moves

\* While the process lives no step makes a row stale.
LEMMA StaleShrinks ==
  ASSUME TypeInv, [Next]_vars, model' = model, NEW h \in Gens
  PROVE  Stale(h)' \subseteq Stale(h)
<1>1. CASE UNCHANGED vec
  BY <1>1 DEF Stale
<1>2. ASSUME NEW g \in exists, NEW r \in Rows, up, vec' = [vec EXCEPT ![g][r] = model]
      PROVE  Stale(h)' \subseteq Stale(h)
  BY <1>2, AddVector DEF Stale
<1>3. ASSUME NEW r \in Rows, RowMoves(r) PROVE Stale(h)' \subseteq Stale(h)
  BY <1>1, <1>2, <1>3, RowFrame
<1>4. ASSUME NEW g \in Gens, ReembedStep(g) PROVE Stale(h)' \subseteq Stale(h)
  <2>1. ASSUME NEW d, DropTable(d) PROVE Stale(h)' \subseteq Stale(h)
    BY <2>1, Types DEF DropTable, Stale
  <2> QED
    BY <1>1, <1>2, <1>4, <2>1, JobFrame DEF tables
<1>5. CASE BootStep
  BY <1>1, <1>5, BootFrame
<1>6. CASE Crash
  BY <1>1, <1>6, CrashFrame DEF tables
<1>7. ASSUME NEW m \in Models, StartProcess(m) PROVE Stale(h)' \subseteq Stale(h)
  BY <1>1, <1>7 DEF StartProcess, tables
<1> QED
  BY <1>1, <1>3, <1>4, <1>5, <1>6, <1>7, Moves DEF vars, tables

LEMMA PaysByJob ==
  ASSUME TypeInv, StoredOK', FlipOK, [Next]_vars, NEW g \in Gens, ReembedStep(g), Pays(g)
  PROVE  Pays(g)'
<1>1. /\ Stale(g)' \subseteq Stale(g) /\ Stale(g) \subseteq Facts \cup Queries
      /\ Stale(g)' \subseteq stored
      /\ Open(g) /\ job'[g].model = model' /\ model' = model
  <2>1. UNCHANGED <<stored, model>> /\ Open(g) /\ job'[g].model = job[g].model
    BY OneJobMoves
  <2>2. Stale(g)' \subseteq Stale(g)
    BY <2>1, StaleShrinks
  <2>3. Stale(g)' \subseteq stored
    BY <2>1 DEF StoredOK, Stale
  <2> QED
    BY <2>1, <2>2, <2>3 DEF Pays, Stale, Rows
<1>2. \A r \in Rows : vec'[g][r] = model => r \notin Stale(g)'
  BY <1>1 DEF Stale
<1>3. CASE job'[g].pc \in {"factRows", "queries", "queryRows"}
  <2>1. job'[g].pc = "factRows" => Stale(g)' \cap Facts \subseteq job'[g].todo
    BY <1>1, <1>2, PassPath DEF Pays
  <2>2. job'[g].pc \in {"queries", "queryRows"} => Stale(g)' \cap Facts = {}
    BY <1>1, <1>2, PassPath DEF Pays
  <2>3. job'[g].pc = "queryRows" => Stale(g)' \cap Queries \subseteq job'[g].todo
    BY <1>1, <1>2, PassPath DEF Pays
  <2> QED
    BY <1>1, <1>3, <2>1, <2>2, <2>3 DEF Pays
<1>4. CASE job'[g].pc = "setActive"
  <2>1. Stale(g)' = {}
    BY <1>1, <1>4, PassPath DEF Pays
  <2> QED
    BY <1>1, <1>4, <2>1 DEF Pays
<1>5. CASE job'[g].pc \in {"setModel", "clearMarker", "drop"}
  <2>1. Stale(g) = {} /\ (job'[g].pc \in {"clearMarker", "drop"} => metaModel' = model)
    BY <1>1, <1>5, JobPath DEF Pays
  <2> QED
    BY <1>1, <1>5, <2>1 DEF Pays
<1>6. CASE job'[g].pc \in {"facts", "queued", "failed", "done"}
  BY <1>1, <1>6 DEF Pays
<1> QED
  BY <1>3, <1>4, <1>5, <1>6, JobPath

LEMMA MatchJob ==
  ASSUME TypeInv, FlipOK, MatchOK, [Next]_vars, NEW g \in Gens, ReembedStep(g)
  PROVE  MatchOK'
<1>1. /\ Open(g) /\ \A h \in Gens : h # g => job'[h] = job[h]
      /\ UNCHANGED <<up, model, boot, writer>> /\ Pays(g)
      /\ boot.pc = "idle" /\ active # 0 /\ active \in Gens
      /\ active # g => marker # 0
      /\ job[g].pc \in Flipping => active = g
      /\ \A h \in Gens : h # g => ~Open(h)
  BY OneJobMoves, Types, Numbers DEF FlipOK, JobOK, MetaOK, MatchOK
<1>2. StoredOK'
  BY StoredStep DEF MatchOK
<1>3. Pays(g)' /\ \A h \in Gens : h # g => Pays(h)'
  BY <1>1, <1>2, PaysByJob DEF Pays, Open
<1>4. FirstOK'
  BY <1>1, JobPath, Numbers DEF FirstOK, meta
<1>5. \A h \in Gens : Stale(h)' \subseteq Stale(h)
  BY <1>1, StaleShrinks
<1>6. ServedOK'
  <2> SUFFICES ASSUME marker' = 0 PROVE metaModel' = model /\ Stale(active)' = {}
    BY <1>1 DEF ServedOK, MatchOK
  <2>1. CASE active' = active /\ marker = 0
    <3>1. metaModel = model /\ Stale(active) = {}
      BY <1>1, <2>1 DEF MatchOK, ServedOK
    <3>2. metaModel' \in {metaModel, job[g].model} /\ job[g].model = model
      BY <1>1, JobPath DEF meta, Pays
    <3> QED
      BY <1>1, <1>5, <2>1, <3>1, <3>2 DEF Stale
  <2>2. CASE job[g].pc = "clearMarker" /\ UNCHANGED <<active, metaModel>>
    <3>1. active = g /\ metaModel = model /\ Stale(g) = {}
      BY <1>1, <2>2 DEF Pays, Flipping
    <3> QED
      BY <1>5, <2>2, <3>1 DEF Stale
  <2>3. CASE active' = g /\ marker' = marker
    <3>1. active' = active
      BY <1>1, <2>3
    <3> QED
      BY <2>1, <2>3, <3>1
  <2> QED
    BY <2>1, <2>2, <2>3, JobPath DEF meta
<1> QED
  BY <1>2, <1>3, <1>4, <1>6 DEF MatchOK

LEMMA MatchBoot ==
  ASSUME TypeInv, FlipOK, MatchOK, BootStep, [Next]_vars, BootRuns
  PROVE  MatchOK'
<1>1. /\ UNCHANGED <<up, model, vec, writer>> /\ up /\ BootPath /\ boot \in Boot /\ boot' \in Boot
      /\ DOMAIN job = Gens /\ (boot.pc \in Chosen => boot.new \in Gens) /\ 0 \notin Gens
  BY BootFrame, Types, Numbers DEF process, TypeInv, GenInv
<1>2. boot.pc \notin {"idle", "failed"} /\ boot'.pc # "failed"
  BY <1>1 DEF BootPath, Chosen, BootRuns
<1>3. StoredOK'
  BY StoredStep DEF MatchOK
<1>4. \A h : Stale(h)' = Stale(h)
  BY <1>1 DEF Stale
<1>5. \A g \in Gens : ~Open(g)
  BY <1>2 DEF FlipOK, JobOK
<1>6. \A g \in Gens : Pays(g)'
  <2>1. CASE UNCHANGED job
    BY <1>5, <2>1 DEF Pays, Open
  <2>2. CASE job' = [job EXCEPT ![boot.new] = [NoJob EXCEPT !.pc = "queued", !.old = boot.cur,
                                                            !.model = model]]
    <3>1. \A g \in Gens : \/ job'[g] = job[g]
                          \/ job'[g].pc = "queued" /\ job'[g].model = model
      BY <1>1, <2>2 DEF NoJob
    <3> QED
      BY <1>1, <1>5, <3>1 DEF Pays, Open
  <2> QED
    BY <1>1, <2>1, <2>2 DEF BootPath
<1>7. FirstOK'
  BY <1>1 DEF BootPath, MatchOK, FirstOK, meta, Chosen
<1>8. ServedOK'
  <2>1. CASE boot.pc \in {"table", "model", "create", "ensure", "gen", "setMarker", "enqueue"}
    <3>1. UNCHANGED <<active, metaModel>>
      BY <1>1, <2>1 DEF BootPath, meta, Chosen
    <3>2. Stale(active)' = Stale(active)
      BY <1>1, <3>1 DEF Stale
    <3> QED
      BY <1>1, <1>2, <2>1, <3>1, <3>2
         DEF BootPath, MatchOK, ServedOK, FlipOK, BootOK, meta, Chosen
  <2>2. CASE boot.pc = "setActive"
    <3>1. boot'.pc = "setModel"
      BY <1>1, <1>2, <2>2 DEF BootPath, Chosen
    <3>2. active' = boot.new /\ active = 0 /\ boot.new \in Gens
      BY <1>1, <1>2, <2>2 DEF BootPath, FlipOK, BootOK, Chosen
    <3>3. Stale(active)' = {}
      BY <1>1, <3>2 DEF MatchOK, FirstOK, Stale
    <3> QED
      BY <3>1, <3>3 DEF ServedOK
  <2>3. CASE boot.pc \in {"setModel", "clearMarker"}
    <3>1. /\ boot'.pc \in {"clearMarker", "idle"} /\ active' = active /\ Stale(active) = {}
          /\ metaModel' = model
      BY <1>1, <1>2, <2>3 DEF BootPath, MatchOK, ServedOK, Chosen
    <3>2. Stale(active)' = {}
      BY <1>1, <3>1 DEF Stale
    <3> QED
      BY <1>1, <3>1, <3>2 DEF ServedOK
  <2> QED
    BY <1>1, <1>2, <2>1, <2>2, <2>3 DEF Boot
<1> QED
  BY <1>3, <1>6, <1>7, <1>8 DEF MatchOK

LEMMA MatchStep ==
  ASSUME TypeInv, FlipOK, MatchOK, [Next]_vars, [Alone]_vars, [BootRuns]_vars
  PROVE  MatchOK'
<1>1. StoredOK'
  BY StoredStep DEF MatchOK
<1>2. ASSUME NEW m \in Models, StartProcess(m) PROVE MatchOK'
  <2>1. /\ boot'.pc = "table" /\ UNCHANGED <<active, metaModel, marker, job, vec, writer>>
        /\ ~up /\ up' /\ model' = m
    BY <1>2 DEF StartProcess, meta, tables
  <2>2. \A g \in Gens : ~Open(g)
    BY <2>1 DEF Alone, vars, process
  <2>3. \A g \in Gens : Pays(g)'
    BY <2>1, <2>2 DEF Pays, Open
  <2>4. FirstOK'
    BY <2>1 DEF MatchOK, FirstOK
  <2>5. active # 0 /\ marker = 0 => metaModel = model /\ Stale(active) = {}
    BY <2>1 DEF MatchOK, ServedOK, FlipOK, BootOK
  <2>6. ServedOK'
    BY <2>1, <2>5 DEF ServedOK, Stale
  <2> QED
    BY <1>1, <2>3, <2>4, <2>6 DEF MatchOK
<1>3. ASSUME NEW r \in Rows, RowMoves(r) PROVE MatchOK'
  <2>1. /\ UNCHANGED <<up, model, boot, active, metaModel, marker, job, exists>>
        /\ active \in 0 .. MaxBoots /\ exists \subseteq Gens
    BY <1>3, RowFrame, Types DEF process, meta
  <2>2. \A h \in Gens : Stale(h)' \subseteq Stale(h)
    BY <2>1, StaleShrinks
  <2>3. \A g \in Gens : Pays(g)'
    BY <2>1, <2>2 DEF MatchOK, Pays, Open
  <2>4. FirstOK'
    <3> SUFFICES ASSUME active = 0 PROVE FirstOK'
      BY <2>1 DEF FirstOK
    <3>1. \A s \in Rows : writer[s].table = 0
      BY DEF MatchOK, FirstOK
    <3>2. vec' = vec
      <4>1. writer[r].table \notin exists
        BY <2>1, <3>1, Numbers
      <4> QED
        BY <1>3, <4>1, RowFrame
    <3>3. \A s \in Rows : writer'[s].table = 0
      <4>1. PICK w \in Writer : /\ writer' = [writer EXCEPT ![r] = w]
                                /\ w.table \in {0, active, writer[r].table}
        BY <1>3, RowFrame
      <4> QED
        BY <3>1, <4>1, Types
    <3> QED
      BY <3>2, <3>3 DEF MatchOK, FirstOK
  <2>5. active # 0 => Stale(active)' \subseteq Stale(active)
    <3>1. active # 0 => active \in Gens
      BY <2>1, Numbers DEF Gens
    <3> QED
      BY <2>1, <2>2, <3>1 DEF Stale
  <2>6. ServedOK'
    <3>1. boot.pc \in {"setModel", "clearMarker"} => active # 0
      BY <2>1, Numbers DEF FlipOK, BootOK, TypeInv, GenInv, Chosen
    <3> QED
      BY <2>1, <2>5, <3>1 DEF MatchOK, ServedOK
  <2> QED
    BY <1>1, <2>3, <2>4, <2>6 DEF MatchOK
<1>4. CASE Crash
  <2>1. /\ UNCHANGED <<model, active, metaModel, marker, vec>> /\ up /\ up' = FALSE
        /\ boot'.pc = "idle"
        /\ \A g \in Gens : /\ job'[g].model = job[g].model
                           /\ IF job[g].pc \in Resting THEN job'[g] = job[g] ELSE job'[g].pc = "queued"
        /\ \A r \in Rows : writer'[r].table \in {0, writer[r].table}
    BY <1>4, CrashFrame DEF meta, tables, NoBoot, Crash
  <2>2. boot.pc = "idle"
    BY <2>1 DEF BootRuns, vars, process, MatchOK, ServedOK
  <2>3. \A g \in Gens : Pays(g)'
    BY <2>1 DEF MatchOK, Pays, Open, Resting
  <2>4. FirstOK' /\ ServedOK'
    BY <2>1, <2>2 DEF MatchOK, FirstOK, ServedOK, Stale
  <2> QED
    BY <1>1, <2>3, <2>4 DEF MatchOK
<1>5. ASSUME NEW g \in Gens, ReembedStep(g) PROVE MatchOK'
  BY <1>5, MatchJob
<1>6. CASE BootStep
  <2>1. boot' # boot
    BY <1>6, BootFrame DEF BootPath, Chosen
  <2> QED
    BY <1>6, <2>1, MatchBoot DEF vars
<1>7. CASE UNCHANGED vars
  BY <1>1, <1>7 DEF vars, process, meta, tables, MatchOK, FirstOK, ServedOK, Pays, Open, Stale
<1> QED
  BY <1>2, <1>3, <1>4, <1>5, <1>6, <1>7, Moves

\* While no process starts with a re-embed job under way and no boot is cut
\* short, a ready read compares its query with vectors of the configured model
\* only, in any number of migrations, though the work of the rows keeps writing
\* the new model's vectors into the old table until the flip.
THEOREM ModelsNeverMixed == Spec /\ StartsAlone /\ BootsComplete => []VectorsMatchModel
<1>1. Init => MatchOK
  <2> SUFFICES ASSUME Init PROVE MatchOK
    OBVIOUS
  <2>1. \A r \in Rows : writer[r].pc = "none" /\ writer[r].table = 0 /\ writer[r].into = r
    BY DEF Init, NoWriter
  <2>2. \A g \in Gens : job[g] = NoJob /\ \A r \in Rows : vec[g][r] = None
    BY DEF Init
  <2>3. StoredOK
    BY <2>1, <2>2 DEF StoredOK, NoJob, Rows
  <2>4. FirstOK
    BY <2>1, <2>2 DEF FirstOK
  <2> QED
    BY <2>2, <2>3, <2>4 DEF Init, MatchOK, Pays, ServedOK, NoBoot, NoJob, Open
<1>2. /\ TypeInv /\ FlipOK /\ MatchOK /\ [Next]_vars /\ [Alone]_vars /\ [BootRuns]_vars
      => MatchOK'
  BY MatchStep
<1>3. MatchOK => VectorsMatchModel
  BY DEF MatchOK, ServedOK, VectorsMatchModel, Ready, Stale
<1> QED
  BY <1>1, <1>2, <1>3, TypeAlways, FlipAlways, PTL DEF Spec, StartsAlone, BootsComplete
==============================================================================
