--------------------------- MODULE KnowledgeProofs ---------------------------
(***************************************************************************)
(* What holds of Knowledge for any sets of queries, facts, ids and         *)
(* clients, any windows and any promotion threshold, with or without       *)
(* errors and slow clients.                                                *)
(*                                                                         *)
(* A copy that a client holds may be stale in every field.  What can be    *)
(* said of it is that its hits were recorded and its tier asked for or     *)
(* earned (CopiesOK), for as long as its row is there; and a row that is   *)
(* gone stays gone while anybody mentions its id (RowStep).                *)
(***************************************************************************)
EXTENDS Knowledge, TLAPS

Rowset == [of : Subjects \cup {"none"}, tier : TierNames,
           hits : 0 .. PromoteAfterHits, left : Lefts]
Grants == [asked : SUBSET TierNames, hits : 0 .. PromoteAfterHits, lost : BOOLEAN]
Ats == {"idle", "touch", "semantic", "insert", "enqueue", "scan", "refresh", "vector",
        "noTable"}
\* Only the search cache hands its vectors to a job.
ClientStates ==
  {s \in [at : Ats, of : Subjects \cup {"none"}, tier : TierNames,
          ids : SUBSET Ids, copies : SUBSET Copies] :
    s.at = "enqueue" => s.ids \subseteq QueryIds}
Passes == [at : {"idle", "search", "memory", "vectors"}, todo : SUBSET Ids, gone : SUBSET Ids]

Earned(g, tier) == tier \in g.asked \/ (tier = "long" /\ g.hits >= PromoteAfterHits)

Window(r) ==
  /\ (r.tier = "permanent") <=> (r.left = Never)
  /\ r.tier # "permanent" => r.left <= tierTTL(r.tier)

RowOK(r, g) == r.hits <= g.hits /\ Earned(g, r.tier) /\ Window(r)

\* What a client's copy has of its row, if that is still there.
CopiesOK ==
  \A c \in Clients : \A k \in client[c].copies : Stored(k.id) =>
    /\ k.hits <= granted[k.id].hits
    /\ Earned(granted[k.id], k.tier) \/ (At(c, "refresh") /\ k.tier = client[c].tier)

GoneRows == \A i \in cleanup.gone : ~Stored(i)

-----------------------------------------------------------------------------
(***************************************************************************)
(* Tiers.                                                                  *)
(***************************************************************************)
LEMMA TierFacts ==
  /\ PromoteAfterHits \in Nat \ {0} /\ ShortTTL \in Nat /\ LongTTL \in Nat
  /\ ShortTTL <= LongTTL
  /\ {"short", "long", "permanent"} \subseteq TierNames
  /\ Never \in Lefts /\ Expired \in Lefts
BY TiersAssumption DEF TierNames, Never, Lefts, Expired

LEMMA NextExpiry ==
  ASSUME NEW tier \in TierNames, NEW hits \in 0 .. PromoteAfterHits
  PROVE  LET e == nextExpiry(tier, hits) IN
         /\ e.tier \in TierNames /\ e.left \in Lefts
         /\ Window(e)
         /\ e.tier = tier \/ (e.tier = "long" /\ hits >= PromoteAfterHits)
<1> DEFINE new == promote(tier, hits)
<1>1. /\ new \in TierNames
      /\ new = tier \/ (new = "long" /\ hits >= PromoteAfterHits)
  BY TierFacts DEF promote
<1>2. tierTTL(new) \in 0 .. LongTTL
  BY TierFacts DEF tierTTL
<1> HIDE DEF new
<1>3. CASE new = "permanent"
  BY <1>1, <1>3, TierFacts DEF nextExpiry, Window, new
<1>4. CASE new # "permanent"
  <2>1. tierTTL(new) \in Lefts /\ tierTTL(new) # Never
    BY <1>2, TierFacts DEF Lefts, Never, Expired
  <2>2. nextExpiry(tier, hits) = [tier |-> new, left |-> tierTTL(new)]
    BY <1>4 DEF nextExpiry, new
  <2> QED
    BY <1>1, <1>2, <1>4, <2>1, <2>2 DEF Window
<1> QED
  BY <1>3, <1>4

LEMMA HitsGrow ==
  ASSUME NEW n \in 0 .. PromoteAfterHits
  PROVE  /\ IncHits(n) \in 0 .. PromoteAfterHits /\ n <= IncHits(n)
         /\ \A k \in 0 .. PromoteAfterHits : k <= n => IncHits(k) <= IncHits(n)
BY TierFacts DEF IncHits

LEMMA WindowsAge ==
  ASSUME NEW r \in Rowset, Window(r)
  PROVE  LET s == [r EXCEPT !.left = Older(@)] IN s \in Rowset /\ Window(s)
<1>1. r.left \in Lefts /\ r.tier \in TierNames
  BY DEF Rowset
<1>2. Older(r.left) \in Lefts /\ (Older(r.left) = Never <=> r.left = Never)
      /\ (r.left # Never => Older(r.left) <= r.left)
  BY <1>1, TierFacts DEF Older, Lefts, Never, Expired
<1>3. tierTTL(r.tier) \in Nat
  BY TierFacts DEF tierTTL
<1>4. r.left \in Int /\ Older(r.left) \in Int
  BY <1>1, <1>2 DEF Lefts
<1> DEFINE s == [r EXCEPT !.left = Older(@)]
<1>5. s \in Rowset /\ s.tier = r.tier /\ s.left = Older(r.left)
  BY <1>2 DEF Rowset
<1> HIDE DEF s
<1>6. Window(s)
  BY <1>2, <1>3, <1>4, <1>5, TierFacts DEF Window
<1> QED
  BY <1>5, <1>6 DEF s

LEMMA CallersTiers ==
  ASSUME NEW v \in Remember
  PROVE  normalizeTier(v) \in TierNames /\ rememberTier(v) \in TierNames
BY KnowledgeAssumption, TierFacts DEF normalizeTier, rememberTier, RememberValues, TierNames

-----------------------------------------------------------------------------
(***************************************************************************)
(* Types.                                                                  *)
(***************************************************************************)
Types ==
  /\ scope \in Scopes /\ table \in BOOLEAN
  /\ row \in [Ids -> Rowset]
  /\ vectors \subseteq Ids
  /\ toEmbed \subseteq QueryIds
  /\ client \in [Clients -> ClientStates]
  /\ cleanup \in Passes
  /\ granted \in [Ids -> Grants]

LEMMA TypesAre == Types => TypeOK
BY DEF Types, TypeOK, Rowset, Grants, Ats, ClientStates, Passes

LEMMA AtNames ==
  /\ "idle" \in Ats /\ "touch" \in Ats /\ "semantic" \in Ats /\ "insert" \in Ats
  /\ "enqueue" \in Ats /\ "scan" \in Ats /\ "refresh" \in Ats /\ "vector" \in Ats
  /\ "noTable" \in Ats
  /\ "short" \in TierNames /\ "none" \in Subjects \cup {"none"}
BY DEF Ats, TierNames

LEMMA Empty ==
  /\ Idle \in ClientStates /\ NoRow \in Rowset /\ NothingGranted \in Grants /\ NoPass \in Passes
  /\ 0 \in 0 .. PromoteAfterHits
<1>1. 0 \in 0 .. PromoteAfterHits
  BY TierFacts
<1>2. Idle \in ClientStates
  BY AtNames DEF Idle, ClientStates
<1>3. NoRow \in Rowset
  BY <1>1, AtNames, TierFacts DEF NoRow, Rowset
<1>4. NothingGranted \in Grants
  BY <1>1 DEF NothingGranted, Grants
<1> QED
  BY <1>1, <1>2, <1>3, <1>4 DEF NoPass, Passes

LEMMA SubIds == QueryIds \subseteq Ids /\ FactIds \subseteq Ids
BY DEF Ids

LEMMA CopyType ==
  ASSUME Types, NEW i \in Ids
  PROVE  /\ Copy(i) \in Copies /\ Copy(i).id = i
         /\ Copy(i).tier = row[i].tier /\ Copy(i).hits = row[i].hits
<1>1. row[i].tier \in TierNames /\ row[i].hits \in 0 .. PromoteAfterHits
  BY DEF Types, Rowset
<1> QED
  BY <1>1 DEF Copy, Copies

\* A client that moves, and the others.
LEMMA OneClient ==
  ASSUME Types, NEW c \in Clients, NEW s \in ClientStates, Goto(c, s)
  PROVE  /\ client' \in [Clients -> ClientStates] /\ client'[c] = s
         /\ \A d \in Clients \ {c} : client'[d] = client[d]
BY DEF Types, Goto

\* One row that changes with its history, and the others.
LEMMA OneRow ==
  ASSUME Types, NEW i \in Ids, NEW r \in Rowset, NEW g \in Grants,
         row' = [row EXCEPT ![i] = r], granted' = [granted EXCEPT ![i] = g]
  PROVE  /\ row' \in [Ids -> Rowset] /\ granted' \in [Ids -> Grants]
         /\ row'[i] = r /\ granted'[i] = g
         /\ \A j \in Ids \ {i} : row'[j] = row[j] /\ granted'[j] = granted[j]
BY DEF Types

Moves(c) ==
  \/ \E q \in scope \cap Queries : LookupExact(c, q)
  \/ \E f \in scope \cap Facts : FactSearch(c, f)
  \/ RetrieveFacts(c) \/ ClientStep(c)

\* Every step of a client, by what it does to the client.
LEMMA ClientTypes ==
  ASSUME Types, NEW c \in Clients, Moves(c)
  PROVE  \E s \in ClientStates : Goto(c, s)
<1>0. /\ client[c] \in ClientStates
      /\ \A i \in Ids : Copy(i) \in Copies
  BY CopyType DEF Types
<1> USE AtNames, Empty
<1>1. ASSUME NEW q \in scope \cap Queries, LookupExact(c, q) PROVE \E s \in ClientStates : Goto(c, s)
  <2>1. [Idle EXCEPT !.at = "semantic", !.of = q] \in ClientStates
    BY DEF ClientStates, Subjects
  <2>2. ASSUME NEW i \in IdsOf(q)
        PROVE  [Idle EXCEPT !.at = "touch", !.of = q, !.copies = {Copy(i)}] \in ClientStates
    BY <1>0, SubIds DEF ClientStates, Subjects, IdsOf
  <2> QED
    BY <1>1, <2>1, <2>2 DEF LookupExact
<1>2. ASSUME NEW f \in scope \cap Facts, FactSearch(c, f) PROVE \E s \in ClientStates : Goto(c, s)
  <2>1. ASSUME NEW v \in Remember, NEW i \in Ids, NEW pc \in {"scan", "vector", "noTable"}
        PROVE  [[Idle EXCEPT !.of = f, !.tier = rememberTier(v)] EXCEPT !.at = pc, !.ids = {i}]
                 \in ClientStates
    BY CallersTiers DEF ClientStates, Subjects
  <2> QED
    BY <1>2, <2>1, SubIds DEF FactSearch, FreeIds
<1>3. CASE RetrieveFacts(c)
  <2>1. ASSUME NEW found \in SUBSET (vectors \cap FactIds)
        PROVE  [Idle EXCEPT !.at = "touch", !.copies = {Copy(i) : i \in found}] \in ClientStates
    <3>1. {Copy(i) : i \in found} \subseteq Copies
      BY <1>0, SubIds
    <3> QED
      BY <3>1 DEF ClientStates
  <2> QED
    BY <1>3, <2>1 DEF RetrieveFacts
<1>4. CASE LookupSemantic(c)
  <2>1. ASSUME NEW i \in Ids
        PROVE  [client[c] EXCEPT !.at = "touch", !.copies = {Copy(i)}] \in ClientStates
    BY <1>0 DEF ClientStates
  <2> QED
    BY <1>4, <2>1, SubIds DEF LookupSemantic
<1>5. CASE Touch(c) \/ TouchError(c)
  <2>1. ASSUME NEW k \in client[c].copies
        PROVE  [client[c] EXCEPT !.copies = @ \ {k}] \in ClientStates
    BY <1>0 DEF ClientStates
  <2>2. [Idle EXCEPT !.at = "semantic", !.of = client[c].of] \in ClientStates
    BY <1>0 DEF ClientStates
  <2> QED
    BY <1>5, <2>1, <2>2 DEF Touch, TouchError
<1>6. CASE StoreError(c) \/ EnqueueEmbed(c) \/ FactVector(c)
  BY <1>6 DEF StoreError, EnqueueEmbed, FactVector
<1>7. CASE CacheUpdate(c)
  <2>1. ASSUME NEW v \in Remember
        PROVE  [Idle EXCEPT !.at = "insert", !.of = client[c].of, !.tier = normalizeTier(v)]
                 \in ClientStates
    BY <1>0, CallersTiers DEF ClientStates
  <2> QED
    BY <1>7, <2>1 DEF CacheUpdate
<1>8. CASE CacheInsert(c)
  <2>1. ASSUME NEW i \in QueryIds PROVE [Idle EXCEPT !.at = "enqueue", !.ids = {i}] \in ClientStates
    BY SubIds DEF ClientStates
  <2> QED
    BY <1>8, <2>1, SubIds DEF CacheInsert
<1>9. CASE FactScan(c)
  <2>1. ASSUME NEW k \in Copies
        PROVE  [client[c] EXCEPT !.at = "refresh", !.copies = {k}] \in ClientStates
    BY <1>0 DEF ClientStates
  <2>2. ASSUME NEW i \in client[c].ids
        PROVE  i \in Ids /\ [id |-> i, tier |-> client[c].tier, hits |-> 0] \in Copies
    BY <1>0 DEF ClientStates, Copies
  <2> QED
    BY <1>0, <1>9, <2>1, <2>2 DEF FactScan
<1>10. CASE FactRefresh(c)
  <2>1. [client[c] EXCEPT !.at = "vector", !.copies = {}] \in ClientStates
    BY <1>0 DEF ClientStates
  <2> QED
    BY <1>10, <2>1 DEF FactRefresh
<1> QED
  BY <1>1, <1>2, <1>3, <1>4, <1>5, <1>6, <1>7, <1>8, <1>9, <1>10 DEF Moves, ClientStep

-----------------------------------------------------------------------------
(***************************************************************************)
(* What a step may do to a row: it is gone, or new under a free id with a  *)
(* client that is about to see to its vector, or was there and keeps what  *)
(* was granted to it.                                                      *)
(***************************************************************************)
RowsOK == \A i \in Ids : Stored(i) => RowOK(row[i], granted[i])

LEMMA RowsAre == RowsOK <=> TiersEarned
BY DEF RowsOK, TiersEarned, RowOK, Earned, Window

Awaited(i) == \E c \in Clients : i \in client[c].ids /\ client[c].at \in {"enqueue", "vector", "noTable"}

Keeps(g, h) == g.hits <= h.hits /\ g.asked \subseteq h.asked /\ (g.lost => h.lost)

RowStep(i) ==
  \/ ~Stored(i)'
  \/ i \in FreeIds /\ RowOK(row'[i], granted'[i]) /\ Awaited(i)'
  \/ Stored(i) /\ RowOK(row'[i], granted'[i]) /\ Keeps(granted[i], granted'[i])

RowsStep ==
  /\ row' \in [Ids -> Rowset] /\ granted' \in [Ids -> Grants]
  /\ \A i \in Ids : RowStep(i)

LEMMA KeepsSame == \A g \in Grants : Keeps(g, g)
BY DEF Keeps, Grants

LEMMA SameRows ==
  ASSUME Types, RowsOK, UNCHANGED <<row, granted>>
  PROVE  RowsStep
BY KeepsSame DEF Types, RowsOK, RowsStep, RowStep, Stored

\* One row that changes as RowStep allows, and the others.
LEMMA OneRowSteps ==
  ASSUME Types, RowsOK, NEW i \in Ids, NEW r \in Rowset, NEW g \in Grants,
         row' = [row EXCEPT ![i] = r], granted' = [granted EXCEPT ![i] = g],
         \/ r.of = "none"
         \/ i \in FreeIds /\ RowOK(r, g) /\ Awaited(i)'
         \/ Stored(i) /\ RowOK(r, g) /\ Keeps(granted[i], g)
  PROVE  RowsStep
<1>1. /\ row' \in [Ids -> Rowset] /\ granted' \in [Ids -> Grants]
      /\ row'[i] = r /\ granted'[i] = g
      /\ \A j \in Ids \ {i} : row'[j] = row[j] /\ granted'[j] = granted[j]
  BY OneRow
<1>2. RowStep(i)
  BY <1>1 DEF RowStep, Stored
<1>3. ASSUME NEW j \in Ids \ {i} PROVE RowStep(j)
  BY <1>1, KeepsSame DEF RowStep, Stored, RowsOK, Types
<1> QED
  BY <1>1, <1>2, <1>3 DEF RowsStep

\* The write of some vectors is given up.
LEMMA GivenUpSteps ==
  ASSUME Types, RowsOK, NEW ids, GivenUp(ids), row' = row
  PROVE  RowsStep
<1>1. /\ row' \in [Ids -> Rowset] /\ granted' \in [Ids -> Grants]
  BY DEF Types, GivenUp, Grants
<1>2. ASSUME NEW i \in Ids PROVE RowStep(i)
  <2>1. granted[i] \in Grants
    BY DEF Types
  <2>2. /\ granted'[i].hits = granted[i].hits /\ granted'[i].asked = granted[i].asked
        /\ granted[i].lost => granted'[i].lost
    BY <2>1 DEF GivenUp, Grants
  <2>3. Keeps(granted[i], granted'[i])
    BY <2>1, <2>2 DEF Keeps, Grants
  <2>4. RowOK(row[i], granted[i]) => RowOK(row[i], granted'[i])
    BY <2>2 DEF RowOK, Earned
  <2> QED
    BY <2>3, <2>4 DEF RowStep, RowsOK, Stored
<1> QED
  BY <1>1, <1>2 DEF RowsStep

\* A row that is stored anew in the window of a tier that somebody asks for.
LEMMA FreshRow ==
  ASSUME NEW s \in Subjects \cup {"none"}, NEW tier \in TierNames,
         NEW g \in Grants, tier \in g.asked
  PROVE  LET e == nextExpiry(tier, 0)
             r == [of |-> s, tier |-> e.tier, hits |-> 0, left |-> e.left]
         IN r \in Rowset /\ RowOK(r, g)
<1> DEFINE e == nextExpiry(tier, 0)
           r == [of |-> s, tier |-> e.tier, hits |-> 0, left |-> e.left]
<1>1. e.tier = tier /\ e.left \in Lefts /\ Window(e)
  BY NextExpiry, Empty, TierFacts
<1>2. g.hits \in 0 .. PromoteAfterHits
  BY DEF Grants
<1> HIDE DEF e
<1>3. r \in Rowset
  BY <1>1, Empty DEF Rowset
<1>4. Window(r)
  BY <1>1 DEF Window
<1>5. r.hits <= g.hits /\ Earned(g, r.tier)
  BY <1>1, <1>2, TierFacts DEF Earned
<1> QED
  BY <1>3, <1>4, <1>5 DEF RowOK, e

LEMMA TouchRows ==
  ASSUME Types, RowsOK, CopiesOK, NEW c \in Clients, Touch(c)
  PROVE  RowsStep
<1>1. PICK k \in client[c].copies :
        LET hits == IncHits(k.hits)
            e == nextExpiry(k.tier, hits)
        IN IF Stored(k.id)
           THEN /\ row' = [row EXCEPT ![k.id] =
                     [@ EXCEPT !.tier = e.tier, !.hits = hits, !.left = e.left]]
                /\ granted' = [granted EXCEPT ![k.id].hits = IncHits(@)]
           ELSE UNCHANGED <<row, granted>>
  BY DEF Touch
<1> DEFINE i == k.id
           hits == IncHits(k.hits)
           e == nextExpiry(k.tier, hits)
           r == [row[i] EXCEPT !.tier = e.tier, !.hits = hits, !.left = e.left]
           g == [granted[i] EXCEPT !.hits = IncHits(granted[i].hits)]
<1>2. i \in Ids /\ k.tier \in TierNames /\ k.hits \in 0 .. PromoteAfterHits
  BY DEF Types, ClientStates, Copies
<1>3. hits \in 0 .. PromoteAfterHits
  BY <1>2, HitsGrow
<1>4. /\ e.tier \in TierNames /\ e.left \in Lefts /\ Window(e)
      /\ e.tier = k.tier \/ (e.tier = "long" /\ hits >= PromoteAfterHits)
  BY <1>2, <1>3, NextExpiry
<1>5. row[i] \in Rowset /\ granted[i] \in Grants /\ granted[i].hits \in 0 .. PromoteAfterHits
  BY <1>2 DEF Types, Grants
<1>6. CASE Stored(i)
  <2>1. k.hits <= granted[i].hits /\ Earned(granted[i], k.tier)
    BY <1>6 DEF CopiesOK, Touch, At
  <2>2. IncHits(granted[i].hits) \in 0 .. PromoteAfterHits
        /\ granted[i].hits <= IncHits(granted[i].hits) /\ hits <= IncHits(granted[i].hits)
    BY <1>2, <1>5, <2>1, HitsGrow
  <2>3. row' = [row EXCEPT ![i] = r] /\ granted' = [granted EXCEPT ![i] = g]
    BY <1>1, <1>6
  <2>4. g \in Grants /\ g.hits = IncHits(granted[i].hits)
        /\ g.asked = granted[i].asked /\ g.lost = granted[i].lost
    BY <1>5, <2>2 DEF Grants
  <2> HIDE DEF hits, e, g
  <2>5. r \in Rowset /\ r.tier = e.tier /\ r.hits = hits /\ r.left = e.left
    BY <1>3, <1>4, <1>5 DEF Rowset
  <2> HIDE DEF r
  <2>6. Window(r)
    BY <1>4, <2>5 DEF Window
  <2>7. Earned(g, r.tier)
    BY <1>3, <1>4, <1>5, <2>1, <2>2, <2>4, <2>5, TierFacts DEF Earned
  <2>8. RowOK(r, g) /\ Keeps(granted[i], g)
    BY <2>2, <2>4, <2>5, <2>6, <2>7 DEF RowOK, Keeps
  <2> QED
    BY <1>2, <1>6, <2>3, <2>4, <2>5, <2>8, OneRowSteps
<1>7. CASE ~Stored(i)
  BY <1>1, <1>7, SameRows
<1> QED
  BY <1>6, <1>7

LEMMA RefreshRows ==
  ASSUME Types, RowsOK, CopiesOK, NEW c \in Clients, FactRefresh(c)
  PROVE  RowsStep
<1>1. PICK k \in client[c].copies :
        LET e == nextExpiry(k.tier, k.hits)
        IN IF Stored(k.id)
           THEN /\ row' = [row EXCEPT ![k.id].of = client[c].of,
                                      ![k.id].tier = e.tier, ![k.id].left = e.left]
                /\ granted' = [granted EXCEPT ![k.id].asked = @ \cup {client[c].tier}]
           ELSE UNCHANGED <<row, granted>>
  BY DEF FactRefresh
<1> DEFINE i == k.id
           e == nextExpiry(k.tier, k.hits)
           r == [row[i] EXCEPT !.of = client[c].of, !.tier = e.tier, !.left = e.left]
           g == [granted[i] EXCEPT !.asked = granted[i].asked \cup {client[c].tier}]
<1>2. /\ i \in Ids /\ k.tier \in TierNames /\ k.hits \in 0 .. PromoteAfterHits
      /\ client[c].of \in Subjects \cup {"none"} /\ client[c].tier \in TierNames
  BY DEF Types, ClientStates, Copies
<1>3. /\ e.tier \in TierNames /\ e.left \in Lefts /\ Window(e)
      /\ e.tier = k.tier \/ (e.tier = "long" /\ k.hits >= PromoteAfterHits)
  BY <1>2, NextExpiry
<1>4. row[i] \in Rowset /\ granted[i] \in Grants /\ granted[i].hits \in 0 .. PromoteAfterHits
  BY <1>2 DEF Types, Grants
<1>5. CASE Stored(i)
  <2>1. /\ row[i].hits <= granted[i].hits /\ k.hits <= granted[i].hits
        /\ Earned(granted[i], k.tier) \/ k.tier = client[c].tier
    BY <1>2, <1>5 DEF CopiesOK, RowsOK, RowOK
  <2>2. row' = [row EXCEPT ![i] = r] /\ granted' = [granted EXCEPT ![i] = g]
    <3>1. row \in [Ids -> Rowset] /\ granted \in [Ids -> Grants]
      BY DEF Types
    <3>2. row' = [row EXCEPT ![k.id].of = client[c].of,
                             ![k.id].tier = e.tier, ![k.id].left = e.left]
          /\ granted' = [granted EXCEPT ![k.id].asked = @ \cup {client[c].tier}]
      BY <1>1, <1>5
    <3> HIDE DEF e
    <3> QED
      BY <1>2, <1>4, <3>1, <3>2 DEF Rowset, Grants
  <2>3. g \in Grants /\ g.asked = granted[i].asked \cup {client[c].tier}
        /\ g.hits = granted[i].hits /\ g.lost = granted[i].lost
    BY <1>2, <1>4 DEF Grants
  <2> HIDE DEF e, g
  <2>4. r \in Rowset /\ r.tier = e.tier /\ r.hits = row[i].hits /\ r.left = e.left
        /\ r.of = client[c].of
    BY <1>2, <1>3, <1>4 DEF Rowset
  <2> HIDE DEF r
  <2>5. Window(r)
    BY <1>3, <2>4 DEF Window
  <2>6. Earned(g, r.tier)
    BY <1>2, <1>3, <1>4, <2>1, <2>3, <2>4, TierFacts DEF Earned
  <2>7. RowOK(r, g) /\ Keeps(granted[i], g)
    BY <1>4, <2>1, <2>3, <2>4, <2>5, <2>6 DEF RowOK, Keeps
  <2> QED
    BY <1>2, <1>5, <2>2, <2>3, <2>4, <2>7, OneRowSteps
<1>6. CASE ~Stored(i)
  BY <1>1, <1>6, SameRows
<1> QED
  BY <1>5, <1>6

\* An INSERT by a client that then sees to the vector.
LEMMA InsertRows ==
  ASSUME Types, RowsOK, NEW i \in FreeIds, NEW s \in Subjects \cup {"none"},
         NEW tier \in TierNames, Insert(i, s, tier), Awaited(i)'
  PROVE  RowsStep
<1> DEFINE g == [NothingGranted EXCEPT !.asked = {tier}]
           e == nextExpiry(tier, 0)
           r == [of |-> s, tier |-> e.tier, hits |-> 0, left |-> e.left]
<1>1. g \in Grants /\ tier \in g.asked
  BY Empty DEF Grants, NothingGranted
<1>2. row' = [row EXCEPT ![i] = r] /\ granted' = [granted EXCEPT ![i] = g]
  BY DEF Insert
<1>3. i \in Ids
  BY DEF FreeIds
<1> HIDE DEF g
<1>4. r \in Rowset /\ RowOK(r, g)
  BY <1>1, FreshRow
<1> HIDE DEF r
<1> QED
  BY <1>1, <1>2, <1>3, <1>4, OneRowSteps

LEMMA UpdateRows ==
  ASSUME Types, RowsOK, NEW c \in Clients, CacheUpdate(c)
  PROVE  RowsStep
<1>1. PICK v \in Remember :
        LET q == client[c].of
            tier == normalizeTier(v)
            e == nextExpiry(tier, 0)
        IN \/ \E i \in IdsOf(q) :
                /\ row' = [row EXCEPT ![i] = [of |-> q, tier |-> e.tier, hits |-> 0, left |-> e.left]]
                /\ granted' = [granted EXCEPT ![i].asked = @ \cup {tier}]
           \/ UNCHANGED <<row, granted>>
  BY DEF CacheUpdate
<1> DEFINE q == client[c].of
           tier == normalizeTier(v)
           e == nextExpiry(tier, 0)
           r == [of |-> q, tier |-> e.tier, hits |-> 0, left |-> e.left]
<1>2. q \in Subjects \cup {"none"} /\ tier \in TierNames
  BY CallersTiers DEF Types, ClientStates
<1>3. ASSUME NEW i \in IdsOf(q), row' = [row EXCEPT ![i] = r],
             granted' = [granted EXCEPT ![i].asked = @ \cup {tier}]
      PROVE  RowsStep
  <2> DEFINE g == [granted[i] EXCEPT !.asked = granted[i].asked \cup {tier}]
  <2>1. i \in Ids /\ granted[i] \in Grants /\ row[i].of = q
    BY <1>3, SubIds DEF IdsOf, Types
  <2>2. granted' = [granted EXCEPT ![i] = g]
    BY <1>3
  <2>3. /\ g \in Grants /\ tier \in g.asked
        /\ Keeps(granted[i], g)
    BY <1>2, <2>1 DEF Grants, Keeps
  <2> HIDE DEF g, tier
  <2>4. r \in Rowset /\ RowOK(r, g)
    BY <1>2, <2>3, FreshRow
  <2>5. r.of = q
    OBVIOUS
  <2>6. r.of = "none" \/ Stored(i)
    BY <2>1, <2>5 DEF Stored
  <2> HIDE DEF r, q
  <2> QED
    BY <1>3, <2>1, <2>2, <2>3, <2>4, <2>6, OneRowSteps
<1> QED
  BY <1>1, <1>3, SameRows

LEMMA TickRows ==
  ASSUME Types, RowsOK, Tick
  PROVE  RowsStep
<1>1. /\ granted' = granted /\ granted \in [Ids -> Grants]
      /\ row' = [i \in Ids |-> [row[i] EXCEPT !.left = Older(@)]]
  BY DEF Tick, Types
<1>2. ASSUME NEW i \in Ids
      PROVE  /\ row'[i] = [row[i] EXCEPT !.left = Older(@)] /\ row[i] \in Rowset
             /\ row'[i].of = row[i].of /\ row'[i].tier = row[i].tier /\ row'[i].hits = row[i].hits
  BY <1>1 DEF Types, Rowset
<1>3. ASSUME NEW i \in Ids PROVE row'[i] \in Rowset
  <2>1. row[i].left \in Lefts => Older(row[i].left) \in Lefts
    BY TierFacts DEF Older, Lefts, Never, Expired
  <2> QED
    BY <1>2, <2>1 DEF Rowset
<1>4. ASSUME NEW i \in Ids PROVE RowStep(i)
  <2>1. CASE Stored(i)
    <3>1. RowOK(row[i], granted[i])
      BY <2>1 DEF RowsOK
    <3>2. Window(row'[i])
      BY <1>2, <3>1, WindowsAge DEF RowOK
    <3> QED
      BY <1>1, <1>2, <2>1, <3>1, <3>2, KeepsSame DEF RowStep, RowOK
  <2>2. CASE ~Stored(i)
    BY <1>2, <2>2 DEF RowStep, Stored
  <2> QED
    BY <2>1, <2>2
<1> QED
  BY <1>1, <1>3, <1>4 DEF RowsStep

LEMMA ClientRows ==
  ASSUME Types, RowsOK, CopiesOK, NEW c \in Clients, Moves(c)
  PROVE  RowsStep
<1>1. ASSUME NEW i \in FreeIds, NEW s \in Subjects \cup {"none"}, NEW tier \in TierNames,
             NEW t \in ClientStates, Goto(c, t), Insert(i, s, tier),
             t.ids = {i}, t.at \in {"enqueue", "vector", "noTable"}
      PROVE  RowsStep
  <2>1. client'[c] = t
    BY <1>1, OneClient
  <2>2. Awaited(i)'
    BY <1>1, <2>1 DEF Awaited
  <2> QED
    BY <1>1, <2>2, InsertRows
<1>2. ASSUME NEW f \in scope \cap Facts, FactSearch(c, f) PROVE RowsStep
  <2>1. ASSUME NEW v \in Remember, NEW i \in FreeIds, NEW pc \in {"vector", "noTable"},
               Insert(i, f, rememberTier(v)),
               Goto(c, [Idle EXCEPT !.of = f, !.tier = rememberTier(v), !.at = pc, !.ids = {i}])
        PROVE  RowsStep
    <3> DEFINE t == [Idle EXCEPT !.of = f, !.tier = rememberTier(v), !.at = pc, !.ids = {i}]
    <3>1. f \in Subjects \cup {"none"} /\ rememberTier(v) \in TierNames /\ i \in Ids
      BY CallersTiers DEF Subjects, FreeIds
    <3>2. t \in ClientStates /\ t.ids = {i} /\ t.at = pc
      BY <3>1, AtNames, Empty DEF ClientStates
    <3> HIDE DEF t
    <3> QED
      BY <1>1, <2>1, <3>1, <3>2 DEF t
  <2>2. ASSUME NEW v \in Remember, NEW i \in FreeIds, NEW pc \in {"vector", "noTable"},
               Insert(i, f, [Idle EXCEPT !.of = f, !.tier = rememberTier(v)].tier),
               Goto(c, [[Idle EXCEPT !.of = f, !.tier = rememberTier(v)] EXCEPT !.at = pc, !.ids = {i}])
        PROVE  RowsStep
    <3>1. /\ [Idle EXCEPT !.of = f, !.tier = rememberTier(v)].tier = rememberTier(v)
          /\ [[Idle EXCEPT !.of = f, !.tier = rememberTier(v)] EXCEPT !.at = pc, !.ids = {i}]
               = [Idle EXCEPT !.of = f, !.tier = rememberTier(v), !.at = pc, !.ids = {i}]
      BY DEF Idle
    <3> QED
      BY <2>1, <2>2, <3>1
  <2>3. (IF table THEN "vector" ELSE "noTable") \in {"vector", "noTable"}
    OBVIOUS
  <2> QED
    BY <1>2, <2>2, <2>3, SameRows DEF FactSearch
<1>3. CASE CacheInsert(c)
  <2>1. ASSUME NEW i \in FreeIds \cap QueryIds, Insert(i, client[c].of, client[c].tier),
               Goto(c, [Idle EXCEPT !.at = "enqueue", !.ids = {i}])
        PROVE  RowsStep
    <3> DEFINE t == [Idle EXCEPT !.at = "enqueue", !.ids = {i}]
    <3>1. client[c].of \in Subjects \cup {"none"} /\ client[c].tier \in TierNames /\ i \in Ids
      BY DEF Types, ClientStates, FreeIds
    <3>2. t \in ClientStates /\ t.ids = {i} /\ t.at = "enqueue"
      BY <3>1, AtNames, Empty DEF ClientStates
    <3> HIDE DEF t
    <3> QED
      BY <1>1, <2>1, <3>1, <3>2 DEF t
  <2> QED
    BY <1>3, <2>1, SameRows DEF CacheInsert
<1>4. CASE StoreError(c) \/ FactVector(c)
  BY <1>4, GivenUpSteps, SameRows DEF StoreError, FactVector
<1>5. CASE \/ \E q \in scope \cap Queries : LookupExact(c, q)
           \/ RetrieveFacts(c) \/ LookupSemantic(c) \/ TouchError(c) \/ EnqueueEmbed(c)
           \/ FactScan(c)
  BY <1>5, SameRows
     DEF LookupExact, RetrieveFacts, LookupSemantic, TouchError, EnqueueEmbed, FactScan
<1> QED
  BY <1>2, <1>3, <1>4, <1>5, TouchRows, RefreshRows, UpdateRows DEF Moves, ClientStep

LEMMA RowSteps ==
  ASSUME Types, RowsOK, CopiesOK, [Next]_vars
  PROVE  RowsStep
<1>1. ASSUME NEW i \in Ids, CleanupDelete(i) PROVE RowsStep
  <2>1. NoRow.of = "none"
    BY DEF NoRow
  <2> QED
    BY <1>1, <2>1, Empty, OneRowSteps DEF CleanupDelete
<1>2. ASSUME NEW i \in Ids, EmbedFails(i) PROVE RowsStep
  BY <1>2, GivenUpSteps DEF EmbedFails
<1>3. ASSUME NEW i \in Ids, Embed(i) PROVE RowsStep
  BY <1>3, SameRows DEF Embed
<1>4. CASE CleanupStart \/ CleanupNextTable \/ CleanupVector \/ CleanupError
  BY <1>4, SameRows DEF CleanupStart, CleanupNextTable, CleanupVector, CleanupError
<1>5. CASE FirstTable \/ UNCHANGED vars
  BY <1>5, SameRows DEF FirstTable, vars
<1> QED
  BY <1>1, <1>2, <1>3, <1>4, <1>5, ClientRows, TickRows DEF Next, CleanupStep, Moves

-----------------------------------------------------------------------------
(***************************************************************************)
(* What a step may do to the copies, and to the rest.                      *)
(***************************************************************************)
\* A copy is one the client had, or fresh from its row, or what a refresh
\* that found no row goes by.
CopyStep(c, k) ==
  \/ k \in client[c].copies /\ client'[c].at = client[c].at /\ client'[c].tier = client[c].tier
  \/ \E i \in Ids : k = Copy(i) /\ Stored(i) /\ UNCHANGED <<row, granted>>
  \/ client'[c].at = "refresh" /\ k.tier = client'[c].tier /\ k.hits = 0

LEMMA CopySteps ==
  ASSUME Types, NEW c \in Clients, Moves(c)
  PROVE  \A k \in client'[c].copies : CopyStep(c, k)
<1>0. /\ client[c] \in ClientStates
      /\ Idle.copies = {} /\ Idle \in ClientStates
      /\ \A s : Goto(c, s) => client'[c] = s
  BY Empty DEF Types, Goto, Idle
<1>1. ASSUME NEW s, Goto(c, s), s.copies = {} PROVE \A k \in client'[c].copies : CopyStep(c, k)
  BY <1>0, <1>1
<1>2. ASSUME NEW s, Goto(c, s), UNCHANGED <<row, granted>>,
             \A k \in s.copies : \E i \in Ids : k = Copy(i) /\ Stored(i)
      PROVE  \A k \in client'[c].copies : CopyStep(c, k)
  BY <1>0, <1>2 DEF CopyStep
<1>3. ASSUME NEW q \in scope \cap Queries, LookupExact(c, q)
      PROVE  \A k \in client'[c].copies : CopyStep(c, k)
  <2>1. ASSUME NEW i \in IdsOf(q)
        PROVE  [Idle EXCEPT !.at = "touch", !.of = q, !.copies = {Copy(i)}].copies = {Copy(i)}
               /\ i \in Ids /\ Stored(i)
    BY SubIds, KnowledgeAssumption DEF Idle, IdsOf, Stored, Subjects
  <2>2. [Idle EXCEPT !.at = "semantic", !.of = q].copies = {}
    BY DEF Idle
  <2> QED
    BY <1>1, <1>2, <1>3, <2>1, <2>2 DEF LookupExact
<1>4. CASE RetrieveFacts(c)
  <2>1. ASSUME NEW found \in SUBSET (vectors \cap FactIds), \A i \in found : Stored(i),
               NEW k \in [Idle EXCEPT !.at = "touch", !.copies = {Copy(i) : i \in found}].copies
        PROVE  \E i \in Ids : k = Copy(i) /\ Stored(i)
    BY <2>1, SubIds DEF Idle
  <2>2. PICK found \in SUBSET (vectors \cap FactIds) :
          /\ \A i \in found : Stored(i)
          /\ Goto(c, [Idle EXCEPT !.at = "touch", !.copies = {Copy(i) : i \in found}])
    BY <1>4 DEF RetrieveFacts
  <2> QED
    BY <1>2, <1>4, <2>1, <2>2 DEF RetrieveFacts
<1>5. CASE LookupSemantic(c)
  <2>1. ASSUME NEW i \in Ids
        PROVE  [client[c] EXCEPT !.at = "touch", !.copies = {Copy(i)}].copies = {Copy(i)}
    BY <1>0 DEF ClientStates
  <2> QED
    BY <1>2, <1>5, <2>1, SubIds DEF LookupSemantic
<1>6. CASE Touch(c)
  <2>1. PICK k \in client[c].copies :
          Goto(c, IF client[c].copies = {k} THEN Idle ELSE [client[c] EXCEPT !.copies = @ \ {k}])
    BY <1>6 DEF Touch
  <2> DEFINE s == [client[c] EXCEPT !.copies = @ \ {k}]
  <2>2. s.copies = client[c].copies \ {k} /\ s.at = client[c].at /\ s.tier = client[c].tier
    BY <1>0 DEF ClientStates
  <2>3. CASE Goto(c, s)
    <3>1. client'[c] = s
      BY <1>0, <2>3
    <3> HIDE DEF s
    <3> QED
      BY <2>2, <3>1 DEF CopyStep
  <2> QED
    BY <1>0, <1>1, <2>1, <2>3
<1>7. CASE TouchError(c) \/ StoreError(c) \/ CacheUpdate(c) \/ CacheInsert(c)
           \/ EnqueueEmbed(c) \/ FactVector(c)
  <2>1. /\ \A q, pc : [Idle EXCEPT !.at = pc, !.of = q].copies = {}
        /\ \A q, pc, t : [Idle EXCEPT !.at = pc, !.of = q, !.tier = t].copies = {}
        /\ \A ids, pc : [Idle EXCEPT !.at = pc, !.ids = ids].copies = {}
    BY DEF Idle
  <2>2. \E s : Goto(c, s) /\ s.copies = {}
    BY <1>0, <1>7, <2>1 DEF TouchError, StoreError, CacheUpdate, CacheInsert, EnqueueEmbed, FactVector
  <2> QED
    BY <1>1, <2>2
<1>8. ASSUME NEW f \in scope \cap Facts, FactSearch(c, f)
      PROVE  \A k \in client'[c].copies : CopyStep(c, k)
  <2>1. \A v, ids, pc : [[Idle EXCEPT !.of = f, !.tier = v] EXCEPT !.at = pc, !.ids = ids].copies = {}
    BY DEF Idle
  <2> QED
    BY <1>1, <1>8, <2>1 DEF FactSearch
<1>9. CASE FactRefresh(c)
  <2>1. [client[c] EXCEPT !.at = "vector", !.copies = {}].copies = {}
    BY <1>0 DEF ClientStates
  <2> QED
    BY <1>1, <1>9, <2>1 DEF FactRefresh
<1>10. CASE FactScan(c)
  <2>1. ASSUME NEW k
        PROVE  /\ [client[c] EXCEPT !.at = "refresh", !.copies = {k}].copies = {k}
               /\ [client[c] EXCEPT !.at = "refresh", !.copies = {k}].at = "refresh"
               /\ [client[c] EXCEPT !.at = "refresh", !.copies = {k}].tier = client[c].tier
    BY <1>0 DEF ClientStates
  <2>2. \A i \in client[c].ids : i \in Ids
    BY <1>0 DEF ClientStates
  <2>3. ASSUME NEW i \in client[c].ids, Stored(i),
               Goto(c, [client[c] EXCEPT !.at = "refresh", !.copies = {Copy(i)}])
        PROVE  \A k \in client'[c].copies : CopyStep(c, k)
    BY <1>2, <1>10, <2>1, <2>2, <2>3 DEF FactScan
  <2>4. ASSUME NEW i \in client[c].ids,
               Goto(c, [client[c] EXCEPT !.at = "refresh",
                         !.copies = {[id |-> i, tier |-> client[c].tier, hits |-> 0]}])
        PROVE  \A k \in client'[c].copies : CopyStep(c, k)
    <3> DEFINE k == [id |-> i, tier |-> client[c].tier, hits |-> 0]
    <3>1. k.tier = client[c].tier /\ k.hits = 0
      OBVIOUS
    <3>2. client'[c] = [client[c] EXCEPT !.at = "refresh", !.copies = {k}]
      BY <1>0, <2>4
    <3> HIDE DEF k
    <3>3. client'[c].at = "refresh" /\ client'[c].tier = k.tier /\ client'[c].copies = {k}
      BY <2>1, <3>1, <3>2
    <3> QED
      BY <3>1, <3>3 DEF CopyStep
  <2> QED
    BY <1>10, <2>3, <2>4 DEF FactScan
<1> QED
  BY <1>3, <1>4, <1>5, <1>6, <1>7, <1>8, <1>9, <1>10 DEF Moves, ClientStep

\* At most one client moves.
LEMMA WhoMoves ==
  ASSUME Types, [Next]_vars
  PROVE  \/ client' = client
         \/ \E c \in Clients : \E s \in ClientStates :
              /\ Moves(c)
              /\ client' \in [Clients -> ClientStates] /\ client'[c] = s
              /\ \A d \in Clients \ {c} : client'[d] = client[d]
<1>1. ASSUME NEW c \in Clients, Moves(c)
      PROVE  \E s \in ClientStates :
               /\ client' \in [Clients -> ClientStates] /\ client'[c] = s
               /\ \A d \in Clients \ {c} : client'[d] = client[d]
  BY <1>1, ClientTypes, OneClient
<1>2. CASE Next /\ ~FirstTable /\ ~\E c \in Clients : Moves(c)
  <2>1. \/ \E i \in Ids : Embed(i) \/ EmbedFails(i) \/ CleanupDelete(i)
        \/ CleanupStart \/ CleanupNextTable \/ CleanupVector \/ CleanupError \/ Tick
    BY <1>2 DEF Next, CleanupStep, Moves
  <2> QED
    BY <2>1 DEF Embed, EmbedFails, CleanupDelete, CleanupStart, CleanupNextTable,
                CleanupVector, CleanupError, Tick
<1>3. CASE FirstTable \/ UNCHANGED vars
  BY <1>3 DEF FirstTable, vars
<1> QED
  BY <1>1, <1>2, <1>3

LEMMA CopiesStay ==
  ASSUME Types, RowsOK, CopiesOK, [Next]_vars
  PROVE  CopiesOK'
<1>1. RowsStep
  BY RowSteps
<1>2. ASSUME NEW c \in Clients, NEW k \in client[c].copies, Stored(k.id)'
      PROVE  /\ k.hits <= granted'[k.id].hits
             /\ Earned(granted'[k.id], k.tier) \/ (client[c].at = "refresh" /\ k.tier = client[c].tier)
  <2>1. k \in Copies /\ k.id \in Ids
    BY DEF Types, ClientStates, Copies
  <2>2. k.id \notin FreeIds
    BY DEF FreeIds, Mentioned
  <2>3. Stored(k.id) /\ Keeps(granted[k.id], granted'[k.id])
    BY <1>1, <1>2, <2>1, <2>2 DEF RowsStep, RowStep
  <2>4. /\ k.hits <= granted[k.id].hits
        /\ Earned(granted[k.id], k.tier) \/ (client[c].at = "refresh" /\ k.tier = client[c].tier)
    BY <2>3 DEF CopiesOK, At
  <2>5. /\ granted[k.id].hits \in Int /\ granted'[k.id].hits \in Int /\ k.hits \in Int
    BY <1>1, <2>1, TierFacts DEF RowsStep, Types, Grants, Copies
  <2>6. granted[k.id].hits <= granted'[k.id].hits
        /\ granted[k.id].asked \subseteq granted'[k.id].asked
    BY <2>3 DEF Keeps
  <2> QED
    BY <2>4, <2>5, <2>6, TierFacts DEF Earned
<1>3. ASSUME NEW c \in Clients, NEW k \in client'[c].copies, CopyStep(c, k), Stored(k.id)',
             client'[c] \in ClientStates
      PROVE  /\ k.hits <= granted'[k.id].hits
             /\ Earned(granted'[k.id], k.tier) \/ (client'[c].at = "refresh" /\ k.tier = client'[c].tier)
  <2>1. CASE k \in client[c].copies /\ client'[c].at = client[c].at /\ client'[c].tier = client[c].tier
    BY <1>2, <1>3, <2>1
  <2>2. ASSUME NEW i \in Ids, k = Copy(i), Stored(i), UNCHANGED <<row, granted>>
        PROVE  k.hits <= granted'[k.id].hits /\ Earned(granted'[k.id], k.tier)
    BY <2>2, CopyType DEF RowsOK, RowOK
  <2>3. CASE client'[c].at = "refresh" /\ k.tier = client'[c].tier /\ k.hits = 0
    <3>1. k.id \in Ids
      BY <1>3 DEF ClientStates, Copies
    <3>2. granted'[k.id].hits \in 0 .. PromoteAfterHits
      BY <1>1, <3>1 DEF RowsStep, Grants
    <3> QED
      BY <2>3, <3>2, TierFacts
  <2> QED
    BY <1>3, <2>1, <2>2, <2>3 DEF CopyStep
<1>4. CASE client' = client
  BY <1>2, <1>4 DEF CopiesOK, At, Stored
<1>5. ASSUME NEW c \in Clients, Moves(c), client'[c] \in ClientStates,
             \A d \in Clients \ {c} : client'[d] = client[d]
      PROVE  CopiesOK'
  <2>1. \A k \in client'[c].copies : CopyStep(c, k)
    BY <1>5, CopySteps
  <2> QED
    BY <1>2, <1>3, <1>5, <2>1 DEF CopiesOK, At, Stored
<1> QED
  BY <1>4, <1>5, WhoMoves

LEMMA TypesStay ==
  ASSUME Types, RowsOK, CopiesOK, [Next]_vars
  PROVE  Types'
<1>1. row' \in [Ids -> Rowset] /\ granted' \in [Ids -> Grants]
  BY RowSteps DEF RowsStep
<1>2. client' \in [Clients -> ClientStates]
  BY WhoMoves DEF Types
<1>3. scope' \in Scopes /\ table' \in BOOLEAN
  BY DEF Types, Next, FirstTable, vars
<1>4. vectors' \subseteq Ids /\ toEmbed' \subseteq QueryIds
  <2>1. ASSUME NEW c \in Clients, Moves(c) PROVE vectors' \subseteq Ids /\ toEmbed' \subseteq QueryIds
    <3>1. client[c].ids \subseteq Ids
      BY DEF Types, ClientStates
    <3>2. CASE EnqueueEmbed(c)
      BY <3>2 DEF EnqueueEmbed, Types, ClientStates, At
    <3>3. CASE FactVector(c)
      BY <3>1, <3>3 DEF FactVector, Types
    <3>4. CASE ~EnqueueEmbed(c) /\ ~FactVector(c)
      BY <2>1, <3>4 DEF Types, Moves, ClientStep, LookupExact, FactSearch, RetrieveFacts, LookupSemantic,
         Touch, TouchError, StoreError, CacheUpdate, CacheInsert, FactScan, FactRefresh
    <3> QED
      BY <3>2, <3>3, <3>4
  <2>2. ASSUME NEW i \in Ids, Embed(i) \/ EmbedFails(i) \/ CleanupDelete(i)
        PROVE  vectors' \subseteq Ids /\ toEmbed' \subseteq QueryIds
    BY <2>2 DEF Types, Embed, EmbedFails, CleanupDelete
  <2>3. CASE CleanupVector
    BY <2>3 DEF CleanupVector, Types
  <2>4. CASE CleanupStart \/ CleanupNextTable \/ CleanupError \/ Tick \/ FirstTable \/ UNCHANGED vars
    BY <2>4 DEF CleanupStart, CleanupNextTable, CleanupError, Tick, FirstTable, Types, vars
  <2> QED
    BY <2>1, <2>2, <2>3, <2>4 DEF Next, CleanupStep, Moves
<1>5. cleanup' \in Passes
  <2>1. ExpiredIds(QueryIds) \subseteq Ids /\ ExpiredIds(FactIds) \subseteq Ids
    BY SubIds DEF ExpiredIds
  <2>2. cleanup \in Passes
    BY DEF Types
  <2>3. CASE CleanupStart
    BY <2>1, <2>3 DEF CleanupStart, Passes
  <2>4. CASE CleanupNextTable
    BY <2>1, <2>2, <2>4 DEF CleanupNextTable, Passes
  <2>5. ASSUME NEW i \in Ids, CleanupDelete(i) PROVE cleanup' \in Passes
    BY <2>2, <2>5 DEF CleanupDelete, Passes
  <2>6. CASE CleanupVector
    BY <2>2, <2>6, Empty DEF CleanupVector, Passes
  <2>7. CASE CleanupError
    BY <2>7, Empty DEF CleanupError
  <2>8. ASSUME NEW c \in Clients, Moves(c) PROVE cleanup' = cleanup
    BY <2>8 DEF Moves, ClientStep, LookupExact, FactSearch, RetrieveFacts, LookupSemantic, Touch, TouchError,
       StoreError, CacheUpdate, CacheInsert, EnqueueEmbed, FactScan, FactRefresh, FactVector
  <2>9. CASE Tick \/ FirstTable \/ UNCHANGED vars \/ \E i \in Ids : Embed(i) \/ EmbedFails(i)
    BY <2>2, <2>9 DEF Tick, FirstTable, vars, Embed, EmbedFails
  <2> QED
    BY <2>2, <2>3, <2>4, <2>5, <2>6, <2>7, <2>8, <2>9 DEF Next, CleanupStep, Moves
<1> QED
  BY <1>1, <1>2, <1>3, <1>4, <1>5 DEF Types

LEMMA GoneStay ==
  ASSUME Types, RowsOK, CopiesOK, GoneRows, [Next]_vars
  PROVE  GoneRows'
<1>1. RowsStep
  BY RowSteps
<1>2. ASSUME NEW i \in cleanup.gone PROVE ~Stored(i)'
  <2>1. i \in Ids /\ i \notin FreeIds /\ ~Stored(i)
    BY DEF Types, Passes, FreeIds, Mentioned, GoneRows
  <2> QED
    BY <1>1, <2>1 DEF RowsStep, RowStep
<1>3. ASSUME NEW i \in Ids, CleanupDelete(i) PROVE GoneRows'
  <2>1. cleanup'.gone = cleanup.gone \cup {i}
    BY <1>3 DEF CleanupDelete, Types, Passes
  <2>2. ~Stored(i)'
    BY <1>3 DEF CleanupDelete, Stored, NoRow, Types
  <2> QED
    BY <1>2, <2>1, <2>2 DEF GoneRows, Stored
<1>4. CASE cleanup'.gone \subseteq cleanup.gone
  BY <1>2, <1>4 DEF GoneRows, Stored
<1>5. CASE CleanupStart \/ CleanupNextTable \/ CleanupVector \/ CleanupError
  <2>1. cleanup \in Passes
    BY DEF Types
  <2>2. CASE CleanupStart \/ CleanupError
    BY <1>4, <2>2 DEF CleanupStart, CleanupError, NoPass
  <2>3. CASE CleanupNextTable
    BY <1>4, <2>1, <2>3 DEF CleanupNextTable, Passes
  <2>4. CASE CleanupVector
    BY <1>4, <2>1, <2>4 DEF CleanupVector, Passes, NoPass
  <2> QED
    BY <1>5, <2>2, <2>3, <2>4
<1>6. CASE cleanup' = cleanup
  BY <1>4, <1>6
<1>7. ASSUME NEW c \in Clients, Moves(c) PROVE cleanup' = cleanup
  BY <1>7 DEF Moves, ClientStep, LookupExact, FactSearch, RetrieveFacts, LookupSemantic, Touch, TouchError,
     StoreError, CacheUpdate, CacheInsert, EnqueueEmbed, FactScan, FactRefresh, FactVector
<1>8. CASE Tick \/ FirstTable \/ UNCHANGED vars \/ \E i \in Ids : Embed(i) \/ EmbedFails(i)
  BY <1>6, <1>8 DEF Tick, FirstTable, vars, Embed, EmbedFails
<1> QED
  BY <1>3, <1>5, <1>6, <1>7, <1>8 DEF Next, CleanupStep, Moves

-----------------------------------------------------------------------------
(***************************************************************************)
(* Vectors.                                                                *)
(***************************************************************************)
Sought(i) == i \in vectors \cup toEmbed \/ granted[i].lost \/ Awaited(i)

LEMMA SoughtIs == SearchableOrQueued <=> \A i \in Ids : Stored(i) => Sought(i)
BY DEF SearchableOrQueued, Sought, Awaited

\* Giving up the write of the vector of a row is what "lost" records.
LEMMA GivenUpLost ==
  ASSUME Types, NEW ids, GivenUp(ids), NEW i \in ids \cap Ids, Stored(i), i \notin vectors
  PROVE  granted'[i].lost
<1>1. granted[i] \in Grants /\ granted'[i] = [granted[i] EXCEPT !.lost = TRUE]
  BY DEF GivenUp, Types
<1> QED
  BY <1>1 DEF Grants

\* A client that moves leaves the ids it held to the vectors or the queue.
LEMMA HandedOver ==
  ASSUME Types, NEW c \in Clients, Moves(c), client[c].at \in {"enqueue", "vector", "noTable"},
         NEW i \in client[c].ids, Stored(i)
  PROVE  i \in vectors' \cup toEmbed' \/ granted'[i].lost
<1>1. i \in Ids
  BY DEF Types, ClientStates
<1>2. CASE StoreError(c)
  <2>1. GivenUp(client[c].ids) /\ UNCHANGED <<vectors, toEmbed>>
    BY <1>2 DEF StoreError
  <2> QED
    BY <1>1, <2>1, GivenUpLost
<1>3. CASE FactVector(c)
  <2>1. \/ vectors' = vectors \cup client[c].ids
        \/ GivenUp(client[c].ids) /\ UNCHANGED vectors
    BY <1>3 DEF FactVector
  <2> QED
    BY <1>1, <2>1, GivenUpLost
<1>4. EnqueueEmbed(c) \/ FactVector(c) \/ StoreError(c)
  BY DEF Moves, ClientStep, LookupExact, FactSearch, RetrieveFacts, LookupSemantic, Touch, TouchError,
     CacheUpdate, CacheInsert, FactScan, FactRefresh, At
<1> QED
  BY <1>2, <1>4, <1>3 DEF EnqueueEmbed

\* Clients and jobs add to the vectors; cleanup takes those of rows that are gone.
LEMMA VectorsStay ==
  ASSUME Types, GoneRows, [Next]_vars, NEW i \in Ids, Stored(i), i \in vectors
  PROVE  i \in vectors'
<1>1. CASE CleanupVector
  BY <1>1 DEF CleanupVector, GoneRows
<1>2. ASSUME NEW c \in Clients, Moves(c) PROVE vectors \subseteq vectors'
  BY <1>2 DEF Moves, ClientStep, LookupExact, FactSearch, RetrieveFacts, LookupSemantic, Touch, TouchError,
     StoreError, CacheUpdate, CacheInsert, EnqueueEmbed, FactScan, FactRefresh, FactVector
<1>3. ASSUME NEW j \in Ids, Embed(j) \/ EmbedFails(j) \/ CleanupDelete(j) PROVE vectors \subseteq vectors'
  BY <1>3 DEF Embed, EmbedFails, CleanupDelete
<1>4. CASE CleanupStart \/ CleanupNextTable \/ CleanupError \/ Tick \/ FirstTable \/ UNCHANGED vars
  BY <1>4 DEF CleanupStart, CleanupNextTable, CleanupError, Tick, FirstTable, vars
<1> QED
  BY <1>1, <1>2, <1>3, <1>4 DEF Next, CleanupStep, Moves

\* A job leaves the queue with its vector written, or given up.
LEMMA QueueStays ==
  ASSUME Types, [Next]_vars, NEW i \in Ids, Stored(i), i \in toEmbed \ vectors
  PROVE  i \in vectors' \cup toEmbed' \/ granted'[i].lost
<1>1. ASSUME NEW j \in Ids, EmbedFails(j) PROVE i \in vectors' \cup toEmbed' \/ granted'[i].lost
  <2>1. CASE i = j
    BY <1>1, <2>1, GivenUpLost DEF EmbedFails
  <2> QED
    BY <1>1, <2>1 DEF EmbedFails
<1>2. ASSUME NEW j \in Ids, Embed(j) \/ CleanupDelete(j) PROVE i \in vectors' \cup toEmbed'
  BY <1>2 DEF Embed, CleanupDelete
<1>3. ASSUME NEW c \in Clients, Moves(c) PROVE toEmbed \subseteq toEmbed'
  BY <1>3 DEF Moves, ClientStep, LookupExact, FactSearch, RetrieveFacts, LookupSemantic, Touch, TouchError,
     StoreError, CacheUpdate, CacheInsert, EnqueueEmbed, FactScan, FactRefresh, FactVector
<1>4. CASE CleanupStart \/ CleanupNextTable \/ CleanupVector \/ CleanupError \/ Tick
           \/ FirstTable \/ UNCHANGED vars
  BY <1>4 DEF CleanupStart, CleanupNextTable, CleanupVector, CleanupError, Tick, FirstTable, vars
<1> QED
  BY <1>1, <1>2, <1>3, <1>4 DEF Next, CleanupStep, Moves

LEMMA SearchableStays ==
  ASSUME Types, RowsOK, CopiesOK, GoneRows, SearchableOrQueued, [Next]_vars
  PROVE  SearchableOrQueued'
<1> SUFFICES ASSUME NEW i \in Ids, Stored(i)' PROVE Sought(i)'
  BY DEF SearchableOrQueued, Sought, Awaited, Stored
<1>1. RowStep(i)
  BY RowSteps DEF RowsStep
<1>2. CASE i \in FreeIds /\ Awaited(i)'
  BY <1>2 DEF Sought
<1>3. CASE Stored(i) /\ Keeps(granted[i], granted'[i])
  <2>1. Sought(i)
    BY <1>3, SoughtIs
  <2>2. CASE i \in vectors
    BY <1>3, <2>2, VectorsStay DEF Sought
  <2>3. CASE i \in toEmbed \ vectors
    BY <1>3, <2>3, QueueStays DEF Sought
  <2>4. CASE granted[i].lost
    BY <1>3, <2>4 DEF Sought, Keeps
  <2>5. ASSUME NEW d \in Clients, i \in client[d].ids, client[d].at \in {"enqueue", "vector", "noTable"}
        PROVE  Sought(i)'
    <3>1. CASE client'[d] = client[d]
      BY <2>5, <3>1 DEF Sought, Awaited
    <3>2. CASE Moves(d)
      BY <1>3, <2>5, <3>2, HandedOver DEF Sought
    <3> QED
      BY <3>1, <3>2, WhoMoves
  <2> QED
    BY <2>1, <2>2, <2>3, <2>4, <2>5 DEF Sought, Awaited
<1> QED
  BY <1>1, <1>2, <1>3 DEF RowStep

-----------------------------------------------------------------------------
Inv == Types /\ RowsOK /\ CopiesOK /\ GoneRows /\ SearchableOrQueued

LEMMA InitInv == Init => Inv
<1> SUFFICES ASSUME Init PROVE Inv
  OBVIOUS
<1>1. Types
  BY Empty DEF Init, Types
<1>2. \A i \in Ids : ~Stored(i)
  BY DEF Init, Stored, NoRow
<1>3. CopiesOK
  BY DEF Init, CopiesOK, Idle
<1>4. GoneRows
  BY DEF Init, GoneRows, NoPass
<1> QED
  BY <1>1, <1>2, <1>3, <1>4 DEF Inv, RowsOK, SearchableOrQueued

LEMMA Invariant == Spec => []Inv
<1>1. Inv /\ [Next]_vars => Inv'
  <2> SUFFICES ASSUME Inv, [Next]_vars PROVE Inv'
    OBVIOUS
  <2>1. RowsOK'
    BY RowSteps DEF Inv, RowsStep, RowStep, RowsOK, Stored
  <2> QED
    BY <2>1, TypesStay, CopiesStay, GoneStay, SearchableStays DEF Inv
<1> QED
  BY <1>1, InitInv, PTL DEF Spec

\* Every reachable state is well typed: what touches and refreshes write back
\* is a tier, a count and a window, and only cached searches are embedded by a job.
THEOREM KnowledgeTypeCorrect == Spec => []TypeOK
<1>1. Inv => TypeOK
  BY TypesAre DEF Inv
<1> QED
  BY <1>1, Invariant, PTL

\* Whatever stale copies of tier and hit_count the touches and refreshes of
\* any number of clients write back, a row has no tier that nobody asked for
\* and no hits earned, and the window of its tier.
THEOREM KnowledgeTiersEarned == Spec => []TiersEarned
<1>1. Inv => TiersEarned
  BY RowsAre DEF Inv
<1> QED
  BY <1>1, Invariant, PTL

\* A stored row has its vector, or a client or a job is about to write it, or
\* that write was given up: cleanup takes only the vectors of rows it deleted.
THEOREM KnowledgeSearchable == Spec => []SearchableOrQueued
<1>1. Inv => SearchableOrQueued
  BY DEF Inv
<1> QED
  BY <1>1, Invariant, PTL

\* No hit or refresh that is still on its way brings a deleted row back.
THEOREM KnowledgeNoResurrection == Spec => NoResurrection
<1>1. Inv /\ [Next]_vars => [\A i \in Ids : (~Stored(i) /\ Stored(i)') => i \in FreeIds]_vars
  BY RowSteps DEF Inv, RowsStep, RowStep
<1> QED
  BY <1>1, Invariant, PTL DEF Spec, NoResurrection
=============================================================================
