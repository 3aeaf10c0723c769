------------------------- MODULE JobQueueTimedProofs -------------------------
(***************************************************************************)
(* What JobQueue promises when it keeps to its time: if no worker holds a  *)
(* job for more than MaxRun ticks and staleAfter is twice that, no job is  *)
(* reaped while somebody has it, none runs twice at once, and the rows     *)
(* implement JobContract, for every number of processes and workers.       *)
(*                                                                         *)
(* Twice, because a claimed job waits for a worker first.  A batch is no   *)
(* larger than the pool, so as long as one of its jobs waits, some worker  *)
(* has been at an older job for as long (Timing); that worker is done      *)
(* within MaxRun, and then the job has its own MaxRun ahead of it.         *)
(***************************************************************************)
EXTENDS JobQueueProofs

Offered(p, j) == \E i \in DOMAIN offers[p] : offers[p][i].job = j
Runs(p, s, j) == Busy(p, s) /\ hand[p][s].job = j

\* The workers that took up their job less than a ticks ago.
Newer(p, a) == {s \in Slots : Busy(p, s) /\ ran[p][s] < a}

OffersOwned == \A p \in Procs, j \in Jobs : Offered(p, j) => status[j] = "running"

OffersApart ==
  \A p, q \in Procs : \A i \in DOMAIN offers[p], k \in DOMAIN offers[q] :
    offers[p][i].job = offers[q][k].job => p = q /\ i = k

OffersNotRun ==
  \A p, q \in Procs, s \in Slots, j \in Jobs : ~(Offered(p, j) /\ Runs(q, s, j))

Apart == OffersApart /\ OffersNotRun /\ NoDoubleRun

ClaimsTimed ==
  \A p \in Procs :
    /\ claimAge[p] = 0
    /\ Len(cands[p]) + Len(offers[p]) <= Cardinality(Slots)

OfferTimed(p, j) ==
  /\ lockAge[j] \in 0 .. MaxRun
  /\ cands[p] # <<>> => lockAge[j] = 0
  /\ lockAge[j] > 0 =>
       Len(offers[p]) + Cardinality(Newer(p, lockAge[j])) <= Cardinality(Slots)

OffersTimed == \A p \in Procs, j \in Jobs : Offered(p, j) => OfferTimed(p, j)

HandsTimed ==
  \A p \in Procs, s \in Slots, j \in Jobs :
    Runs(p, s, j) => lockAge[j] \in 0 .. MaxRun + ran[p][s]

Timing == ClaimsTimed /\ OffersTimed /\ HandsTimed

\* The assumption of the runs jobs_timely and jobs_live.
InTime == Timely /\ StaleAfter >= 2 * MaxRun

-----------------------------------------------------------------------------
LEMMA AppendFacts ==
  ASSUME NEW b \in Seq(Task), NEW t \in Task
  PROVE  /\ Append(b, t) \in Seq(Task) /\ Len(Append(b, t)) = Len(b) + 1
         /\ DOMAIN Append(b, t) = 1 .. Len(b) + 1 /\ DOMAIN b = 1 .. Len(b)
         /\ \A i \in DOMAIN b : Append(b, t)[i] = b[i]
         /\ Append(b, t)[Len(b) + 1] = t
OBVIOUS

LEMMA TailFacts ==
  ASSUME NEW b \in Seq(Task), b # <<>>
  PROVE  /\ Tail(b) \in Seq(Task) /\ Len(Tail(b)) = Len(b) - 1
         /\ Len(b) \in Nat \ {0} /\ DOMAIN b = 1 .. Len(b)
         /\ Head(b) = b[1] /\ 1 \in DOMAIN b
         /\ DOMAIN Tail(b) = 1 .. Len(b) - 1
         /\ \A i \in DOMAIN Tail(b) : i + 1 \in DOMAIN b /\ Tail(b)[i] = b[i + 1]
OBVIOUS

LEMMA HoldTypes ==
  ASSUME TypeOK, NEW p \in Procs
  PROVE  /\ offers[p] \in Seq(Task) /\ cands[p] \in Seq(Task)
         /\ \A i \in DOMAIN offers[p] : offers[p][i] \in Task /\ offers[p][i].job \in Jobs
         /\ \A s \in Slots : Busy(p, s) => hand[p][s] \in Held /\ hand[p][s].job \in Jobs
         /\ \A s \in Slots : ran[p][s] \in 0 .. MaxRun
<1>1. offers[p] \in Seq(Task) /\ cands[p] \in Seq(Task)
  BY DEF TypeOK
<1>2. ASSUME NEW i \in DOMAIN offers[p] PROVE offers[p][i] \in Task /\ offers[p][i].job \in Jobs
  <2>1. offers[p][i] \in Task
    BY <1>1
  <2> QED
    BY <2>1 DEF Task
<1>3. ASSUME NEW s \in Slots, Busy(p, s) PROVE hand[p][s] \in Held /\ hand[p][s].job \in Jobs
  BY <1>3 DEF TypeOK, Busy, Held
<1>4. ASSUME NEW s \in Slots PROVE ran[p][s] \in 0 .. MaxRun
  BY DEF TypeOK
<1> QED
  BY <1>1, <1>2, <1>3, <1>4

\* Most steps take up no job: what is offered or run afterwards was before.
Shrinks ==
  \A p \in Procs :
    /\ offers'[p] \in {offers[p], <<>>}
    /\ \A s \in Slots : Busy(p, s)' => Busy(p, s) /\ hand'[p][s].job = hand[p][s].job

LEMMA ShrinkSteps ==
  ASSUME TypeOK, [Next]_vars
  PROVE  \/ Shrinks
         \/ \E p \in Procs : ClaimRow(p)
         \/ \E p \in Procs, s \in Slots : Deliver(p, s)
<1>0. /\ offers \in [Procs -> Seq(Task)]
      /\ hand \in [Procs -> [Slots -> Held \cup {Idle}]]
  BY DEF TypeOK
<1>1. ASSUME UNCHANGED <<offers, hand>> PROVE Shrinks
  BY <1>1 DEF Shrinks, Busy
<1>2. ASSUME NEW p \in Procs, NEW s \in Slots, UNCHANGED offers, Release(p, s) PROVE Shrinks
  BY <1>0, <1>2 DEF Shrinks, Busy, Release
<1>3. ASSUME NEW p \in Procs, NEW s \in Slots, UNCHANGED offers, Executing(p, s),
             NEW result, hand' = [hand EXCEPT ![p][s].result = result]
      PROVE  Shrinks
  <2>1. hand[p][s] \in Held
    BY <1>0, <1>3 DEF Executing, Busy
  <2>2. [hand[p][s] EXCEPT !.result = result].job = hand[p][s].job
    BY <2>1 DEF Held
  <2>3. hand'[p][s] = [hand[p][s] EXCEPT !.result = result]
    BY <1>0, <1>3
  <2>4. \A q \in Procs, r \in Slots : <<q, r>> # <<p, s>> => hand'[q][r] = hand[q][r]
    BY <1>0, <1>3
  <2> QED
    BY <1>3, <2>2, <2>3, <2>4 DEF Shrinks, Busy, Executing
<1>4. ASSUME NEW p \in Procs, NEW s \in Slots, WorkerMoves(p, s), ~Deliver(p, s) PROVE Shrinks
  <2>1. CASE HandlerSucceeds(p, s) \/ HandlerErrs(p, s) \/ NoHandler(p, s)
    BY <1>3, <2>1 DEF HandlerSucceeds, HandlerErrs, NoHandler, poller
  <2>2. CASE Record(p, s) \/ RecordFails(p, s)
    BY <1>2, <2>2 DEF Record, RecordFails, poller
  <2> QED
    BY <1>4, <2>1, <2>2 DEF WorkerMoves
<1>5. ASSUME NEW p \in Procs, ProcMoves(p), ~ClaimRow(p) PROVE Shrinks
  <2>1. CASE ClaimError(p)
    BY <1>0, <2>1 DEF ClaimError, workers, Shrinks, Busy
  <2>2. CASE Crash(p)
    <3>1. \A q \in Procs : offers'[q] \in {offers[q], <<>>}
      BY <1>0, <2>2 DEF Crash
    <3>2. \A q \in Procs, s \in Slots : hand'[q][s] \in {hand[q][s], Idle}
      BY <1>0, <2>2 DEF Crash
    <3> QED
      BY <3>1, <3>2 DEF Shrinks, Busy
  <2>3. CASE Poll(p) \/ Reap(p) \/ Start(p)
    BY <1>1, <2>3 DEF Poll, Reap, Start, workers, poller
  <2> QED
    BY <1>5, <2>1, <2>2, <2>3 DEF ProcMoves
<1>6. ASSUME UNCHANGED vars \/ Tick \/ \E j \in Jobs : EnqueueJob(j) PROVE Shrinks
  BY <1>1, <1>6 DEF vars, Tick, EnqueueJob, workers, poller
<1> QED
  BY <1>4, <1>5, <1>6, Steps

\* A claim that finds its row pending offers one more job; any other offers none.
LEMMA ClaimSteps ==
  ASSUME TypeOK, NEW p \in Procs, ClaimRow(p)
  PROVE  LET t == Head(cands[p]) IN
         /\ t \in Task /\ t.job \in Jobs /\ cands[p] # <<>>
         /\ cands' = [cands EXCEPT ![p] = Tail(cands[p])]
         /\ UNCHANGED <<claimAge, hand, ran, attempts, runIn>>
         /\ \/ UNCHANGED <<status, lockAge, offers>> /\ status[t.job] # "pending"
            \/ /\ status[t.job] = "pending"
               /\ status' = [status EXCEPT ![t.job] = "running"]
               /\ lockAge' = [lockAge EXCEPT ![t.job] = claimAge[p]]
               /\ offers' = [offers EXCEPT ![p] = Append(offers[p], t)]
<1>1. cands[p] \in Seq(Task) /\ cands[p] # <<>>
  BY DEF TypeOK, ClaimRow
<1>2. Head(cands[p]) \in Task /\ Head(cands[p]).job \in Jobs
  BY <1>1, HeadIsTask
<1>3. UNCHANGED <<claimAge, hand, ran, attempts, runIn>>
  BY DEF ClaimRow, workers
<1> DEFINE t == Head(cands[p])
<1>4. \/ UNCHANGED <<status, lockAge, offers>> /\ status[t.job] # "pending"
      \/ /\ status[t.job] = "pending"
         /\ status' = [status EXCEPT ![t.job] = "running"]
         /\ lockAge' = [lockAge EXCEPT ![t.job] = claimAge[p]]
         /\ offers' = [offers EXCEPT ![p] = Append(offers[p], t)]
  BY DEF ClaimRow
<1>5. cands' = [cands EXCEPT ![p] = Tail(cands[p])]
  BY DEF ClaimRow
<1> HIDE DEF t
<1> QED
  BY <1>1, <1>2, <1>3, <1>4, <1>5 DEF t

LEMMA DeliverSteps ==
  ASSUME TypeOK, NEW p \in Procs, NEW s \in Slots, Deliver(p, s)
  PROVE  LET t == Head(offers[p]) IN
         /\ t \in Task /\ t.job \in Jobs /\ offers[p] # <<>> /\ cands[p] = <<>>
         /\ ~Busy(p, s) /\ Busy(p, s)' /\ hand'[p][s].job = t.job
         /\ \A q \in Procs, r \in Slots : <<q, r>> # <<p, s>> => hand'[q][r] = hand[q][r]
         /\ offers' = [offers EXCEPT ![p] = Tail(offers[p])]
         /\ ran' = [ran EXCEPT ![p][s] = 0]
         /\ UNCHANGED <<status, lockAge, attempts, runIn, cands, claimAge>>
<1> DEFINE t == Head(offers[p])
           h == [job |-> t.job, attempts |-> t.attempts, result |-> "running"]
<1>1. offers[p] \in Seq(Task) /\ offers[p] # <<>>
  BY DEF TypeOK, Deliver
<1>2. t \in Task /\ t.job \in Jobs
  BY <1>1, HeadIsTask
<1>3. h \in Held
  BY <1>2 DEF Task, Held
<1>4. hand' = [hand EXCEPT ![p][s] = h] /\ hand \in [Procs -> [Slots -> Held \cup {Idle}]]
  BY DEF Deliver, TypeOK
<1>5. h # Idle /\ h.job = t.job
  BY <1>3, JobQueueAssumption
<1> HIDE DEF h
<1>6. /\ hand'[p][s] = h
      /\ \A q \in Procs, r \in Slots : <<q, r>> # <<p, s>> => hand'[q][r] = hand[q][r]
  BY <1>4
<1> QED
  BY <1>1, <1>2, <1>5, <1>6 DEF Deliver, rows, Busy

-----------------------------------------------------------------------------
(***************************************************************************)
(* One holder.                                                             *)
(***************************************************************************)
LEMMA ShrinksApart ==
  ASSUME TypeOK, Apart, Shrinks
  PROVE  Apart'
<1>1. ASSUME NEW p \in Procs, NEW i \in DOMAIN offers'[p]
      PROVE  offers'[p] = offers[p] /\ i \in DOMAIN offers[p]
  BY <1>1 DEF Shrinks
<1>2. OffersApart'
  BY <1>1 DEF Apart, OffersApart
<1>3. ASSUME NEW p \in Procs, NEW s \in Slots, NEW j \in Jobs, Runs(p, s, j)'
      PROVE  Runs(p, s, j)
  BY <1>3 DEF Runs, Shrinks
<1>4. ASSUME NEW p \in Procs, NEW j \in Jobs, Offered(p, j)' PROVE Offered(p, j)
  BY <1>1, <1>4 DEF Offered
<1>5. OffersNotRun'
  BY <1>3, <1>4 DEF Apart, OffersNotRun, Offered, Runs
<1>6. NoDoubleRun'
  <2>1. \A p \in Procs, s \in Slots : Busy(p, s)' => Busy(p, s) /\ hand'[p][s].job = hand[p][s].job
    BY DEF Shrinks
  <2> QED
    BY <2>1 DEF Apart, NoDoubleRun, Busy
<1> QED
  BY <1>2, <1>5, <1>6 DEF Apart

LEMMA ClaimApart ==
  ASSUME TypeOK, Apart, OffersOwned, NeverReapedMidFlight, NEW p \in Procs, ClaimRow(p)
  PROVE  Apart'
<1> DEFINE t == Head(cands[p])
           n == Len(offers[p]) + 1
<1>1. /\ t \in Task /\ t.job \in Jobs /\ UNCHANGED hand
      /\ \/ UNCHANGED offers
         \/ status[t.job] = "pending" /\ offers' = [offers EXCEPT ![p] = Append(offers[p], t)]
  BY ClaimSteps
<1>2. CASE UNCHANGED offers
  BY <1>1, <1>2 DEF Apart, OffersApart, OffersNotRun, NoDoubleRun, Offered, Runs, Busy
<1>3. CASE status[t.job] = "pending" /\ offers' = [offers EXCEPT ![p] = Append(offers[p], t)]
  <2> HIDE DEF t
  <2>1. \A q \in Procs : ~Offered(q, t.job) /\ \A s \in Slots : ~Runs(q, s, t.job)
    BY <1>1, <1>3 DEF OffersOwned, NeverReapedMidFlight, Runs
  <2>2. offers \in [Procs -> Seq(Task)] /\ offers[p] \in Seq(Task)
    BY DEF TypeOK
  <2>3. /\ offers'[p] = Append(offers[p], t)
        /\ \A q \in Procs \ {p} : offers'[q] = offers[q]
    BY <1>3, <2>2
  <2>4. /\ DOMAIN offers'[p] = 1 .. n /\ DOMAIN offers[p] = 1 .. n - 1 /\ n \in Nat
        /\ \A i \in DOMAIN offers[p] : offers'[p][i] = offers[p][i]
        /\ offers'[p][n] = t
    BY <1>1, <2>2, <2>3, AppendFacts
  <2> HIDE DEF n
  <2>5. ASSUME NEW q \in Procs, NEW i \in DOMAIN offers'[q]
        PROVE  \/ q = p /\ i = n /\ offers'[q][i] = t
               \/ i \in DOMAIN offers[q] /\ offers'[q][i] = offers[q][i]
    <3>1. CASE q = p
      BY <2>4, <3>1
    <3>2. CASE q # p
      BY <2>3, <3>2
    <3> QED
      BY <3>1, <3>2
  <2>6. \A q \in Procs : \A i \in DOMAIN offers[q] : offers[q][i].job # t.job
    BY <2>1 DEF Offered
  <2>7. OffersApart'
    BY <2>5, <2>6 DEF Apart, OffersApart
  <2>8. ASSUME NEW q \in Procs, NEW j \in Jobs, Offered(q, j)' PROVE Offered(q, j) \/ j = t.job
    BY <2>5, <2>8 DEF Offered
  <2>9. \A q \in Procs, s \in Slots, j \in Jobs : Runs(q, s, j)' <=> Runs(q, s, j)
    BY <1>1 DEF Runs, Busy
  <2>10. OffersNotRun'
    BY <2>1, <2>8, <2>9 DEF Apart, OffersNotRun, Offered, Runs
  <2>11. NoDoubleRun'
    BY <1>1 DEF Apart, NoDoubleRun, Busy
  <2> QED
    BY <2>7, <2>10, <2>11 DEF Apart
<1> QED
  BY <1>1, <1>2, <1>3

\* What Deliver leaves offered was offered, one place further back.
LEMMA DeliverOffers ==
  ASSUME TypeOK, NEW p \in Procs, NEW s \in Slots, Deliver(p, s), NEW q \in Procs
  PROVE  /\ \A i \in DOMAIN offers'[q] :
              LET k == IF q = p THEN i + 1 ELSE i IN
              k \in DOMAIN offers[q] /\ offers'[q][i] = offers[q][k]
                /\ i \in Nat \ {0}
         /\ \A j \in Jobs : Offered(q, j)' => Offered(q, j)
<1>1. /\ offers[p] # <<>> /\ offers[p] \in Seq(Task)
      /\ offers' = [offers EXCEPT ![p] = Tail(offers[p])]
      /\ offers \in [Procs -> Seq(Task)]
  BY DeliverSteps DEF TypeOK
<1>2. CASE q = p
  <2>1. offers'[q] = Tail(offers[q])
    BY <1>1, <1>2
  <2>2. \A i \in DOMAIN offers'[q] :
          i + 1 \in DOMAIN offers[q] /\ offers'[q][i] = offers[q][i + 1] /\ i \in Nat \ {0}
    BY <1>1, <1>2, <2>1, TailFacts
  <2> QED
    BY <1>2, <2>2 DEF Offered
<1>3. CASE q # p
  <2>1. offers'[q] = offers[q] /\ offers[q] \in Seq(Task)
    BY <1>1, <1>3
  <2>2. \A i \in DOMAIN offers[q] : i \in Nat \ {0}
    BY <2>1
  <2> QED
    BY <1>3, <2>1, <2>2 DEF Offered
<1> QED
  BY <1>2, <1>3

LEMMA DeliverApart ==
  ASSUME TypeOK, Apart, NEW p \in Procs, NEW s \in Slots, Deliver(p, s)
  PROVE  Apart'
<1> DEFINE t == Head(offers[p])
<1>1. /\ t \in Task /\ t.job \in Jobs /\ offers[p] # <<>>
      /\ Busy(p, s)' /\ hand'[p][s].job = t.job
      /\ \A q \in Procs, r \in Slots : <<q, r>> # <<p, s>> => hand'[q][r] = hand[q][r]
  BY DeliverSteps
<1>2. t = offers[p][1] /\ 1 \in DOMAIN offers[p]
  BY <1>1, TailFacts DEF TypeOK
<1> HIDE DEF t
<1>3. Offered(p, t.job)
  BY <1>2 DEF Offered
<1>4. OffersApart'
  <2> SUFFICES ASSUME NEW q1 \in Procs, NEW q2 \in Procs,
                      NEW i1 \in DOMAIN offers'[q1], NEW i2 \in DOMAIN offers'[q2],
                      offers'[q1][i1].job = offers'[q2][i2].job
               PROVE  q1 = q2 /\ i1 = i2
    BY DEF OffersApart
  <2> DEFINE k1 == IF q1 = p THEN i1 + 1 ELSE i1
             k2 == IF q2 = p THEN i2 + 1 ELSE i2
  <2>1. /\ k1 \in DOMAIN offers[q1] /\ offers'[q1][i1] = offers[q1][k1] /\ i1 \in Nat
        /\ k2 \in DOMAIN offers[q2] /\ offers'[q2][i2] = offers[q2][k2] /\ i2 \in Nat
    BY DeliverOffers
  <2>2. q1 = q2 /\ k1 = k2
    BY <2>1 DEF Apart, OffersApart
  <2> QED
    BY <2>1, <2>2
<1>5. ASSUME NEW q \in Procs, NEW i \in DOMAIN offers'[q] PROVE offers'[q][i].job # t.job
  <2> DEFINE k == IF q = p THEN i + 1 ELSE i
  <2>1. k \in DOMAIN offers[q] /\ offers'[q][i] = offers[q][k] /\ i \in Nat \ {0}
    BY DeliverOffers
  <2>2. q # p \/ k # 1
    BY <2>1
  <2> QED
    BY <1>2, <2>1, <2>2 DEF Apart, OffersApart
<1>6. ASSUME NEW q \in Procs, NEW r \in Slots, NEW j \in Jobs, Runs(q, r, j)'
      PROVE  Runs(q, r, j) \/ (q = p /\ r = s /\ j = t.job)
  BY <1>1, <1>6 DEF Runs, Busy
<1>7. OffersNotRun'
  <2> SUFFICES ASSUME NEW p1 \in Procs, NEW q1 \in Procs, NEW r \in Slots, NEW j \in Jobs,
                      Offered(p1, j)', Runs(q1, r, j)'
               PROVE  FALSE
    BY DEF OffersNotRun, Offered, Runs
  <2>1. Offered(p1, j) /\ j # t.job
    BY <1>5, DeliverOffers DEF Offered
  <2> QED
    BY <1>6, <2>1 DEF Apart, OffersNotRun
<1>8. NoDoubleRun'
  <2> SUFFICES ASSUME NEW p1 \in Procs, NEW q1 \in Procs, NEW r1 \in Slots, NEW r2 \in Slots,
                      Busy(p1, r1)', Busy(q1, r2)', hand'[p1][r1].job = hand'[q1][r2].job,
                      <<p1, r1>> # <<q1, r2>>
               PROVE  FALSE
    BY DEF NoDoubleRun, Busy
  <2>1. ASSUME NEW q \in Procs, NEW r \in Slots, <<q, r>> # <<p, s>>, Busy(q, r)'
        PROVE  Busy(q, r) /\ hand'[q][r] = hand[q][r] /\ hand[q][r].job # t.job
    <3>1. hand'[q][r] = hand[q][r]
      BY <1>1, <2>1
    <3>2. Busy(q, r)
      BY <2>1, <3>1 DEF Busy
    <3> QED
      BY <1>1, <1>3, <3>1, <3>2 DEF Apart, OffersNotRun, Runs
  <2>2. CASE <<p1, r1>> = <<p, s>>
    BY <1>1, <2>1, <2>2
  <2>3. CASE <<q1, r2>> = <<p, s>>
    BY <1>1, <2>1, <2>3
  <2>4. CASE <<p1, r1>> # <<p, s>> /\ <<q1, r2>> # <<p, s>>
    BY <2>1, <2>4 DEF Apart, NoDoubleRun
  <2> QED
    BY <2>2, <2>3, <2>4
<1> QED
  BY <1>4, <1>7, <1>8 DEF Apart

-----------------------------------------------------------------------------
(***************************************************************************)
(* What is held is running.                                                *)
(***************************************************************************)
Owned == OffersOwned /\ NeverReapedMidFlight

\* The reaper does not see a job that waits in the channel or that a worker has.
LEMMA HeldIsFresh ==
  ASSUME InTime, TypeOK, Timing, NEW p \in Procs, NEW j \in Jobs,
         Offered(p, j) \/ \E s \in Slots : Runs(p, s, j)
  PROVE  j \notin StaleRows
<1>1. MaxRun \in Nat /\ StaleAfter \in Nat /\ StaleAfter >= 2 * MaxRun
  BY JobQueueAssumption DEF InTime
<1>2. CASE Offered(p, j)
  <2>1. lockAge[j] \in 0 .. MaxRun
    BY <1>2 DEF Timing, OffersTimed, OfferTimed
  <2> QED
    BY <1>1, <2>1 DEF StaleRows
<1>3. ASSUME NEW s \in Slots, Runs(p, s, j) PROVE j \notin StaleRows
  <2>1. lockAge[j] \in 0 .. MaxRun + ran[p][s]
    BY <1>3 DEF Timing, HandsTimed
  <2>2. ran[p][s] \in 0 .. MaxRun
    BY HoldTypes
  <2> QED
    BY <1>1, <2>1, <2>2 DEF StaleRows
<1> QED
  BY <1>2, <1>3

\* So a job that somebody has stays running, under the same lock, until its own
\* outcome is written.
LEMMA HeldStaysRunning ==
  ASSUME InTime, TypeOK, Timing, [Next]_vars, NEW p \in Procs, NEW j \in Jobs,
         Offered(p, j) \/ \E s \in Slots : Runs(p, s, j),
         status[j] = "running"
  PROVE  \/ status'[j] = "running" /\ (Tick \/ lockAge'[j] = lockAge[j])
         \/ \E q \in Procs, s \in Slots : Record(q, s) /\ Runs(q, s, j)
<1> DEFINE Kept == status'[j] = "running" /\ lockAge'[j] = lockAge[j]
<1>0. status \in [Jobs -> Status] /\ DOMAIN lockAge = Jobs
  BY DEF TypeOK
<1>1. ASSUME NEW k \in Jobs, EnqueueJob(k) PROVE Kept
  BY <1>0, <1>1 DEF EnqueueJob
<1>2. CASE UNCHANGED rows
  BY <1>2 DEF rows
<1>3. ASSUME NEW q \in Procs, ClaimRow(q) PROVE Kept
  <2> DEFINE t == Head(cands[q])
  <2>1. \/ UNCHANGED <<status, lockAge>>
        \/ /\ status[t.job] = "pending"
           /\ status' = [status EXCEPT ![t.job] = "running"]
           /\ lockAge' = [lockAge EXCEPT ![t.job] = claimAge[q]]
    BY <1>3, ClaimSteps
  <2> HIDE DEF t
  <2> QED
    BY <1>0, <2>1
<1>4. ASSUME NEW q \in Procs, NEW s \in Slots, Record(q, s), ~Runs(q, s, j)
      PROVE  Kept
  <2> DEFINE k == hand[q][s].job
  <2>1. k # j
    BY <1>4 DEF Record, Runs
  <2>2. \E v \in Status : status' = [status EXCEPT ![k] = v]
    BY <1>4 DEF Record, WriteOutcome, CompleteJob, FailJob, RetryJob, Status
  <2>3. lockAge' = [lockAge EXCEPT ![k] = NotLocked]
    BY <1>4 DEF Record, WriteOutcome, CompleteJob, FailJob, RetryJob
  <2> HIDE DEF k
  <2> QED
    BY <1>0, <2>1, <2>2, <2>3
<1>5. CASE ResetStaleJobs
  <2>1. j \notin StaleRows
    BY HeldIsFresh
  <2> QED
    BY <1>5, <2>1 DEF ResetStaleJobs
<1>6. CASE Tick
  BY <1>6 DEF Tick
<1> QED
  BY <1>1, <1>2, <1>3, <1>4, <1>5, <1>6, RowsFrame

LEMMA ShrinksOwned ==
  ASSUME InTime, TypeOK, Timing, Apart, Owned, [Next]_vars, Shrinks
  PROVE  Owned'
<1>1. ASSUME NEW p \in Procs, NEW j \in Jobs, Offered(p, j)' PROVE status'[j] = "running"
  <2>1. Offered(p, j)
    BY <1>1 DEF Offered, Shrinks
  <2>2. status[j] = "running"
    BY <2>1 DEF Owned, OffersOwned
  <2>3. \A q \in Procs, s \in Slots : ~Runs(q, s, j)
    BY <2>1 DEF Apart, OffersNotRun
  <2> QED
    BY <2>1, <2>2, <2>3, HeldStaysRunning
<1>2. ASSUME NEW p \in Procs, NEW s \in Slots, Busy(p, s)'
      PROVE  status'[hand'[p][s].job] = "running"
  <2> DEFINE j == hand[p][s].job
  <2>1. Busy(p, s) /\ hand'[p][s].job = j
    BY <1>2 DEF Shrinks
  <2>2. j \in Jobs
    BY <2>1, HoldTypes
  <2>3. status[j] = "running" /\ Runs(p, s, j)
    BY <2>1 DEF Owned, NeverReapedMidFlight, Runs
  <2>4. ASSUME NEW q \in Procs, NEW r \in Slots, Record(q, r), Runs(q, r, j) PROVE FALSE
    <3>1. <<q, r>> = <<p, s>>
      BY <2>1, <2>4 DEF Apart, NoDoubleRun, Runs
    <3>2. hand'[q][r] = Idle
      BY <2>4 DEF Record, Release, TypeOK
    <3> QED
      BY <1>2, <3>1, <3>2 DEF Busy
  <2> HIDE DEF j
  <2>5. status'[j] = "running"
    BY <2>2, <2>3, <2>4, HeldStaysRunning
  <2> QED
    BY <2>1, <2>5
<1> QED
  BY <1>1, <1>2 DEF Owned, OffersOwned, NeverReapedMidFlight, Offered, Busy

LEMMA ClaimOffers ==
  ASSUME TypeOK, NEW p \in Procs, ClaimRow(p), NEW q \in Procs, NEW j \in Jobs, Offered(q, j)'
  PROVE  LET t == Head(cands[p]) IN
         \/ Offered(q, j)
         \/ q = p /\ j = t.job /\ status[j] = "pending" /\ status'[j] = "running"
              /\ lockAge'[j] = claimAge[p]
<1> DEFINE t == Head(cands[p])
<1>1. /\ t \in Task
      /\ \/ UNCHANGED offers
         \/ /\ status[t.job] = "pending"
            /\ status' = [status EXCEPT ![t.job] = "running"]
            /\ lockAge' = [lockAge EXCEPT ![t.job] = claimAge[p]]
            /\ offers' = [offers EXCEPT ![p] = Append(offers[p], t)]
  BY ClaimSteps
<1>2. /\ offers \in [Procs -> Seq(Task)] /\ offers[p] \in Seq(Task)
      /\ DOMAIN status = Jobs /\ DOMAIN lockAge = Jobs
  BY DEF TypeOK
<1> HIDE DEF t
<1>3. CASE UNCHANGED offers
  BY <1>3 DEF Offered
<1>4. CASE /\ status[t.job] = "pending"
           /\ status' = [status EXCEPT ![t.job] = "running"]
           /\ lockAge' = [lockAge EXCEPT ![t.job] = claimAge[p]]
           /\ offers' = [offers EXCEPT ![p] = Append(offers[p], t)]
  <2>1. CASE q # p
    BY <1>2, <1>4, <2>1 DEF Offered
  <2>2. CASE q = p
    <3>1. offers'[q] = Append(offers[q], t)
      BY <1>2, <1>4, <2>2
    <3>2. \A i \in DOMAIN offers'[q] :
            (i \in DOMAIN offers[q] /\ offers'[q][i] = offers[q][i]) \/ offers'[q][i] = t
      BY <1>1, <1>2, <2>2, <3>1, AppendFacts
    <3>3. Offered(q, j) \/ j = t.job
      BY <3>2 DEF Offered
    <3> QED
      BY <1>2, <1>4, <2>2, <3>3 DEF t
  <2> QED
    BY <2>1, <2>2
<1> QED
  BY <1>1, <1>3, <1>4

LEMMA ClaimOwned ==
  ASSUME InTime, TypeOK, Timing, Owned, NEW p \in Procs, ClaimRow(p), [Next]_vars
  PROVE  Owned'
<1> DEFINE t == Head(cands[p])
<1>1. /\ status' \in {status, [status EXCEPT ![t.job] = "running"]}
      /\ hand' = hand /\ DOMAIN status = Jobs
  BY ClaimSteps DEF TypeOK
<1> HIDE DEF t
<1>2. \A j \in Jobs : status[j] = "running" => status'[j] = "running"
  BY <1>1
<1>3. ASSUME NEW q \in Procs, NEW j \in Jobs, Offered(q, j)' PROVE status'[j] = "running"
  BY <1>2, <1>3, ClaimOffers DEF Owned, OffersOwned
<1>4. ASSUME NEW q \in Procs, NEW s \in Slots, Busy(q, s) PROVE status'[hand[q][s].job] = "running"
  BY <1>2, <1>4, HoldTypes DEF Owned, NeverReapedMidFlight
<1> QED
  BY <1>1, <1>3, <1>4 DEF Owned, OffersOwned, NeverReapedMidFlight, Offered, Busy

LEMMA DeliverRuns ==
  ASSUME TypeOK, NEW p \in Procs, NEW s \in Slots, Deliver(p, s),
         NEW q \in Procs, NEW r \in Slots, NEW j \in Jobs, Runs(q, r, j)'
  PROVE  \/ Runs(q, r, j) /\ <<q, r>> # <<p, s>>
         \/ <<q, r>> = <<p, s>> /\ Offered(p, j)
<1> DEFINE t == Head(offers[p])
<1>1. /\ t \in Task /\ offers[p] # <<>>
      /\ hand'[p][s].job = t.job
      /\ \A q1 \in Procs, r1 \in Slots : <<q1, r1>> # <<p, s>> => hand'[q1][r1] = hand[q1][r1]
  BY DeliverSteps
<1>2. t = offers[p][1] /\ 1 \in DOMAIN offers[p]
  BY <1>1, TailFacts DEF TypeOK
<1> HIDE DEF t
<1>3. Offered(p, t.job)
  BY <1>2 DEF Offered
<1> QED
  BY <1>1, <1>3 DEF Runs, Busy

LEMMA DeliverOwned ==
  ASSUME TypeOK, Owned, NEW p \in Procs, NEW s \in Slots, Deliver(p, s), [Next]_vars
  PROVE  Owned'
<1>1. status' = status
  BY DeliverSteps
<1>2. ASSUME NEW q \in Procs, NEW j \in Jobs, Offered(q, j)' PROVE status'[j] = "running"
  BY <1>1, <1>2, DeliverOffers DEF Owned, OffersOwned
<1>3. ASSUME NEW q \in Procs, NEW r \in Slots, NEW j \in Jobs, Runs(q, r, j)'
      PROVE  status'[j] = "running"
  <2>1. Runs(q, r, j) \/ Offered(p, j)
    BY <1>3, DeliverRuns
  <2>2. status[j] = "running"
    BY <2>1 DEF Owned, OffersOwned, NeverReapedMidFlight, Runs
  <2> QED
    BY <1>1, <2>2
<1>4. ASSUME NEW q \in Procs, NEW r \in Slots, Busy(q, r)' PROVE hand'[q][r].job \in Jobs
  <2>1. hand' \in [Procs -> [Slots -> Held \cup {Idle}]]
    BY StepTypeOK DEF TypeOK
  <2>2. hand'[q][r] \in Held
    BY <1>4, <2>1 DEF Busy
  <2> QED
    BY <2>2 DEF Held
<1>5. NeverReapedMidFlight'
  BY <1>3, <1>4 DEF NeverReapedMidFlight, Runs, Busy
<1> QED
  BY <1>2, <1>5 DEF Owned, OffersOwned, Offered

-----------------------------------------------------------------------------
(***************************************************************************)
(* Nobody is kept waiting for long.                                        *)
(***************************************************************************)
LEMMA SlotSets ==
  /\ Cardinality(Slots) \in Nat
  /\ \A T \in SUBSET Slots :
       /\ Cardinality(T) \in Nat /\ Cardinality(T) <= Cardinality(Slots)
       /\ \A S \in SUBSET T : Cardinality(S) <= Cardinality(T)
       /\ \A S \in SUBSET Slots, s \in Slots :
            S \subseteq T \cup {s} => Cardinality(S) <= Cardinality(T) + 1
<1>1. ASSUME NEW T \in SUBSET Slots PROVE IsFiniteSet(T) /\ Cardinality(T) \in Nat
  BY FS_Subset, FS_CardinalityType, JobQueueAssumption
<1>2. ASSUME NEW T \in SUBSET Slots, NEW S \in SUBSET T PROVE Cardinality(S) <= Cardinality(T)
  BY <1>1, FS_Subset
<1>3. ASSUME NEW T \in SUBSET Slots, NEW S \in SUBSET Slots, NEW s \in Slots,
             S \subseteq T \cup {s}
      PROVE  Cardinality(S) <= Cardinality(T) + 1
  <2>1. T \cup {s} \in SUBSET Slots
    OBVIOUS
  <2>2. Cardinality(S) <= Cardinality(T \cup {s})
    BY <1>2, <1>3, <2>1
  <2>3. Cardinality(T \cup {s}) \in {Cardinality(T), Cardinality(T) + 1}
    BY <1>1, FS_AddElement
  <2> QED
    BY <1>1, <2>1, <2>2, <2>3
<1> QED
  BY <1>1, <1>2, <1>3

\* A step that keeps the batches or drops them, and ages no running job.
Still ==
  \A p \in Procs :
    /\ claimAge'[p] \in {claimAge[p], 0}
    /\ \/ offers'[p] = offers[p] /\ cands'[p] = cands[p]
       \/ offers'[p] = <<>> /\ cands'[p] = <<>>
    /\ \A s \in Slots : Busy(p, s)' => Busy(p, s) /\ ran'[p][s] = ran[p][s]

LEMMA StillSteps ==
  ASSUME TypeOK, [Next]_vars
  PROVE  \/ Still /\ Shrinks
         \/ Tick
         \/ \E p \in Procs : Poll(p) \/ ClaimRow(p)
         \/ \E p \in Procs, s \in Slots : Deliver(p, s)
<1>0. /\ offers \in [Procs -> Seq(Task)] /\ cands \in [Procs -> Seq(Task)]
      /\ hand \in [Procs -> [Slots -> Held \cup {Idle}]]
      /\ claimAge \in [Procs -> 0 .. PastStale]
      /\ ran \in [Procs -> [Slots -> 0 .. MaxRun]]
  BY DEF TypeOK
<1>1. ASSUME UNCHANGED <<poller, workers>> PROVE Still
  BY <1>1 DEF Still, Busy, poller, workers
<1>2. ASSUME NEW p \in Procs, NEW s \in Slots, UNCHANGED poller, Release(p, s) PROVE Still
  BY <1>0, <1>2 DEF Still, Busy, Release, poller
<1>3. ASSUME UNCHANGED <<poller, ran>>, Shrinks PROVE Still
  BY <1>3 DEF Still, Shrinks, poller
<1>4. ASSUME NEW p \in Procs, NEW s \in Slots, WorkerMoves(p, s), ~Deliver(p, s), Shrinks
      PROVE  Still
  BY <1>2, <1>3, <1>4
     DEF WorkerMoves, HandlerSucceeds, HandlerErrs, NoHandler, Record, RecordFails
<1>5. ASSUME NEW p \in Procs, ProcMoves(p), ~ClaimRow(p), ~Poll(p) PROVE Still
  <2>1. CASE ClaimError(p)
    BY <1>0, <2>1 DEF ClaimError, workers, Still, Busy
  <2>2. CASE Crash(p)
    <3>1. \A q \in Procs :
            /\ claimAge'[q] \in {claimAge[q], 0}
            /\ \/ offers'[q] = offers[q] /\ cands'[q] = cands[q]
               \/ offers'[q] = <<>> /\ cands'[q] = <<>>
      BY <1>0, <2>2 DEF Crash
    <3>2. \A q \in Procs, s \in Slots :
            \/ hand'[q][s] = Idle
            \/ hand'[q][s] = hand[q][s] /\ ran'[q][s] = ran[q][s]
      BY <1>0, <2>2 DEF Crash
    <3> QED
      BY <3>1, <3>2 DEF Still, Busy
  <2>3. CASE Reap(p) \/ Start(p)
    BY <1>1, <2>3 DEF Reap, Start
  <2> QED
    BY <1>5, <2>1, <2>2, <2>3 DEF ProcMoves
<1>6. ASSUME UNCHANGED vars \/ \E j \in Jobs : EnqueueJob(j) PROVE Still
  BY <1>1, <1>6 DEF vars, EnqueueJob
<1> QED
  BY <1>4, <1>5, <1>6, Steps, ShrinkSteps

LEMMA PollSteps ==
  ASSUME TypeOK, NEW p \in Procs, Poll(p)
  PROVE  /\ offers[p] = <<>> /\ UNCHANGED <<rows, offers, hand, ran>>
         /\ claimAge' = [claimAge EXCEPT ![p] = 0]
         /\ \A q \in Procs \ {p} : cands'[q] = cands[q]
         /\ Len(cands'[p]) \in 0 .. Cardinality(Slots)
<1>1. PICK b \in [1 .. BatchSize -> Runnable] :
        cands' = [cands EXCEPT ![p] =
          [i \in 1 .. BatchSize |-> [job |-> b[i], attempts |-> attempts[b[i]]]]]
  BY DEF Poll
<1> DEFINE batch == [i \in 1 .. BatchSize |-> [job |-> b[i], attempts |-> attempts[b[i]]]]
<1>2. Len(batch) = BatchSize
  BY BatchSizeType
<1>3. BatchSize \in 0 .. Cardinality(Slots)
  <2>1. IsFiniteSet(Runnable)
    BY FS_Subset, JobQueueAssumption DEF Runnable
  <2>2. Cardinality(Runnable) \in Nat /\ Cardinality(Slots) \in Nat
    BY <2>1, FS_CardinalityType, JobQueueAssumption
  <2> QED
    BY <2>2 DEF BatchSize
<1> HIDE DEF batch
<1>4. cands' = [cands EXCEPT ![p] = batch] /\ DOMAIN cands = Procs
  BY <1>1 DEF batch, TypeOK
<1>5. Len(cands'[p]) \in 0 .. Cardinality(Slots)
  BY <1>2, <1>3, <1>4
<1> QED
  BY <1>4, <1>5 DEF Poll, workers

LEMMA StepClaimsTimed ==
  ASSUME InTime, TypeOK, Timing, [Next]_vars
  PROVE  ClaimsTimed'
<1>0. /\ \A p \in Procs : /\ claimAge[p] = 0
                          /\ Len(cands[p]) + Len(offers[p]) <= Cardinality(Slots)
      /\ Cardinality(Slots) \in Nat
  BY SlotSets DEF Timing, ClaimsTimed
<1>1. /\ \A p \in Procs : Len(cands[p]) \in Nat /\ Len(offers[p]) \in Nat
      /\ DOMAIN claimAge = Procs /\ DOMAIN cands = Procs /\ DOMAIN offers = Procs
      /\ Len(<<>>) = 0
  BY DEF TypeOK
<1>2. CASE Still
  <2>1. ASSUME NEW p \in Procs
        PROVE  claimAge'[p] = 0 /\ Len(cands'[p]) + Len(offers'[p]) <= Cardinality(Slots)
    <3>1. CASE offers'[p] = offers[p] /\ cands'[p] = cands[p]
      BY <1>0, <1>2, <3>1 DEF Still
    <3>2. CASE offers'[p] = <<>> /\ cands'[p] = <<>>
      BY <1>0, <1>1, <1>2, <3>2 DEF Still
    <3> QED
      BY <1>2, <3>1, <3>2 DEF Still
  <2> QED
    BY <2>1 DEF ClaimsTimed
<1>3. CASE Tick
  <2>1. \A p \in Procs : cands[p] = <<>>
    BY <1>3 DEF Tick, MayTick, InTime
  <2>2. \A p \in Procs : claimAge'[p] = 0
    BY <1>3, <2>1 DEF Tick
  <2> QED
    BY <1>0, <1>3, <2>2 DEF ClaimsTimed, Tick
<1>4. ASSUME NEW p \in Procs, Poll(p) PROVE ClaimsTimed'
  <2>1. /\ offers[p] = <<>> /\ offers' = offers /\ claimAge' = [claimAge EXCEPT ![p] = 0]
        /\ \A q \in Procs \ {p} : cands'[q] = cands[q]
        /\ Len(cands'[p]) \in 0 .. Cardinality(Slots)
    BY <1>4, PollSteps
  <2>2. Len(cands'[p]) + Len(offers'[p]) <= Cardinality(Slots)
    BY <1>0, <1>1, <2>1
  <2>3. \A q \in Procs : claimAge'[q] = 0
    BY <1>0, <1>1, <2>1
  <2> QED
    BY <1>0, <2>1, <2>2, <2>3 DEF ClaimsTimed
<1>5. ASSUME NEW p \in Procs, ClaimRow(p) PROVE ClaimsTimed'
  <2> DEFINE t == Head(cands[p])
  <2>1. /\ claimAge' = claimAge
        /\ cands[p] # <<>> /\ cands' = [cands EXCEPT ![p] = Tail(cands[p])]
        /\ offers' \in {offers, [offers EXCEPT ![p] = Append(offers[p], t)]}
        /\ t \in Task
    BY <1>5, ClaimSteps
  <2>2. Len(Tail(cands[p])) = Len(cands[p]) - 1
    BY <2>1, TailFacts DEF TypeOK
  <2>3. Len(Append(offers[p], t)) = Len(offers[p]) + 1
    BY <2>1, AppendFacts DEF TypeOK
  <2> HIDE DEF t
  <2>4. Len(cands'[p]) = Len(cands[p]) - 1 /\ Len(offers'[p]) <= Len(offers[p]) + 1
          /\ Len(offers'[p]) \in Nat
    BY <1>1, <2>1, <2>2, <2>3
  <2>5. \A q \in Procs \ {p} : cands'[q] = cands[q] /\ offers'[q] = offers[q]
    BY <1>1, <2>1
  <2>6. Len(cands'[p]) + Len(offers'[p]) <= Cardinality(Slots)
    BY <1>0, <1>1, <2>4
  <2> QED
    BY <1>0, <2>1, <2>5, <2>6 DEF ClaimsTimed
<1>6. ASSUME NEW p \in Procs, NEW s \in Slots, Deliver(p, s) PROVE ClaimsTimed'
  <2>1. /\ claimAge' = claimAge /\ cands' = cands
        /\ offers[p] # <<>> /\ offers' = [offers EXCEPT ![p] = Tail(offers[p])]
    BY <1>6, DeliverSteps
  <2>2. Len(Tail(offers[p])) = Len(offers[p]) - 1
    BY <2>1, TailFacts DEF TypeOK
  <2>3. \A q \in Procs : offers'[q] = IF q = p THEN Tail(offers[p]) ELSE offers[q]
    BY <1>1, <2>1
  <2> QED
    BY <1>0, <1>1, <2>1, <2>2, <2>3 DEF ClaimsTimed
<1> QED
  BY <1>2, <1>3, <1>4, <1>5, <1>6, StillSteps

\* The same after a step.
NewerNow(p, a) == {s \in Slots : Busy(p, s)' /\ ran'[p][s] < a}

\* A job that is offered is offered no longer than MaxRun, since a worker of the
\* same process has been busy for as long.
LEMMA StepOffersTimed ==
  ASSUME InTime, TypeOK, Timing, Owned, Apart, [Next]_vars,
         NEW p \in Procs, NEW j \in Jobs, Offered(p, j)'
  PROVE  OfferTimed(p, j)'
<1>0. ASSUME Offered(p, j)
      PROVE  /\ lockAge[j] \in 0 .. MaxRun /\ (cands[p] # <<>> => lockAge[j] = 0)
             /\ lockAge[j] > 0 =>
                  Len(offers[p]) + Cardinality(Newer(p, lockAge[j])) <= Cardinality(Slots)
             /\ status[j] = "running"
             /\ \A q \in Procs, s \in Slots : ~Runs(q, s, j)
  BY <1>0 DEF Timing, OffersTimed, OfferTimed, Owned, OffersOwned, Apart, OffersNotRun
<1>1. ASSUME Offered(p, j), ~Tick PROVE lockAge'[j] = lockAge[j]
  BY <1>0, <1>1, HeldStaysRunning
<1>2. Cardinality(Slots) \in Nat /\ MaxRun \in Nat /\ StaleAfter \in Nat /\ MaxRun <= StaleAfter
  BY SlotSets, JobQueueAssumption DEF InTime
<1>3. \A a : Newer(p, a) \in SUBSET Slots /\ NewerNow(p, a) \in SUBSET Slots
  BY DEF Newer, NewerNow
<1>4. ASSUME NEW a \in 0 .. MaxRun, lockAge'[j] = a, cands'[p] # <<>> => a = 0,
             a > 0 => Len(offers'[p]) + Cardinality(NewerNow(p, a)) <= Cardinality(Slots)
      PROVE  OfferTimed(p, j)'
  BY <1>4 DEF OfferTimed, NewerNow, Newer, Busy
<1>5. ASSUME Offered(p, j), ~Tick, cands'[p] # <<>> => cands[p] # <<>>,
             \A a \in Nat : Len(offers'[p]) + Cardinality(NewerNow(p, a))
                              <= Len(offers[p]) + Cardinality(Newer(p, a))
      PROVE  OfferTimed(p, j)'
  <2> DEFINE a == lockAge[j]
  <2>1. lockAge'[j] = a /\ a \in 0 .. MaxRun
    BY <1>0, <1>1, <1>5
  <2>2. Len(offers'[p]) \in Nat /\ Len(offers[p]) \in Nat
    BY StepTypeOK DEF TypeOK
  <2>3. Cardinality(NewerNow(p, a)) \in Nat /\ Cardinality(Newer(p, a)) \in Nat
    BY <1>3, SlotSets
  <2>4. cands'[p] # <<>> => a = 0
    BY <1>0, <1>5
  <2>5. a > 0 => Len(offers[p]) + Cardinality(Newer(p, a)) <= Cardinality(Slots)
    BY <1>0, <1>5
  <2>6. Len(offers'[p]) + Cardinality(NewerNow(p, a)) <= Len(offers[p]) + Cardinality(Newer(p, a))
    BY <1>2, <1>5, <2>1
  <2> HIDE DEF a
  <2>7. a > 0 => Len(offers'[p]) + Cardinality(NewerNow(p, a)) <= Cardinality(Slots)
    BY <1>2, <2>2, <2>3, <2>5, <2>6
  <2> QED
    BY <1>4, <2>1, <2>4, <2>7
<1>6. ASSUME NEW S \in SUBSET Slots, NEW T \in SUBSET S, NEW m \in Nat, NEW n \in Nat, m <= n
      PROVE  m + Cardinality(T) <= n + Cardinality(S)
  <2>1. Cardinality(T) \in Nat /\ Cardinality(S) \in Nat /\ Cardinality(T) <= Cardinality(S)
    BY <1>6, SlotSets
  <2> QED
    BY <2>1, <1>6
<1>7. CASE Still /\ Shrinks /\ ~Tick
  <2>1. Offered(p, j) /\ offers'[p] # <<>>
    BY <1>7 DEF Offered, Shrinks
  <2>2. offers'[p] = offers[p] /\ cands'[p] = cands[p]
    BY <1>7, <2>1 DEF Still
  <2>3. \A a : NewerNow(p, a) \subseteq Newer(p, a)
    BY <1>7 DEF Still, NewerNow, Newer, Busy
  <2>4. Len(offers[p]) \in Nat
    BY DEF TypeOK
  <2>5. \A a \in Nat : Len(offers'[p]) + Cardinality(NewerNow(p, a))
                         <= Len(offers[p]) + Cardinality(Newer(p, a))
    BY <1>3, <1>6, <2>2, <2>3, <2>4
  <2> QED
    BY <1>5, <1>7, <2>1, <2>2, <2>5
<1>8. ASSUME NEW q \in Procs, Poll(q), ~Tick PROVE OfferTimed(p, j)'
  <2>1. /\ offers[q] = <<>> /\ UNCHANGED <<offers, hand, ran>>
        /\ \A r \in Procs \ {q} : cands'[r] = cands[r]
    BY <1>8, PollSteps
  <2>2. Offered(p, j) /\ offers[p] # <<>>
    BY <2>1 DEF Offered
  <2>3. cands'[p] = cands[p] /\ offers'[p] = offers[p]
    BY <2>1, <2>2
  <2>4. \A a : NewerNow(p, a) = Newer(p, a)
    BY <2>1 DEF NewerNow, Newer, Busy
  <2>5. Len(offers[p]) \in Nat
    BY DEF TypeOK
  <2>6. \A a \in Nat : Len(offers'[p]) + Cardinality(NewerNow(p, a))
                         <= Len(offers[p]) + Cardinality(Newer(p, a))
    BY <1>3, <1>6, <2>3, <2>4, <2>5
  <2> QED
    BY <1>5, <1>8, <2>2, <2>3, <2>6
<1>9. ASSUME NEW q \in Procs, ClaimRow(q), ~Tick PROVE OfferTimed(p, j)'
  <2> DEFINE t == Head(cands[q])
  <2>1. /\ cands[q] # <<>> /\ UNCHANGED <<hand, ran>> /\ t \in Task
        /\ cands' = [cands EXCEPT ![q] = Tail(cands[q])]
        /\ offers' \in {offers, [offers EXCEPT ![q] = Append(offers[q], t)]}
    BY <1>9, ClaimSteps
  <2>2. DOMAIN cands = Procs /\ DOMAIN offers = Procs
    BY DEF TypeOK
  <2>3. CASE Offered(p, j) /\ p = q
    <3>1. lockAge[j] = 0 /\ lockAge'[j] = 0
      BY <1>0, <1>1, <1>9, <2>1, <2>3
    <3> QED
      BY <1>2, <1>4, <3>1
  <2>4. CASE Offered(p, j) /\ p # q
    <3> HIDE DEF t
    <3>1. offers'[p] = offers[p] /\ cands'[p] = cands[p]
      BY <2>1, <2>2, <2>4
    <3>2. \A a : NewerNow(p, a) = Newer(p, a)
      BY <2>1 DEF NewerNow, Newer, Busy
    <3>3. Len(offers[p]) \in Nat
      BY DEF TypeOK
    <3>4. \A a \in Nat : Len(offers'[p]) + Cardinality(NewerNow(p, a))
                           <= Len(offers[p]) + Cardinality(Newer(p, a))
      BY <1>3, <1>6, <3>1, <3>2, <3>3
    <3> QED
      BY <1>5, <1>9, <2>4, <3>1, <3>4
  <2>5. CASE ~Offered(p, j)
    <3>1. lockAge'[j] = claimAge[q] /\ claimAge[q] = 0
      BY <1>9, <2>5, ClaimOffers DEF Timing, ClaimsTimed
    <3> QED
      BY <1>2, <1>4, <3>1
  <2> QED
    BY <2>3, <2>4, <2>5
<1>10. ASSUME NEW q \in Procs, NEW s \in Slots, Deliver(q, s), ~Tick PROVE OfferTimed(p, j)'
  <2>1. /\ offers[q] # <<>> /\ offers' = [offers EXCEPT ![q] = Tail(offers[q])]
        /\ cands' = cands /\ ran' = [ran EXCEPT ![q][s] = 0]
        /\ \A r \in Procs, v \in Slots : <<r, v>> # <<q, s>> => hand'[r][v] = hand[r][v]
    BY <1>10, DeliverSteps
  <2>2. /\ offers \in [Procs -> Seq(Task)] /\ ran \in [Procs -> [Slots -> 0 .. MaxRun]]
        /\ Len(offers[p]) \in Nat
    BY DEF TypeOK
  <2>3. Offered(p, j)
    BY <1>10, DeliverOffers
  <2>4. \A r \in Procs, v \in Slots : <<r, v>> # <<q, s>> => ran'[r][v] = ran[r][v]
    BY <2>1, <2>2
  <2>5. CASE p # q
    <3>1. offers'[p] = offers[p]
      BY <2>1, <2>2, <2>5
    <3>2. \A a : NewerNow(p, a) \subseteq Newer(p, a)
      BY <2>1, <2>4, <2>5 DEF NewerNow, Newer, Busy
    <3>3. \A a \in Nat : Len(offers'[p]) + Cardinality(NewerNow(p, a))
                           <= Len(offers[p]) + Cardinality(Newer(p, a))
      <4>1. Len(offers'[p]) \in Nat /\ Len(offers'[p]) <= Len(offers[p])
        BY <2>2, <3>1
      <4> QED
        BY <1>3, <1>6, <2>2, <3>2, <4>1
    <3> QED
      BY <1>5, <1>10, <2>1, <2>3, <3>3
  <2>6. CASE p = q
    <3>1. Len(offers'[p]) = Len(offers[p]) - 1
      BY <2>1, <2>2, <2>6, TailFacts
    <3>2. \A a : NewerNow(p, a) \subseteq Newer(p, a) \cup {s}
      BY <2>1, <2>4, <2>6 DEF NewerNow, Newer, Busy
    <3>3. ASSUME NEW a \in Nat
          PROVE  Len(offers'[p]) + Cardinality(NewerNow(p, a))
                   <= Len(offers[p]) + Cardinality(Newer(p, a))
      <4>1. /\ Cardinality(NewerNow(p, a)) \in Nat /\ Cardinality(Newer(p, a)) \in Nat
            /\ Cardinality(NewerNow(p, a)) <= Cardinality(Newer(p, a)) + 1
        BY <1>3, <3>2, SlotSets
      <4> QED
        BY <2>2, <3>1, <4>1
    <3> QED
      BY <1>5, <1>10, <2>1, <2>3, <3>3
  <2> QED
    BY <2>5, <2>6
<1>11. CASE Tick
  <2> DEFINE a == lockAge[j]
  <2>1. Offered(p, j) /\ offers' = offers /\ cands' = cands /\ hand' = hand
    BY <1>11 DEF Tick, Offered
  <2>2. cands[p] = <<>> /\ \A s \in Slots : Busy(p, s) /\ ran[p][s] < MaxRun
    BY <1>11, <2>1 DEF Tick, MayTick, InTime, Offered
  <2>3. a \in 0 .. MaxRun /\ lockAge'[j] = a + 1
    <3>1. a \in 0 .. StaleAfter
      BY <1>0, <1>2, <2>1
    <3> QED
      BY <1>0, <1>11, <2>1, <3>1 DEF Tick, Older
  <2>4. a > 0 => Len(offers[p]) + Cardinality(Newer(p, a)) <= Cardinality(Slots)
    BY <1>0, <2>1
  <2> HIDE DEF a
  <2>5. /\ Len(offers[p]) \in Nat \ {0} /\ Len(offers[p]) <= Cardinality(Slots)
        /\ \A s \in Slots : ran[p][s] \in 0 .. MaxRun
        /\ Cardinality({}) = 0 /\ Cardinality(Newer(p, a)) \in Nat
    <3>1. offers[p] # <<>> /\ offers[p] \in Seq(Task) /\ Len(cands[p]) = 0
      BY <2>1, <2>2 DEF Offered, TypeOK
    <3>2. Len(cands[p]) + Len(offers[p]) <= Cardinality(Slots)
      BY DEF Timing, ClaimsTimed
    <3>3. Len(offers[p]) \in Nat \ {0}
      BY <3>1
    <3>4. Len(offers[p]) <= Cardinality(Slots)
      <4>1. 0 + Len(offers[p]) <= Cardinality(Slots)
        BY <3>1, <3>2
      <4> QED
        BY <1>2, <3>3, <4>1
    <3> QED
      BY <1>3, <3>3, <3>4, SlotSets, FS_EmptySet, HoldTypes
  <2>6. a = 0 => Newer(p, a) = {}
    BY <2>5 DEF Newer
  <2>7. Len(offers[p]) + Cardinality(Newer(p, a)) <= Cardinality(Slots)
    <3>1. CASE a = 0
      <4>1. Cardinality(Newer(p, a)) = 0
        BY <2>5, <2>6, <3>1
      <4> QED
        BY <1>2, <2>5, <4>1
    <3>2. CASE a > 0
      BY <2>4, <3>2
    <3> QED
      BY <2>3, <3>1, <3>2
  <2>8. a + 1 \in 0 .. MaxRun
    <3>1. PICK s \in Slots : s \notin Newer(p, a)
      <4>1. Newer(p, a) # Slots
        BY <1>2, <2>5, <2>7
      <4> QED
        BY <1>3, <4>1
    <3>2. ran[p][s] >= a /\ ran[p][s] < MaxRun /\ ran[p][s] \in Nat
      BY <2>2, <2>3, <2>5, <3>1 DEF Newer
    <3> QED
      BY <1>2, <2>3, <3>2
  <2>9. NewerNow(p, a + 1) = Newer(p, a)
    <3>1. \A s \in Slots : ran'[p][s] = ran[p][s] + 1
      BY <1>11, <2>2 DEF Tick
    <3>2. \A s \in Slots : ran'[p][s] < a + 1 <=> ran[p][s] < a
      BY <2>3, <2>5, <3>1
    <3> QED
      BY <2>1, <3>2 DEF NewerNow, Newer, Busy
  <2> QED
    BY <1>4, <2>1, <2>2, <2>3, <2>7, <2>8, <2>9
<1> QED
  BY <1>7, <1>8, <1>9, <1>10, <1>11, StillSteps

LEMMA StepHandsTimed ==
  ASSUME InTime, TypeOK, Timing, Owned, Apart, [Next]_vars,
         NEW p \in Procs, NEW s \in Slots, NEW j \in Jobs, Runs(p, s, j)'
  PROVE  lockAge'[j] \in 0 .. MaxRun + ran'[p][s]
<1>0. ran \in [Procs -> [Slots -> 0 .. MaxRun]] /\ ran[p][s] \in 0 .. MaxRun /\ MaxRun \in Nat
  BY JobQueueAssumption DEF TypeOK
<1>1. ASSUME Runs(p, s, j)
      PROVE  lockAge[j] \in 0 .. MaxRun + ran[p][s] /\ (Tick \/ lockAge'[j] = lockAge[j])
  <2>1. status[j] = "running" /\ lockAge[j] \in 0 .. MaxRun + ran[p][s]
    BY <1>1 DEF Owned, NeverReapedMidFlight, Runs, Timing, HandsTimed
  <2>2. ASSUME NEW q \in Procs, NEW r \in Slots, Record(q, r), Runs(q, r, j) PROVE FALSE
    <3>1. <<q, r>> = <<p, s>>
      BY <1>1, <2>2 DEF Apart, NoDoubleRun, Runs
    <3>2. hand'[q][r] = Idle
      BY <2>2 DEF Record, Release, TypeOK
    <3> QED
      BY <3>1, <3>2 DEF Runs, Busy
  <2> QED
    BY <1>1, <2>1, <2>2, HeldStaysRunning
<1>2. CASE Runs(p, s, j) /\ ran'[p][s] = ran[p][s] /\ ~Tick
  BY <1>1, <1>2
<1>3. CASE Still /\ Shrinks /\ ~Tick
  <2>1. Runs(p, s, j) /\ ran'[p][s] = ran[p][s]
    BY <1>3 DEF Still, Shrinks, Runs
  <2> QED
    BY <1>2, <1>3, <2>1
<1>4. ASSUME NEW q \in Procs, Poll(q) \/ ClaimRow(q), ~Tick
      PROVE  lockAge'[j] \in 0 .. MaxRun + ran'[p][s]
  <2>1. UNCHANGED <<hand, ran>>
    BY <1>4, PollSteps, ClaimSteps
  <2> QED
    BY <1>2, <1>4, <2>1 DEF Runs, Busy
<1>5. ASSUME NEW q \in Procs, NEW r \in Slots, Deliver(q, r), ~Tick
      PROVE  lockAge'[j] \in 0 .. MaxRun + ran'[p][s]
  <2>1. ran' = [ran EXCEPT ![q][r] = 0] /\ lockAge' = lockAge
    BY <1>5, DeliverSteps
  <2>2. CASE Runs(p, s, j) /\ <<p, s>> # <<q, r>>
    BY <1>0, <1>2, <1>5, <2>1, <2>2
  <2>3. CASE Offered(q, j) /\ <<p, s>> = <<q, r>>
    <3>1. lockAge[j] \in 0 .. MaxRun
      BY <2>3 DEF Timing, OffersTimed, OfferTimed
    <3> QED
      BY <1>0, <2>1, <2>3, <3>1
  <2> QED
    BY <1>5, <2>2, <2>3, DeliverRuns
<1>6. CASE Tick
  <2>1. Runs(p, s, j)
    BY <1>6 DEF Tick, Runs, Busy
  <2>2. ran[p][s] < MaxRun
    BY <1>6, <2>1 DEF Tick, MayTick, InTime, Runs
  <2>3. ran'[p][s] = ran[p][s] + 1
    BY <1>6, <2>1, <2>2 DEF Tick, Runs
  <2>4. lockAge'[j] = Older(lockAge[j])
    BY <1>6 DEF Tick
  <2>5. lockAge[j] \in 0 .. MaxRun + ran[p][s]
    BY <1>1, <2>1
  <2> QED
    BY <1>0, <2>3, <2>4, <2>5 DEF Older
<1> QED
  BY <1>3, <1>4, <1>5, <1>6, StillSteps

-----------------------------------------------------------------------------
InTimeInv == Owned /\ Apart /\ Timing

LEMMA InTimeInit == Init => InTimeInv
<1> SUFFICES ASSUME Init PROVE InTimeInv
  OBVIOUS
<1>1. \A p \in Procs : /\ cands[p] = <<>> /\ offers[p] = <<>> /\ claimAge[p] = 0
                       /\ \A s \in Slots : ~Busy(p, s)
  BY DEF Init, Busy
<1>2. \A p \in Procs, j \in Jobs : ~Offered(p, j) /\ \A s \in Slots : ~Runs(p, s, j)
  BY <1>1 DEF Offered, Runs
<1>3. ClaimsTimed
  <2>1. Len(<<>>) = 0 /\ Cardinality(Slots) \in Nat
    BY SlotSets
  <2>2. ASSUME NEW p \in Procs PROVE Len(cands[p]) + Len(offers[p]) <= Cardinality(Slots)
    <3>1. Len(cands[p]) = 0 /\ Len(offers[p]) = 0
      BY <1>1, <2>1, Zenon
    <3> QED
      BY <2>1, <3>1
  <2> QED
    BY <1>1, <2>2 DEF ClaimsTimed
<1>4. Timing
  BY <1>2, <1>3 DEF Timing, OffersTimed, HandsTimed
<1>5. Apart
  BY <1>1, <1>2 DEF Apart, OffersApart, OffersNotRun, NoDoubleRun
<1> QED
  BY <1>1, <1>2, <1>4, <1>5 DEF InTimeInv, Owned, OffersOwned, NeverReapedMidFlight

LEMMA InTimeStep ==
  ASSUME InTime, TypeOK, InTimeInv, [Next]_vars
  PROVE  InTimeInv'
<1> USE DEF InTimeInv
<1>1. Apart'
  BY ShrinkSteps, ShrinksApart, ClaimApart, DeliverApart DEF Owned
<1>2. Owned'
  BY ShrinkSteps, ShrinksOwned, ClaimOwned, DeliverOwned
<1>3. OffersTimed'
  BY StepOffersTimed DEF OffersTimed, Offered, OfferTimed, Newer, Busy
<1>4. HandsTimed'
  BY StepHandsTimed DEF HandsTimed, Runs, Busy
<1>5. ClaimsTimed'
  BY StepClaimsTimed
<1>6. Timing'
  BY <1>3, <1>4, <1>5 DEF Timing
<1> QED
  BY <1>1, <1>2, <1>6

LEMMA InTimeAlways == ASSUME InTime PROVE Spec => []InTimeInv
<1>1. TypeOK /\ InTimeInv /\ [Next]_vars => InTimeInv'
  BY InTimeStep
<1> QED
  BY <1>1, InTimeInit, TypeCorrect, PTL DEF Spec

\* When handlers keep to half of staleAfter, the reaper of no process ever takes
\* a row back from a worker that still has it: what config.go says staleAfter is
\* for, whatever the number of processes, workers and jobs, and under crashes and
\* failed statements.
THEOREM ReapsOnlyTheDead == ASSUME InTime PROVE Spec => []NeverReapedMidFlight
<1>1. InTimeInv => NeverReapedMidFlight
  BY DEF InTimeInv, Owned
<1> QED
  BY <1>1, InTimeAlways, PTL

\* Under the same assumption no job is ever in the hands of two workers at once,
\* of one process or of two.
THEOREM RunsOnce == ASSUME InTime PROVE Spec => []NoDoubleRun
<1>1. InTimeInv => NoDoubleRun
  BY DEF InTimeInv, Apart
<1> QED
  BY <1>1, InTimeAlways, PTL

-----------------------------------------------------------------------------
(***************************************************************************)
(* The refinement of JobContract.                                          *)
(***************************************************************************)
phase ==
  [j \in Jobs |-> IF status[j] \in {"pending", "running"} THEN "open" ELSE status[j]]

LEMMA PhaseSet ==
  ASSUME TypeOK, NEW j \in Jobs, NEW v, status' = [status EXCEPT ![j] = v]
  PROVE  phase' = [phase EXCEPT ![j] = IF v \in {"pending", "running"} THEN "open" ELSE v]
BY DEF TypeOK, phase

LEMMA ContractInit == Init => Contract!Init
BY DEF Init, Contract!Init

LEMMA ContractStep ==
  ASSUME TypeOK, InFlightIsBacked, NeverReapedMidFlight, [Next]_vars
  PROVE  [Contract!Next]_(Contract!vars)
<1>1. ASSUME UNCHANGED <<phase, succeeded, errors>> PROVE [Contract!Next]_(Contract!vars)
  BY <1>1 DEF phase, Contract!vars
<1>2. ASSUME UNCHANGED status PROVE phase' = phase
  BY <1>2 DEF phase
<1>3. ASSUME NEW p \in Procs, NEW s \in Slots, Busy(p, s)
      PROVE  LET h == hand[p][s] IN
             /\ h \in Held /\ h.job \in Jobs /\ h.attempts \in 0 .. MaxAttempts - 1
             /\ Backed(h, errors, succeeded)
             /\ phase[h.job] = "open"
  <2>1. hand[p][s] \in Held /\ Backed(hand[p][s], errors, succeeded)
    BY <1>3 DEF TypeOK, Busy, InFlightIsBacked, HandsBacked
  <2>2. status[hand[p][s].job] = "running"
    BY <1>3 DEF NeverReapedMidFlight
  <2> QED
    BY <2>1, <2>2 DEF Held, phase
<1>4. ASSUME NEW j \in Jobs, EnqueueJob(j) PROVE [Contract!Next]_(Contract!vars)
  <2>1. phase[j] = "absent" /\ UNCHANGED <<succeeded, errors>>
    BY <1>4 DEF EnqueueJob, phase, history
  <2>2. phase' = [phase EXCEPT ![j] = "open"]
    BY <1>4, PhaseSet DEF EnqueueJob
  <2>3. Contract!Submit(j)
    BY <2>1, <2>2 DEF Contract!Submit, phase
  <2> QED
    BY <2>3 DEF Contract!Next
<1>5. ASSUME NEW p \in Procs, NEW s \in Slots, HandlerSucceeds(p, s) \/ HandlerErrs(p, s)
      PROVE  [Contract!Next]_(Contract!vars)
  <2> DEFINE j == hand[p][s].job
  <2>1. j \in Jobs /\ j \notin Unhandled /\ phase[j] = "open"
    BY <1>3, <1>5 DEF HandlerSucceeds, HandlerErrs, Executing
  <2>2. \/ succeeded' = succeeded \cup {j} /\ UNCHANGED errors
        \/ /\ errors' = [errors EXCEPT ![j] =
                           IF errors[j] < MaxAttempts THEN errors[j] + 1 ELSE errors[j]]
           /\ UNCHANGED succeeded
    BY <1>5 DEF HandlerSucceeds, HandlerErrs
  <2>3. phase' = phase
    BY <1>2, <1>5 DEF HandlerSucceeds, HandlerErrs, rows
  <2> HIDE DEF j
  <2>4. Contract!Execute(j)
    BY <2>1, <2>2, <2>3 DEF Contract!Execute, phase
  <2> QED
    BY <2>1, <2>4 DEF Contract!Next
<1>6. ASSUME NEW p \in Procs, NEW s \in Slots, Record(p, s) PROVE [Contract!Next]_(Contract!vars)
  <2> DEFINE h == hand[p][s]
             j == h.job
  <2>1. /\ j \in Jobs /\ h.attempts \in 0 .. MaxAttempts - 1
        /\ Backed(h, errors, succeeded) /\ phase[j] = "open"
    BY <1>3, <1>6 DEF Record
  <2>2. UNCHANGED <<succeeded, errors>> /\ WriteOutcome(h)
    BY <1>6 DEF Record, history
  <2>3. CASE h.result = "ok" /\ CompleteJob(j)
    <3>1. j \in succeeded
      BY <2>1, <2>3 DEF Backed
    <3>2. phase' = [phase EXCEPT ![j] = "done"]
      BY <2>1, <2>3, PhaseSet DEF CompleteJob
    <3> HIDE DEF j
    <3>3. Contract!Settle(j, "done")
      BY <2>1, <2>2, <3>1, <3>2 DEF Contract!Settle, phase
    <3> QED
      BY <2>1, <3>3 DEF Contract!Next
  <2>4. CASE /\ h.result = "unregistered" \/ (h.result = "error" /\ h.attempts + 1 >= MaxAttempts)
             /\ FailJob(j)
    <3>1. errors[j] \in 0 .. MaxAttempts /\ MaxAttempts \in Nat
      BY <2>1, JobQueueAssumption DEF TypeOK
    <3>2. j \in Unhandled \/ errors[j] >= MaxAttempts
      BY <2>1, <2>4, <3>1 DEF Backed
    <3>3. phase' = [phase EXCEPT ![j] = "failed"]
      BY <2>1, <2>4, PhaseSet DEF FailJob
    <3> HIDE DEF j
    <3>4. Contract!Settle(j, "failed")
      BY <2>1, <2>2, <3>2, <3>3 DEF Contract!Settle, phase
    <3> QED
      BY <2>1, <3>4 DEF Contract!Next
  <2>5. CASE RetryJob(j, h.attempts + 1, (h.attempts + 1) * (h.attempts + 1))
    <3>1. phase' = [phase EXCEPT ![j] = "open"]
      BY <2>1, <2>5, PhaseSet DEF RetryJob
    <3> HIDE DEF j
    <3>2. phase' = phase
      BY <2>1, <3>1 DEF phase
    <3> QED
      BY <1>1, <2>2, <3>2
  <2> QED
    BY <2>2, <2>3, <2>4, <2>5 DEF WriteOutcome
<1>7. ASSUME UNCHANGED <<succeeded, errors>>, phase' = phase
      PROVE  [Contract!Next]_(Contract!vars)
  BY <1>1, <1>7
<1>8. ASSUME NEW p \in Procs, ClaimRow(p) PROVE phase' = phase
  <2> DEFINE t == Head(cands[p])
  <2>1. /\ t.job \in Jobs
        /\ \/ UNCHANGED status
           \/ status[t.job] = "pending" /\ status' = [status EXCEPT ![t.job] = "running"]
    BY <1>8, ClaimSteps
  <2> HIDE DEF t
  <2>2. CASE status[t.job] = "pending" /\ status' = [status EXCEPT ![t.job] = "running"]
    <3>1. phase' = [phase EXCEPT ![t.job] = "open"]
      BY <2>1, <2>2, PhaseSet
    <3>2. phase[t.job] = "open"
      BY <2>1, <2>2 DEF phase
    <3> QED
      BY <3>1, <3>2 DEF phase
  <2> QED
    BY <1>2, <2>1, <2>2
<1>9. ASSUME ResetStaleJobs PROVE phase' = phase
  BY <1>9 DEF ResetStaleJobs, StaleRows, phase
<1>10. ASSUME Tick \/ UNCHANGED rows PROVE phase' = phase
  BY <1>2, <1>10 DEF Tick, rows
<1> QED
  BY <1>4, <1>5, <1>6, <1>7, <1>8, <1>9, <1>10, RowsFrame, HistoryFrame

\* Under the same assumption the table, the channel and the workers of any number
\* of processes together keep JobContract: an enqueued job stays open until it
\* settles, its handler runs only while it is open, and it settles once.
THEOREM KeepsContract == ASSUME InTime PROVE Spec => ImplementsContract
<1>1. TypeOK /\ InFlightIsBacked /\ NeverReapedMidFlight /\ [Next]_vars
        => [Contract!Next]_(Contract!vars)
  BY ContractStep
<1> QED
  BY <1>1, ContractInit, TypeCorrect, InFlightBacked, ReapsOnlyTheDead, PTL
     DEF Spec, ImplementsContract, Contract!Spec

-----------------------------------------------------------------------------
(***************************************************************************)
(* One process waits for run_after.  What ClaimJobs has selected is still  *)
(* pending and due when its UPDATE comes: nobody holds a pending row, so   *)
(* nobody can send one back to wait.  (A second process can: it may claim, *)
(* run and retry the row between the two statements.)                      *)
(***************************************************************************)
DueRow(st, run, j) == st[j] = "pending" /\ run[j] <= 0

Due ==
  \A p \in Procs :
    /\ \A i, k \in DOMAIN cands[p] : cands[p][i].job = cands[p][k].job => i = k
    /\ \A i \in DOMAIN cands[p] : DueRow(status, runIn, cands[p][i].job)

LEMMA DueStays ==
  ASSUME TypeOK, NeverReapedMidFlight, [Next]_vars, ~Tick, \A p \in Procs : ~ClaimRow(p),
         NEW j \in Jobs, DueRow(status, runIn, j)
  PROVE  DueRow(status', runIn', j)
<1> USE DEF DueRow
<1>0. status \in [Jobs -> Status] /\ DOMAIN runIn = Jobs
  BY DEF TypeOK
<1>1. CASE UNCHANGED rows
  BY <1>1 DEF rows
<1>2. ASSUME NEW k \in Jobs, EnqueueJob(k) PROVE DueRow(status', runIn', j)
  BY <1>0, <1>2 DEF EnqueueJob
<1>3. ASSUME NEW p \in Procs, NEW s \in Slots, Record(p, s) PROVE DueRow(status', runIn', j)
  <2> DEFINE k == hand[p][s].job
  <2>1. k # j
    BY <1>3 DEF NeverReapedMidFlight, Record
  <2>2. \E v : status' = [status EXCEPT ![k] = v]
    BY <1>3 DEF Record, WriteOutcome, CompleteJob, FailJob, RetryJob
  <2>3. \E v : runIn' = runIn \/ runIn' = [runIn EXCEPT ![k] = v]
    BY <1>3 DEF Record, WriteOutcome, CompleteJob, FailJob, RetryJob
  <2> HIDE DEF k
  <2> QED
    BY <1>0, <2>1, <2>2, <2>3
<1>4. CASE ResetStaleJobs
  BY <1>4 DEF ResetStaleJobs, StaleRows
<1> QED
  BY <1>1, <1>2, <1>3, <1>4, RowsFrame

LEMMA PollDue ==
  ASSUME TypeOK, NEW p \in Procs, Poll(p)
  PROVE  /\ \A i, k \in DOMAIN cands'[p] : cands'[p][i].job = cands'[p][k].job => i = k
         /\ \A i \in DOMAIN cands'[p] : DueRow(status', runIn', cands'[p][i].job)
<1>1. PICK b \in [1 .. BatchSize -> Runnable] :
        /\ IsOldest(b)
        /\ cands' = [cands EXCEPT ![p] =
             [i \in 1 .. BatchSize |-> [job |-> b[i], attempts |-> attempts[b[i]]]]]
  BY DEF Poll
<1>2. \A i, k \in 1 .. BatchSize : b[i] = b[k] => i = k
  BY <1>1 DEF IsOldest, IsInjective
<1>3. \A i \in 1 .. BatchSize : DueRow(status, runIn, b[i])
  BY DEF Runnable, DueRow
<1>4. cands'[p] = [i \in 1 .. BatchSize |-> [job |-> b[i], attempts |-> attempts[b[i]]]]
  BY <1>1 DEF TypeOK
<1>5. status' = status /\ runIn' = runIn
  BY DEF Poll, rows
<1> QED
  BY <1>2, <1>3, <1>4, <1>5

LEMMA StepDue ==
  ASSUME InTime, NEW p \in Procs, Procs = {p}, TypeOK, NeverReapedMidFlight, Due, [Next]_vars
  PROVE  Due'
<1> DEFINE Jobs1 == \A i, k \in DOMAIN cands'[p] : cands'[p][i].job = cands'[p][k].job => i = k
           Due1 == \A i \in DOMAIN cands'[p] : DueRow(status', runIn', cands'[p][i].job)
<1>1. SUFFICES Jobs1 /\ Due1
  BY DEF Due, DueRow
<1>2. /\ \A i, k \in DOMAIN cands[p] : cands[p][i].job = cands[p][k].job => i = k
      /\ \A i \in DOMAIN cands[p] : DueRow(status, runIn, cands[p][i].job)
      /\ \A i \in DOMAIN cands[p] : cands[p][i].job \in Jobs
  <2>1. \A i \in DOMAIN cands[p] : cands[p][i] \in Task
    BY DEF TypeOK
  <2> QED
    BY <2>1 DEF Due, Task
<1>3. CASE cands'[p] = <<>>
  BY <1>3
<1>4. ASSUME cands'[p] = cands[p], ~Tick, ~ClaimRow(p) PROVE Jobs1 /\ Due1
  <2>1. \A i \in DOMAIN cands[p] : DueRow(status', runIn', cands[p][i].job)
    BY <1>2, <1>4, DueStays
  <2> QED
    BY <1>2, <1>4, <2>1
<1>5. CASE Tick
  BY <1>3, <1>5 DEF Tick, MayTick, InTime
<1>6. CASE Poll(p)
  BY <1>6, PollDue
<1>7. CASE ClaimRow(p)
  <2> DEFINE t == Head(cands[p])
  <2>1. /\ cands[p] # <<>> /\ cands[p] \in Seq(Task)
        /\ cands' = [cands EXCEPT ![p] = Tail(cands[p])] /\ DOMAIN cands = Procs
        /\ status' = status \/ status' = [status EXCEPT ![t.job] = "running"]
        /\ runIn' = runIn /\ DOMAIN status = Jobs
    BY <1>7, ClaimSteps DEF TypeOK
  <2>2. /\ t = cands[p][1] /\ 1 \in DOMAIN cands[p]
        /\ \A i \in DOMAIN cands'[p] :
             i \in Nat \ {0} /\ i + 1 \in DOMAIN cands[p] /\ cands'[p][i] = cands[p][i + 1]
    <3>1. cands'[p] = Tail(cands[p])
      BY <2>1
    <3> QED
      BY <2>1, <3>1, TailFacts
  <2> HIDE DEF t
  <2>3. ASSUME NEW i \in DOMAIN cands'[p]
        PROVE  cands'[p][i].job # t.job /\ DueRow(status, runIn, cands'[p][i].job)
                 /\ cands'[p][i].job \in Jobs
    <3>1. i + 1 # 1
      BY <2>2
    <3> QED
      BY <1>2, <2>2, <3>1
  <2>4. Due1
    BY <2>1, <2>3 DEF DueRow
  <2>5. Jobs1
    <3> SUFFICES ASSUME NEW i \in DOMAIN cands'[p], NEW k \in DOMAIN cands'[p],
                        cands'[p][i].job = cands'[p][k].job
                 PROVE  i = k
      OBVIOUS
    <3>1. i + 1 = k + 1
      BY <1>2, <2>2
    <3> QED
      BY <2>2, <3>1
  <2> QED
    BY <2>4, <2>5
<1>8. ASSUME NEW s \in Slots, Deliver(p, s), ~Tick, ~ClaimRow(p) PROVE Jobs1 /\ Due1
  BY <1>4, <1>8, DeliverSteps
<1>9. CASE Still /\ ~Tick /\ ~ClaimRow(p)
  BY <1>3, <1>4, <1>9 DEF Still
<1> QED
  BY <1>5, <1>6, <1>7, <1>8, <1>9, StillSteps

\* A single process that keeps to its time never runs a job before its run_after:
\* a retried job always waits out its backoff.
THEOREM WaitsForBackoff ==
  ASSUME InTime, NEW p \in Procs, Procs = {p}
  PROVE  Spec => OnlyRunnableClaimed
<1> DEFINE Claimed == \A j \in Jobs :
             (status[j] = "pending" /\ status'[j] = "running") => runIn[j] <= 0
<1>1. Init => Due
  BY DEF Init, Due
<1>2. TypeOK /\ NeverReapedMidFlight /\ Due /\ [Next]_vars => Due'
  BY StepDue
<1>3. TypeOK /\ NeverReapedMidFlight /\ Due /\ [Next]_vars => [Claimed]_vars
  <2> SUFFICES ASSUME TypeOK, NeverReapedMidFlight, Due, [Next]_vars,
                      NEW j \in Jobs, status[j] = "pending", status'[j] = "running"
               PROVE  runIn[j] <= 0
    OBVIOUS
  <2>0. status \in [Jobs -> Status]
    BY DEF TypeOK
  <2>1. CASE ClaimRow(p)
    <3> DEFINE t == Head(cands[p])
    <3>1. /\ cands[p] # <<>> /\ cands[p] \in Seq(Task)
          /\ status' = status \/ status' = [status EXCEPT ![t.job] = "running"]
      BY <2>1, ClaimSteps DEF TypeOK
    <3>2. t = cands[p][1] /\ 1 \in DOMAIN cands[p]
      BY <3>1, TailFacts
    <3> HIDE DEF t
    <3>3. runIn[t.job] <= 0
      BY <3>2 DEF Due, DueRow
    <3>4. j = t.job
      BY <2>0, <3>1
    <3> QED
      BY <3>3, <3>4
  <2>2. CASE UNCHANGED rows \/ Tick
    BY <2>2 DEF rows, Tick
  <2>3. ASSUME NEW k \in Jobs, EnqueueJob(k) PROVE FALSE
    BY <2>0, <2>3 DEF EnqueueJob
  <2>4. ASSUME NEW s \in Slots, Record(p, s) PROVE FALSE
    <3> DEFINE k == hand[p][s].job
    <3>1. \E v \in {"done", "failed", "pending"} : status' = [status EXCEPT ![k] = v]
      BY <2>4 DEF Record, WriteOutcome, CompleteJob, FailJob, RetryJob
    <3> HIDE DEF k
    <3> QED
      BY <2>0, <3>1
  <2>5. CASE ResetStaleJobs
    BY <2>5 DEF ResetStaleJobs
  <2> QED
    BY <2>1, <2>2, <2>3, <2>4, <2>5, RowsFrame
<1> QED
  BY <1>1, <1>2, <1>3, TypeCorrect, ReapsOnlyTheDead, PTL DEF Spec, OnlyRunnableClaimed
==============================================================================
