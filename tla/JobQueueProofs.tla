--------------------------- MODULE JobQueueProofs ---------------------------
(***************************************************************************)
(* What holds of JobQueue for every set of jobs, processes and workers,    *)
(* every maxAttempts and staleAfter, with or without the timing            *)
(* assumption, and under every fault.                                      *)
(*                                                                         *)
(* TypeOK is inductive on its own.  SettledHonestly is not: that a failed  *)
(* job has used up its attempts rests on where the attempt count           *)
(* travelled: from the row into the candidate, the channel and the         *)
(* worker's hand, while other writers change the row (InFlightIsBacked).   *)
(***************************************************************************)
EXTENDS JobQueue, FiniteSetTheorems, TLAPS

USE JobQueueAssumption

LEMMA SquareBound ==
  ASSUME NEW m \in Nat, NEW n \in 0 .. m
  PROVE  n * n \in 0 .. m * m
<1>1. n * n <= n * m
  BY SMT
<1>2. n * m <= m * m
  BY SMT
<1>3. n * n >= 0
  BY SMT
<1> QED
  BY <1>1, <1>2, <1>3, SMT

LEMMA Bounds ==
  /\ MaxBackoff \in Nat
  /\ PastStale \in Nat
  /\ \A n \in 1 .. MaxAttempts - 1 : n * n \in 0 .. MaxBackoff
<1>1. MaxAttempts - 1 \in Nat
  OBVIOUS
<1>2. \A n \in 1 .. MaxAttempts - 1 : n * n \in 0 .. MaxBackoff
  BY <1>1, SquareBound DEF MaxBackoff
<1>3. MaxBackoff \in Nat
  BY <1>1, SMT DEF MaxBackoff
<1> QED
  BY <1>2, <1>3 DEF PastStale

LEMMA BatchSizeType == BatchSize \in Nat
<1>1. IsFiniteSet(Runnable)
  BY FS_Subset DEF Runnable
<1>2. Cardinality(Runnable) \in Nat /\ Cardinality(Slots) \in Nat
  BY <1>1, FS_CardinalityType
<1> QED
  BY <1>2 DEF BatchSize

LEMMA HeadIsTask ==
  ASSUME NEW b \in Seq(Task), b # <<>>
  PROVE  /\ Head(b) \in Task
         /\ Head(b).job \in Jobs
         /\ Tail(b) \in Seq(Task)
<1>1. Head(b) \in Task /\ Tail(b) \in Seq(Task)
  OBVIOUS
<1> QED
  BY <1>1 DEF Task

LEMMA InitTypeOK == Init => TypeOK
<1> SUFFICES ASSUME Init PROVE TypeOK
  OBVIOUS
<1>1. 0 \in -MaxLag .. MaxBackoff /\ NotLocked \in NotLocked .. PastStale
      /\ 0 \in 0 .. PastStale /\ 0 \in 0 .. MaxAttempts - 1
  BY Bounds DEF NotLocked
<1>2. <<>> \in Seq(Task)
  OBVIOUS
<1> QED
  BY <1>1, <1>2 DEF Init, TypeOK, Status

LEMMA WriteOutcomeType ==
  ASSUME TypeOK, NEW t \in Held, WriteOutcome(t)
  PROVE  /\ status' \in [Jobs -> Status]
         /\ attempts' \in [Jobs -> 0 .. MaxAttempts - 1]
         /\ runIn' \in [Jobs -> -MaxLag .. MaxBackoff]
         /\ lockAge' \in [Jobs -> NotLocked .. PastStale]
<1> USE DEF TypeOK, Held, Status
<1> DEFINE n == t.attempts + 1
<1>1. NotLocked \in NotLocked .. PastStale
  BY Bounds DEF NotLocked
<1>2. CASE CompleteJob(t.job)
  BY <1>1, <1>2 DEF CompleteJob
<1>3. CASE FailJob(t.job)
  BY <1>1, <1>3 DEF FailJob
<1>4. CASE n < MaxAttempts /\ RetryJob(t.job, n, n * n)
  <2>1. n \in 1 .. MaxAttempts - 1
    BY <1>4
  <2> HIDE DEF n
  <2>2. n * n \in 0 .. MaxBackoff
    BY <2>1, Bounds
  <2>3. \A k \in 0 .. MaxBackoff : k \in -MaxLag .. MaxBackoff
    BY Bounds
  <2>4. n * n \in -MaxLag .. MaxBackoff
    BY <2>2, <2>3
  <2> QED
    BY <1>1, <1>4, <2>1, <2>4 DEF RetryJob
<1> QED
  BY <1>2, <1>3, <1>4 DEF WriteOutcome

LEMMA ResetType ==
  ASSUME TypeOK, ResetStaleJobs
  PROVE  /\ status' \in [Jobs -> Status]
         /\ attempts' \in [Jobs -> 0 .. MaxAttempts - 1]
         /\ runIn' \in [Jobs -> -MaxLag .. MaxBackoff]
         /\ lockAge' \in [Jobs -> NotLocked .. PastStale]
BY Bounds DEF TypeOK, ResetStaleJobs, Status, NotLocked

LEMMA StepTypeOK == TypeOK /\ [Next]_vars => TypeOK'
<1> SUFFICES ASSUME TypeOK, [Next]_vars PROVE TypeOK'
  OBVIOUS
<1> USE DEF rows, poller, workers, history
<1>1. ASSUME NEW j \in Jobs, EnqueueJob(j) PROVE TypeOK'
  BY <1>1, Bounds DEF TypeOK, EnqueueJob, Status
<1>2. CASE Tick
  <2>1. runIn' \in [Jobs -> -MaxLag .. MaxBackoff]
    BY <1>2, Bounds DEF TypeOK, Tick
  <2>2. \A age \in NotLocked .. PastStale :
          /\ Older(age) \in NotLocked .. PastStale
          /\ age >= 0 => Older(age) \in 0 .. PastStale
    BY DEF Older, NotLocked, PastStale
  <2>3. lockAge' \in [Jobs -> NotLocked .. PastStale]
    BY <1>2, <2>2 DEF TypeOK, Tick
  <2>4. claimAge' \in [Procs -> 0 .. PastStale]
    <3>1. \A p \in Procs : claimAge[p] \in NotLocked .. PastStale /\ claimAge[p] >= 0
      BY Bounds DEF TypeOK, NotLocked
    <3> QED
      BY <1>2, <2>2, <3>1, Bounds DEF TypeOK, Tick
  <2>5. ran' \in [Procs -> [Slots -> 0 .. MaxRun]]
    BY <1>2 DEF TypeOK, Tick
  <2> QED
    BY <1>2, <2>1, <2>3, <2>4, <2>5 DEF TypeOK, Tick
<1>3. ASSUME NEW p \in Procs, Poll(p) PROVE TypeOK'
  <2>1. PICK b \in [1 .. BatchSize -> Runnable] :
          cands' = [cands EXCEPT ![p] =
            [i \in 1 .. BatchSize |-> [job |-> b[i], attempts |-> attempts[b[i]]]]]
    BY <1>3 DEF Poll
  <2> DEFINE batch == [i \in 1 .. BatchSize |-> [job |-> b[i], attempts |-> attempts[b[i]]]]
  <2>2. batch \in [1 .. BatchSize -> Task]
    BY DEF TypeOK, Task, Runnable
  <2>3. batch \in Seq(Task)
    BY <2>2, BatchSizeType
  <2> HIDE DEF batch
  <2>4. cands' \in [Procs -> Seq(Task)]
    BY <2>1, <2>3 DEF TypeOK, batch
  <2>5. claimAge' \in [Procs -> 0 .. PastStale]
    BY <1>3, Bounds DEF TypeOK, Poll
  <2> QED
    BY <1>3, <2>4, <2>5 DEF TypeOK, Poll
<1>4. ASSUME NEW p \in Procs, ClaimRow(p) PROVE TypeOK'
  <2> DEFINE t == Head(cands[p])
  <2>1. t \in Task /\ Tail(cands[p]) \in Seq(Task)
    BY <1>4 DEF TypeOK, ClaimRow
  <2>2. t.job \in Jobs
    BY <2>1 DEF Task
  <2>3. claimAge[p] \in NotLocked .. PastStale
    BY Bounds DEF TypeOK, NotLocked
  <2>4. Append(offers[p], t) \in Seq(Task)
    BY <2>1 DEF TypeOK
  <2>5. cands' \in [Procs -> Seq(Task)]
    BY <1>4, <2>1 DEF TypeOK, ClaimRow
  <2>6. CASE /\ status' = [status EXCEPT ![t.job] = "running"]
             /\ lockAge' = [lockAge EXCEPT ![t.job] = claimAge[p]]
             /\ offers' = [offers EXCEPT ![p] = Append(@, t)]
    <3> HIDE DEF t
    <3>1. offers' \in [Procs -> Seq(Task)]
      BY <2>4, <2>6 DEF TypeOK
    <3>2. status' \in [Jobs -> Status] /\ lockAge' \in [Jobs -> NotLocked .. PastStale]
      BY <2>2, <2>3, <2>6 DEF TypeOK, Status
    <3> QED
      BY <1>4, <2>5, <3>1, <3>2 DEF TypeOK, ClaimRow
  <2>7. CASE UNCHANGED <<status, lockAge, offers>>
    BY <1>4, <2>5, <2>7 DEF TypeOK, ClaimRow
  <2> QED
    BY <1>4, <2>6, <2>7 DEF ClaimRow
<1>5. ASSUME NEW p \in Procs, ClaimError(p) PROVE TypeOK'
  BY <1>5 DEF TypeOK, ClaimError
<1>6. ASSUME NEW p \in Procs, NEW s \in Slots, Deliver(p, s) PROVE TypeOK'
  <2> DEFINE t == Head(offers[p])
             h == [job |-> t.job, attempts |-> t.attempts, result |-> "running"]
  <2>1. t \in Task /\ Tail(offers[p]) \in Seq(Task)
    BY <1>6 DEF TypeOK, Deliver
  <2>2. h \in Held
    BY <2>1 DEF Task, Held
  <2>3. hand' = [hand EXCEPT ![p][s] = h]
    BY <1>6 DEF Deliver
  <2> HIDE DEF h
  <2>4. hand' \in [Procs -> [Slots -> Held \cup {Idle}]]
    BY <2>2, <2>3 DEF TypeOK
  <2>5. offers' \in [Procs -> Seq(Task)]
    BY <1>6, <2>1 DEF TypeOK, Deliver
  <2>6. ran' \in [Procs -> [Slots -> 0 .. MaxRun]]
    BY <1>6 DEF TypeOK, Deliver
  <2> QED
    BY <1>6, <2>4, <2>5, <2>6 DEF TypeOK, Deliver
<1>7. ASSUME NEW p \in Procs, NEW s \in Slots, Busy(p, s),
             NEW r \in {"ok", "error", "unregistered"},
             hand' = [hand EXCEPT ![p][s].result = r]
      PROVE  hand' \in [Procs -> [Slots -> Held \cup {Idle}]]
  <2>1. hand[p][s] \in Held
    BY <1>7 DEF TypeOK, Busy
  <2>2. [hand[p][s] EXCEPT !.result = r] \in Held
    BY <2>1 DEF Held
  <2> QED
    BY <1>7, <2>2 DEF TypeOK
<1>8. ASSUME NEW p \in Procs, NEW s \in Slots, HandlerSucceeds(p, s) PROVE TypeOK'
  <2>1. hand' \in [Procs -> [Slots -> Held \cup {Idle}]]
    BY <1>7, <1>8 DEF HandlerSucceeds, Executing
  <2>2. hand[p][s].job \in Jobs
    BY <1>8 DEF TypeOK, HandlerSucceeds, Executing, Busy, Held
  <2> QED
    BY <1>8, <2>1, <2>2 DEF TypeOK, HandlerSucceeds
<1>9. ASSUME NEW p \in Procs, NEW s \in Slots, HandlerErrs(p, s) PROVE TypeOK'
  <2>1. hand' \in [Procs -> [Slots -> Held \cup {Idle}]]
    BY <1>7, <1>9 DEF HandlerErrs, Executing
  <2>2. \A e \in 0 .. MaxAttempts :
          (IF e < MaxAttempts THEN e + 1 ELSE e) \in 0 .. MaxAttempts
    OBVIOUS
  <2>3. errors' \in [Jobs -> 0 .. MaxAttempts]
    <3> DEFINE job == hand[p][s].job
    <3>1. job \in Jobs
      BY <1>9 DEF TypeOK, HandlerErrs, Executing, Busy, Held
    <3>2. errors' = [errors EXCEPT ![job] =
                       IF errors[job] < MaxAttempts THEN errors[job] + 1 ELSE errors[job]]
      BY <1>9 DEF HandlerErrs
    <3> HIDE DEF job
    <3> QED
      BY <2>2, <3>1, <3>2 DEF TypeOK
  <2> QED
    BY <1>9, <2>1, <2>3 DEF TypeOK, HandlerErrs
<1>10. ASSUME NEW p \in Procs, NEW s \in Slots, NoHandler(p, s) PROVE TypeOK'
  <2>1. hand' \in [Procs -> [Slots -> Held \cup {Idle}]]
    BY <1>7, <1>10 DEF NoHandler, Executing
  <2> QED
    BY <1>10, <2>1 DEF TypeOK, NoHandler
<1>11. ASSUME NEW p \in Procs, NEW s \in Slots, Release(p, s)
       PROVE  /\ hand' \in [Procs -> [Slots -> Held \cup {Idle}]]
              /\ ran' \in [Procs -> [Slots -> 0 .. MaxRun]]
  BY <1>11 DEF TypeOK, Release
<1>12. ASSUME NEW p \in Procs, NEW s \in Slots, Record(p, s) PROVE TypeOK'
  <2>1. hand[p][s] \in Held
    BY <1>12 DEF TypeOK, Record, Busy
  <2> QED
    BY <1>11, <1>12, <2>1, WriteOutcomeType DEF TypeOK, Record
<1>13. ASSUME NEW p \in Procs, NEW s \in Slots, RecordFails(p, s) PROVE TypeOK'
  BY <1>11, <1>13 DEF TypeOK, RecordFails
<1>14. ASSUME NEW p \in Procs, Reap(p) PROVE TypeOK'
  BY <1>14, ResetType DEF TypeOK, Reap
<1>15. ASSUME NEW p \in Procs, Start(p) PROVE TypeOK'
  BY <1>15, ResetType DEF TypeOK, Start
<1>16. ASSUME NEW p \in Procs, Crash(p) PROVE TypeOK'
  BY <1>16, Bounds DEF TypeOK, Crash
<1>17. CASE UNCHANGED vars
  BY <1>17 DEF TypeOK, vars
<1> QED
  BY <1>1, <1>2, <1>3, <1>4, <1>5, <1>6, <1>8, <1>9, <1>10, <1>12, <1>13, <1>14,
     <1>15, <1>16, <1>17 DEF Next, PollerStep, WorkerStep, Fault

\* The type invariant of the job system holds in every reachable state: in
\* particular no attempt count ever reaches maxAttempts in the table, where
\* run() marks the job failed instead.
THEOREM TypeCorrect == Spec => []TypeOK
<1> QED
  BY InitTypeOK, StepTypeOK, PTL DEF Spec

-----------------------------------------------------------------------------
(***************************************************************************)
(* Which steps change what.                                                *)
(***************************************************************************)
WorkerMoves(p, s) ==
  \/ Deliver(p, s) \/ HandlerSucceeds(p, s) \/ HandlerErrs(p, s) \/ NoHandler(p, s)
  \/ Record(p, s) \/ RecordFails(p, s)

ProcMoves(p) == Poll(p) \/ ClaimRow(p) \/ ClaimError(p) \/ Reap(p) \/ Start(p) \/ Crash(p)

LEMMA Steps ==
  ASSUME [Next]_vars
  PROVE  \/ \E j \in Jobs : EnqueueJob(j)
         \/ Tick
         \/ \E p \in Procs : ProcMoves(p)
         \/ \E p \in Procs, s \in Slots : WorkerMoves(p, s)
         \/ UNCHANGED vars
BY DEF Next, PollerStep, WorkerStep, Fault, WorkerMoves, ProcMoves

LEMMA RowsFrame ==
  ASSUME [Next]_vars
  PROVE  \/ UNCHANGED rows
         \/ \E j \in Jobs : EnqueueJob(j)
         \/ Tick
         \/ \E p \in Procs : ClaimRow(p)
         \/ \E p \in Procs, s \in Slots : Record(p, s)
         \/ ResetStaleJobs
<1>1. ASSUME NEW p \in Procs, ProcMoves(p), ~ClaimRow(p) PROVE UNCHANGED rows \/ ResetStaleJobs
  BY <1>1 DEF ProcMoves, Poll, ClaimError, Reap, Start, Crash
<1>2. ASSUME NEW p \in Procs, NEW s \in Slots, WorkerMoves(p, s), ~Record(p, s)
      PROVE  UNCHANGED rows
  BY <1>2 DEF WorkerMoves, Deliver, HandlerSucceeds, HandlerErrs, NoHandler, RecordFails
<1>3. UNCHANGED vars => UNCHANGED rows
  BY DEF vars
<1> QED
  BY <1>1, <1>2, <1>3, Steps

LEMMA HistoryFrame ==
  ASSUME [Next]_vars
  PROVE  \/ UNCHANGED <<succeeded, errors>>
         \/ \E p \in Procs, s \in Slots : HandlerSucceeds(p, s) \/ HandlerErrs(p, s)
<1>1. ASSUME NEW p \in Procs, ProcMoves(p) PROVE UNCHANGED history
  BY <1>1 DEF ProcMoves, Poll, ClaimRow, ClaimError, Reap, Start, Crash
<1>2. ASSUME NEW p \in Procs, NEW s \in Slots, WorkerMoves(p, s), ~HandlerSucceeds(p, s),
             ~HandlerErrs(p, s)
      PROVE  UNCHANGED history
  BY <1>2 DEF WorkerMoves, Deliver, NoHandler, Record, RecordFails
<1>3. ASSUME UNCHANGED vars \/ Tick \/ \E j \in Jobs : EnqueueJob(j) PROVE UNCHANGED history
  BY <1>3 DEF vars, Tick, EnqueueJob
<1> QED
  BY <1>1, <1>2, <1>3, Steps DEF history

LEMMA HandFrame ==
  ASSUME [Next]_vars
  PROVE  \/ UNCHANGED hand
         \/ \E p \in Procs, s \in Slots : WorkerMoves(p, s)
         \/ \E p \in Procs : Crash(p)
<1>1. ASSUME NEW p \in Procs, ProcMoves(p), ~Crash(p) PROVE UNCHANGED workers
  BY <1>1 DEF ProcMoves, Poll, ClaimRow, ClaimError, Reap, Start
<1>2. ASSUME UNCHANGED vars \/ \E j \in Jobs : EnqueueJob(j) PROVE UNCHANGED workers
  BY <1>2 DEF vars, EnqueueJob
<1>3. Tick => UNCHANGED hand
  BY DEF Tick
<1> QED
  BY <1>1, <1>2, <1>3, Steps DEF workers

-----------------------------------------------------------------------------
\* A running row always carries the lock that lets the reaper find it, and no
\* other row does: whatever crashes, no work is stranded out of its reach.
THEOREM RunningRowsRecoverable == Spec => []RunningIsRecoverable
<1>1. Init => RunningIsRecoverable
  BY DEF Init, RunningIsRecoverable
<1>2. TypeOK /\ RunningIsRecoverable /\ [Next]_vars => RunningIsRecoverable'
  <2> SUFFICES ASSUME TypeOK, RunningIsRecoverable, [Next]_vars
               PROVE  RunningIsRecoverable'
    OBVIOUS
  <2> USE DEF RunningIsRecoverable
  <2>1. CASE UNCHANGED <<status, lockAge>>
    BY <2>1
  <2>2. ASSUME NEW j \in Jobs, EnqueueJob(j) PROVE RunningIsRecoverable'
    BY <2>2 DEF TypeOK, EnqueueJob
  <2>3. CASE Tick
    <3>1. \A age \in NotLocked .. PastStale : Older(age) = NotLocked <=> age = NotLocked
      BY DEF Older, NotLocked, PastStale
    <3> QED
      BY <2>3, <3>1 DEF TypeOK, Tick
  <2>4. ASSUME NEW p \in Procs, ClaimRow(p) PROVE RunningIsRecoverable'
    <3> DEFINE t == Head(cands[p])
    <3>1. t.job \in Jobs
      BY <2>4, HeadIsTask DEF TypeOK, ClaimRow
    <3>2. claimAge[p] # NotLocked
      BY Bounds DEF TypeOK, NotLocked
    <3>3. CASE /\ status' = [status EXCEPT ![t.job] = "running"]
               /\ lockAge' = [lockAge EXCEPT ![t.job] = claimAge[p]]
      <4> HIDE DEF t
      <4> QED
        BY <3>1, <3>2, <3>3 DEF TypeOK
    <3> QED
      BY <2>1, <2>4, <3>3 DEF ClaimRow
  <2>5. ASSUME NEW t \in Held, WriteOutcome(t) PROVE RunningIsRecoverable'
    <3>1. t.job \in Jobs
      BY DEF Held
    <3>2. /\ status' = [status EXCEPT ![t.job] = "done"]
             \/ status' = [status EXCEPT ![t.job] = "failed"]
             \/ status' = [status EXCEPT ![t.job] = "pending"]
          /\ lockAge' = [lockAge EXCEPT ![t.job] = NotLocked]
      BY <2>5 DEF WriteOutcome, CompleteJob, FailJob, RetryJob
    <3>3. status \in [Jobs -> Status] /\ lockAge \in [Jobs -> NotLocked .. PastStale]
      BY DEF TypeOK
    <3>4. status'[t.job] # "running" /\ lockAge'[t.job] = NotLocked
      BY <3>1, <3>2, <3>3
    <3>5. \A j \in Jobs \ {t.job} : status'[j] = status[j] /\ lockAge'[j] = lockAge[j]
      BY <3>2, <3>3
    <3> QED
      BY <3>4, <3>5
  <2>6. ASSUME NEW p \in Procs, NEW s \in Slots, Record(p, s) PROVE RunningIsRecoverable'
    BY <2>5, <2>6 DEF TypeOK, Record, Busy
  <2>7. CASE ResetStaleJobs
    BY <2>7 DEF TypeOK, ResetStaleJobs, StaleRows
  <2> QED
    BY <2>1, <2>2, <2>3, <2>4, <2>6, <2>7, RowsFrame DEF rows
<1> QED
  BY <1>1, <1>2, TypeCorrect, PTL DEF Spec

-----------------------------------------------------------------------------
\* No step forgets an error a handler has returned.
LEMMA ErrorsGrow ==
  ASSUME TypeOK, [Next]_vars, NEW j \in Jobs
  PROVE  errors[j] <= errors'[j]
<1>1. CASE UNCHANGED errors
  BY <1>1 DEF TypeOK
<1>2. ASSUME NEW p \in Procs, NEW s \in Slots, HandlerErrs(p, s)
      PROVE  errors[j] <= errors'[j]
  <2> DEFINE job == hand[p][s].job
  <2>1. errors' = [errors EXCEPT ![job] =
                     IF errors[job] < MaxAttempts THEN errors[job] + 1 ELSE errors[job]]
    BY <1>2 DEF HandlerErrs
  <2> HIDE DEF job
  <2> QED
    BY <2>1 DEF TypeOK
<1> QED
  BY <1>1, <1>2, HistoryFrame DEF HandlerSucceeds

\* errors only grows, so an attempt count that errors accounts for stays so.
LEMMA CountKept ==
  ASSUME TypeOK, [Next]_vars, NEW j \in Jobs, NEW n \in Nat, n <= errors[j]
  PROVE  n <= errors'[j]
<1>1. errors[j] \in Int /\ errors'[j] \in Int
  BY StepTypeOK DEF TypeOK
<1> QED
  BY <1>1, ErrorsGrow

\* An accounted batch stays accounted when it is kept, shortened or extended.
LEMMA BatchKept ==
  ASSUME TypeOK, [Next]_vars, NEW b \in Seq(Task), Accounted(b, errors)
  PROVE  /\ Accounted(b, errors')
         /\ b # <<>> => Accounted(Tail(b), errors')
         /\ \A t \in Task :
              t.attempts <= errors[t.job] => Accounted(Append(b, t), errors')
<1>1. ASSUME NEW t \in Task, t.attempts <= errors[t.job]
      PROVE  t.attempts <= errors'[t.job]
  <2>1. t.job \in Jobs /\ t.attempts \in Nat
    BY DEF Task
  <2> QED
    BY <1>1, <2>1, CountKept
<1>2. \A i \in 1 .. Len(b) : b[i] \in Task /\ b[i].attempts <= errors[b[i].job]
  BY DEF Accounted
<1>3. \A i \in 1 .. Len(b) : b[i].attempts <= errors'[b[i].job]
  BY <1>1, <1>2
<1>4. Accounted(b, errors')
  BY <1>3 DEF Accounted
<1>5. ASSUME b # <<>> PROVE Accounted(Tail(b), errors')
  <2>1. \A i \in DOMAIN Tail(b) : i + 1 \in 1 .. Len(b) /\ Tail(b)[i] = b[i + 1]
    BY <1>5
  <2> QED
    BY <1>3, <2>1 DEF Accounted
<1>6. ASSUME NEW t \in Task, t.attempts <= errors[t.job]
      PROVE  Accounted(Append(b, t), errors')
  <2>1. \A i \in DOMAIN Append(b, t) :
          \/ i \in 1 .. Len(b) /\ Append(b, t)[i] = b[i]
          \/ Append(b, t)[i] = t
    OBVIOUS
  <2>2. t.attempts <= errors'[t.job]
    BY <1>1, <1>6
  <2> DEFINE c == Append(b, t)
  <2> HIDE DEF c
  <2>3. \A i \in DOMAIN c : c[i].attempts <= errors'[c[i].job]
    BY <1>3, <2>1, <2>2 DEF c
  <2> QED
    BY <2>3 DEF Accounted, c
<1> QED
  BY <1>4, <1>5, <1>6

LEMMA HandKept ==
  ASSUME TypeOK, [Next]_vars, NEW h \in Held, Backed(h, errors, succeeded)
  PROVE  Backed(h, errors', succeeded')
<1>1. h.job \in Jobs /\ h.attempts \in Nat /\ h.attempts + 1 \in Nat
  BY DEF Held
<1>2. h.attempts <= errors'[h.job]
  BY <1>1, CountKept DEF Backed
<1>3. ASSUME h.result = "error" PROVE h.attempts < errors'[h.job]
  <2>1. errors \in [Jobs -> 0 .. MaxAttempts] /\ errors' \in [Jobs -> 0 .. MaxAttempts]
    BY StepTypeOK DEF TypeOK
  <2>2. errors[h.job] \in Int /\ errors'[h.job] \in Int
    BY <1>1, <2>1
  <2>3. h.attempts < errors[h.job]
    BY <1>3 DEF Backed
  <2>4. h.attempts + 1 <= errors[h.job]
    BY <1>1, <2>3, <2>2
  <2>5. h.attempts + 1 <= errors'[h.job]
    BY <1>1, <2>4, CountKept
  <2> QED
    BY <1>1, <2>2, <2>5
<1>4. succeeded \subseteq succeeded'
  BY HistoryFrame DEF HandlerSucceeds, HandlerErrs
<1> QED
  BY <1>2, <1>3, <1>4 DEF Backed

LEMMA InitBacked == Init => InFlightIsBacked /\ SettledHonestly
BY DEF Init, InFlightIsBacked, RowsBacked, BatchesBacked, HandsBacked, Accounted, Busy,
       SettledHonestly

\* Only RetryJob changes an attempt count, to one more than the worker's copy.
LEMMA StepRowsBacked ==
  ASSUME TypeOK, InFlightIsBacked, [Next]_vars
  PROVE  RowsBacked'
<1>1. CASE UNCHANGED attempts
  BY <1>1, CountKept DEF TypeOK, InFlightIsBacked, RowsBacked
<1>2. ASSUME NEW p \in Procs, NEW s \in Slots, Record(p, s) PROVE RowsBacked'
  <2> DEFINE h == hand[p][s]
  <2>1. h \in Held /\ Backed(h, errors, succeeded) /\ WriteOutcome(h)
    BY <1>2 DEF TypeOK, InFlightIsBacked, HandsBacked, Record, Busy
  <2>2. h.job \in Jobs /\ h.attempts \in Nat
    BY <2>1 DEF Held
  <2>3. errors' = errors
    BY <1>2 DEF Record, history
  <2>4. CASE h.result = "error" /\ RetryJob(h.job, h.attempts + 1,
                                           (h.attempts + 1) * (h.attempts + 1))
    <3>1. attempts' = [attempts EXCEPT ![h.job] = h.attempts + 1]
      BY <2>4 DEF RetryJob
    <3>2. h.attempts < errors[h.job]
      BY <2>1, <2>4 DEF Backed
    <3> HIDE DEF h
    <3>3. ASSUME NEW j \in Jobs PROVE attempts'[j] <= errors[j]
      <4>1. CASE j = h.job
        BY <2>2, <3>1, <3>2, <4>1 DEF TypeOK
      <4>2. CASE j # h.job
        BY <3>1, <4>2 DEF TypeOK, InFlightIsBacked, RowsBacked
      <4> QED
        BY <4>1, <4>2
    <3> QED
      BY <2>3, <3>3 DEF RowsBacked
  <2> QED
    BY <1>1, <2>1, <2>4 DEF WriteOutcome, CompleteJob, FailJob
<1> QED
  BY <1>1, <1>2, RowsFrame DEF rows, EnqueueJob, Tick, ClaimRow, ResetStaleJobs

\* A batch takes its counts from the rows, and is then only moved and shortened.
LEMMA StepBatchesBacked ==
  ASSUME TypeOK, InFlightIsBacked, [Next]_vars
  PROVE  BatchesBacked'
<1> SUFFICES ASSUME NEW q \in Procs
             PROVE  Accounted(cands'[q], errors') /\ Accounted(offers'[q], errors')
  BY DEF BatchesBacked
<1>1. /\ cands[q] \in Seq(Task) /\ Accounted(cands[q], errors)
      /\ offers[q] \in Seq(Task) /\ Accounted(offers[q], errors)
  BY DEF TypeOK, InFlightIsBacked, BatchesBacked
<1>2. Accounted(cands[q], errors') /\ Accounted(offers[q], errors')
  BY <1>1, BatchKept
<1>3. Accounted(<<>>, errors')
  BY DEF Accounted
<1>4. CASE UNCHANGED <<cands, offers>>
  BY <1>2, <1>4
<1>5. ASSUME NEW p \in Procs, Poll(p)
      PROVE  Accounted(cands'[q], errors') /\ Accounted(offers'[q], errors')
  <2>1. CASE p # q
    BY <1>2, <1>5, <2>1 DEF Poll, TypeOK
  <2>2. CASE p = q
    <3>1. PICK b \in [1 .. BatchSize -> Runnable] :
            cands' = [cands EXCEPT ![p] =
              [i \in 1 .. BatchSize |-> [job |-> b[i], attempts |-> attempts[b[i]]]]]
      BY <1>5 DEF Poll
    <3>2. cands'[q] = [i \in 1 .. BatchSize |-> [job |-> b[i], attempts |-> attempts[b[i]]]]
      BY <2>2, <3>1 DEF TypeOK
    <3>3. \A i \in 1 .. BatchSize : b[i] \in Jobs /\ attempts[b[i]] <= errors[b[i]]
      BY DEF Runnable, InFlightIsBacked, RowsBacked
    <3>4. errors' = errors /\ offers' = offers
      BY <1>5 DEF Poll, history
    <3> QED
      BY <1>2, <3>2, <3>3, <3>4 DEF Accounted
  <2> QED
    BY <2>1, <2>2
<1>6. ASSUME NEW p \in Procs, ClaimRow(p)
      PROVE  Accounted(cands'[q], errors') /\ Accounted(offers'[q], errors')
  <2>1. CASE p # q
    BY <1>2, <1>6, <2>1 DEF ClaimRow, TypeOK
  <2>2. CASE p = q
    <3> DEFINE t == Head(cands[q])
    <3>1. cands[q] # <<>>
      BY <1>6, <2>2 DEF ClaimRow
    <3>2. t \in Task /\ t = cands[q][1] /\ 1 \in DOMAIN cands[q]
      BY <1>1, <3>1, HeadIsTask
    <3>3. t.attempts <= errors[t.job]
      BY <1>1, <3>2 DEF Accounted
    <3>4. Accounted(Append(offers[q], t), errors')
      BY <1>1, <3>2, <3>3, BatchKept
    <3>5. Accounted(Tail(cands[q]), errors')
      BY <1>1, <3>1, BatchKept
    <3>6. cands'[q] = Tail(cands[q])
      BY <1>6, <2>2 DEF ClaimRow, TypeOK
    <3>7. offers'[q] = Append(offers[q], t) \/ offers'[q] = offers[q]
      BY <1>6, <2>2 DEF ClaimRow, TypeOK
    <3> QED
      BY <1>2, <3>4, <3>5, <3>6, <3>7
  <2> QED
    BY <2>1, <2>2
<1>7. ASSUME NEW p \in Procs, ClaimError(p) \/ Crash(p)
      PROVE  Accounted(cands'[q], errors') /\ Accounted(offers'[q], errors')
  BY <1>2, <1>3, <1>7 DEF ClaimError, Crash, TypeOK
<1>8. ASSUME NEW p \in Procs, NEW s \in Slots, Deliver(p, s)
      PROVE  Accounted(cands'[q], errors') /\ Accounted(offers'[q], errors')
  <2>1. CASE p # q
    BY <1>2, <1>8, <2>1 DEF Deliver, TypeOK
  <2>2. CASE p = q
    <3>1. offers'[q] = Tail(offers[q]) /\ offers[q] # <<>> /\ cands' = cands
      BY <1>8, <2>2 DEF Deliver, TypeOK
    <3> QED
      BY <1>1, <1>2, <3>1, BatchKept
  <2> QED
    BY <2>1, <2>2
<1> QED
  BY <1>4, <1>5, <1>6, <1>7, <1>8
     DEF Next, vars, poller, EnqueueJob, Tick, PollerStep, WorkerStep, Fault,
         HandlerSucceeds, HandlerErrs, NoHandler, Record, RecordFails, Reap, Start

\* A worker's job comes from the channel, and its result from its handler.
LEMMA StepHandsBacked ==
  ASSUME TypeOK, InFlightIsBacked, [Next]_vars
  PROVE  HandsBacked'
<1> SUFFICES ASSUME NEW q \in Procs, NEW r \in Slots, hand'[q][r] # Idle
             PROVE  Backed(hand'[q][r], errors', succeeded')
  BY DEF HandsBacked, Busy
<1>1. ASSUME hand'[q][r] = hand[q][r]
      PROVE  Backed(hand'[q][r], errors', succeeded')
  <2>1. hand[q][r] \in Held /\ Backed(hand[q][r], errors, succeeded)
    BY <1>1 DEF TypeOK, InFlightIsBacked, HandsBacked, Busy
  <2> QED
    BY <1>1, <2>1, HandKept
<1>2. ASSUME NEW p \in Procs, NEW s \in Slots, Deliver(p, s)
      PROVE  Backed(hand'[q][r], errors', succeeded')
  <2>1. CASE p # q \/ s # r
    BY <1>1, <1>2, <2>1 DEF Deliver, TypeOK
  <2>2. CASE p = q /\ s = r
    <3> DEFINE t == Head(offers[q])
    <3>1. offers[q] # <<>> /\ offers[q] \in Seq(Task) /\ Accounted(offers[q], errors)
      BY <1>2, <2>2 DEF Deliver, TypeOK, InFlightIsBacked, BatchesBacked
    <3>2. t = offers[q][1] /\ 1 \in DOMAIN offers[q]
      BY <3>1
    <3>3. t.attempts <= errors[t.job]
      BY <3>1, <3>2 DEF Accounted
    <3>4. hand'[q][r] = [job |-> t.job, attempts |-> t.attempts, result |-> "running"]
      BY <1>2, <2>2 DEF Deliver, TypeOK
    <3>5. errors' = errors
      BY <1>2 DEF Deliver, history
    <3> QED
      BY <3>3, <3>4, <3>5 DEF Backed
  <2> QED
    BY <2>1, <2>2
<1>3. ASSUME NEW p \in Procs, NEW s \in Slots, Executing(p, s),
             NEW result \in {"ok", "error", "unregistered"},
             hand' = [hand EXCEPT ![p][s].result = result],
             LET h == hand[p][s] IN
               /\ result = "ok" => h.job \in succeeded'
               /\ result = "error" => h.attempts < errors'[h.job]
               /\ result = "unregistered" => h.job \in Unhandled
      PROVE  Backed(hand'[q][r], errors', succeeded')
  <2>1. CASE p # q \/ s # r
    BY <1>1, <1>3, <2>1 DEF TypeOK
  <2>2. CASE p = q /\ s = r
    <3> DEFINE h == hand[q][r]
    <3>1. h \in Held /\ Backed(h, errors, succeeded)
      BY <1>3, <2>2 DEF TypeOK, InFlightIsBacked, HandsBacked, Busy, Executing
    <3>2. Backed(h, errors', succeeded')
      BY <3>1, HandKept
    <3>3. hand'[q][r] = [h EXCEPT !.result = result]
      BY <1>3, <2>2 DEF TypeOK
    <3>4. /\ hand'[q][r].job = h.job /\ hand'[q][r].attempts = h.attempts
          /\ hand'[q][r].result = result
      BY <3>1, <3>3 DEF Held
    <3> QED
      BY <1>3, <2>2, <3>2, <3>4 DEF Backed
  <2> QED
    BY <2>1, <2>2
<1>4. ASSUME NEW p \in Procs, NEW s \in Slots, HandlerSucceeds(p, s)
      PROVE  Backed(hand'[q][r], errors', succeeded')
  BY <1>3, <1>4 DEF HandlerSucceeds
<1>5. ASSUME NEW p \in Procs, NEW s \in Slots, HandlerErrs(p, s)
      PROVE  Backed(hand'[q][r], errors', succeeded')
  <2> DEFINE h == hand[p][s]
  <2>1. h \in Held /\ Backed(h, errors, succeeded)
    BY <1>5 DEF TypeOK, InFlightIsBacked, HandsBacked, Busy, HandlerErrs, Executing
  <2>2. h.job \in Jobs /\ h.attempts \in 0 .. MaxAttempts - 1 /\ h.attempts <= errors[h.job]
    BY <2>1 DEF Held, Backed
  <2>3. errors' = [errors EXCEPT ![h.job] =
                     IF errors[h.job] < MaxAttempts THEN errors[h.job] + 1 ELSE errors[h.job]]
    BY <1>5 DEF HandlerErrs
  <2>4. hand' = [hand EXCEPT ![p][s].result = "error"] /\ Executing(p, s)
    BY <1>5 DEF HandlerErrs
  <2>5. h.attempts < errors'[h.job]
    <3>1. errors[h.job] \in 0 .. MaxAttempts
      BY <2>2 DEF TypeOK
    <3>2. errors'[h.job] = IF errors[h.job] < MaxAttempts
                             THEN errors[h.job] + 1 ELSE errors[h.job]
      BY <2>2, <2>3 DEF TypeOK
    <3> HIDE DEF h
    <3> QED
      BY <2>2, <3>1, <3>2
  <2> QED
    BY <1>3, <2>4, <2>5
<1>6. ASSUME NEW p \in Procs, NEW s \in Slots, NoHandler(p, s)
      PROVE  Backed(hand'[q][r], errors', succeeded')
  BY <1>3, <1>6 DEF NoHandler
<1>7. ASSUME NEW p \in Procs, NEW s \in Slots, Release(p, s)
      PROVE  Backed(hand'[q][r], errors', succeeded')
  BY <1>1, <1>7 DEF Release, TypeOK
<1>8. ASSUME NEW p \in Procs, Crash(p)
      PROVE  Backed(hand'[q][r], errors', succeeded')
  BY <1>1, <1>8 DEF Crash, TypeOK
<1> QED
  BY <1>1, <1>2, <1>4, <1>5, <1>6, <1>7, <1>8, HandFrame DEF WorkerMoves, Record, RecordFails

LEMMA StepInFlightBacked ==
  TypeOK /\ InFlightIsBacked /\ [Next]_vars => InFlightIsBacked'
BY StepRowsBacked, StepBatchesBacked, StepHandsBacked DEF InFlightIsBacked

\* The attempt counts and outcomes in flight agree with what the handlers did,
\* through every interleaving of claims, late writes, resets and crashes.
THEOREM InFlightBacked == Spec => []InFlightIsBacked
<1> QED
  BY InitBacked, StepInFlightBacked, TypeCorrect, PTL DEF Spec

-----------------------------------------------------------------------------
LEMMA StepSettledHonestly ==
  ASSUME TypeOK, InFlightIsBacked, SettledHonestly, [Next]_vars
  PROVE  SettledHonestly'
<1>1. \A j \in Jobs :
        /\ j \in succeeded => j \in succeeded'
        /\ errors[j] = MaxAttempts => errors'[j] = MaxAttempts
  <2>1. ASSUME NEW j \in Jobs, errors[j] = MaxAttempts PROVE errors'[j] = MaxAttempts
    <3>1. MaxAttempts <= errors'[j]
      BY <2>1, CountKept
    <3>2. errors'[j] \in 0 .. MaxAttempts
      BY StepTypeOK DEF TypeOK
    <3> QED
      BY <3>1, <3>2
  <2>2. succeeded \subseteq succeeded'
    BY HistoryFrame DEF HandlerSucceeds, HandlerErrs
  <2> QED
    BY <2>1, <2>2
<1>2. ASSUME \A j \in Jobs : status'[j] \in {"done", "failed"} => status'[j] = status[j]
      PROVE  SettledHonestly'
  BY <1>1, <1>2 DEF SettledHonestly
<1>3. ASSUME NEW p \in Procs, NEW s \in Slots, Record(p, s) PROVE SettledHonestly'
  <2> DEFINE h == hand[p][s]
  <2>1. h \in Held /\ Backed(h, errors, succeeded) /\ WriteOutcome(h)
    BY <1>3 DEF TypeOK, InFlightIsBacked, HandsBacked, Record, Busy
  <2>2. h.job \in Jobs /\ h.attempts \in Nat /\ errors[h.job] \in 0 .. MaxAttempts
    BY <2>1 DEF Held, TypeOK
  <2>3. errors' = errors /\ succeeded' = succeeded
    BY <1>3 DEF Record, history
  <2>4. CASE h.result = "ok" /\ CompleteJob(h.job)
    <3>1. h.job \in succeeded
      BY <2>1, <2>4 DEF Backed
    <3>2. status' = [status EXCEPT ![h.job] = "done"]
      BY <2>4 DEF CompleteJob
    <3> HIDE DEF h
    <3> QED
      BY <2>2, <2>3, <3>1, <3>2 DEF SettledHonestly, TypeOK
  <2>5. CASE /\ h.result = "unregistered" \/ h.attempts + 1 >= MaxAttempts
             /\ h.result \in {"unregistered", "error"}
             /\ FailJob(h.job)
    <3>1. h.job \in Unhandled \/ errors[h.job] = MaxAttempts
      BY <2>1, <2>2, <2>5 DEF Backed
    <3>2. status' = [status EXCEPT ![h.job] = "failed"]
      BY <2>5 DEF FailJob
    <3> HIDE DEF h
    <3> QED
      BY <2>2, <2>3, <3>1, <3>2 DEF SettledHonestly, TypeOK
  <2>6. CASE RetryJob(h.job, h.attempts + 1, (h.attempts + 1) * (h.attempts + 1))
    <3>1. status' = [status EXCEPT ![h.job] = "pending"]
      BY <2>6 DEF RetryJob
    <3> HIDE DEF h
    <3> QED
      BY <1>2, <2>2, <3>1 DEF TypeOK
  <2> QED
    BY <2>1, <2>4, <2>5, <2>6 DEF WriteOutcome
<1>4. ASSUME NEW p \in Procs, ClaimRow(p) PROVE SettledHonestly'
  <2>1. Head(cands[p]).job \in Jobs
    BY <1>4, HeadIsTask DEF TypeOK, ClaimRow
  <2> QED
    BY <1>2, <1>4, <2>1 DEF ClaimRow, TypeOK
<1>5. ASSUME NEW j \in Jobs, EnqueueJob(j) PROVE SettledHonestly'
  BY <1>2, <1>5 DEF EnqueueJob, TypeOK
<1>6. CASE ResetStaleJobs
  BY <1>2, <1>6 DEF ResetStaleJobs
<1>7. CASE UNCHANGED status
  BY <1>2, <1>7
<1> QED
  BY <1>3, <1>4, <1>5, <1>6, <1>7, RowsFrame DEF rows, Tick

\* No job is marked done before its handler has succeeded, and none with a
\* handler is marked failed before that handler has failed maxAttempts times,
\* even when a reaped job runs several times at once and its writes race.
THEOREM SettlesHonestly == Spec => []SettledHonestly
<1>1. TypeOK /\ InFlightIsBacked /\ SettledHonestly /\ [Next]_vars => SettledHonestly'
  BY StepSettledHonestly
<1> QED
  BY InitBacked, <1>1, TypeCorrect, InFlightBacked, PTL DEF Spec
=============================================================================
