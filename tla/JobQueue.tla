------------------------------ MODULE JobQueue ------------------------------
(***************************************************************************)
(* The background job system: the jobs table (jobstore.go), and in each    *)
(* serving process the poller, the unbuffered channel, the worker pool and *)
(* the reaper (jobs.go).                                                   *)
(*                                                                         *)
(* Every SQL statement is one step, so the SELECT of ClaimJobs and each of *)
(* its UPDATEs interleave with everything else, and so do a handler's      *)
(* return and the UPDATE that records it.  The table outlives a process; a *)
(* crash loses the candidates, the undelivered jobs and the workers'       *)
(* hands.                                                                  *)
(*                                                                         *)
(* Time is kept relative to now: runIn[j] is run_after - now, lockAge[j]   *)
(* is now - locked_at.  Both saturate where the code can no longer tell    *)
(* (lockAge, just above StaleAfter) or where only the ORDER BY could       *)
(* (runIn, MaxLag below now: rows later than that are tied).               *)
(***************************************************************************)
EXTENDS Integers, Sequences, FiniteSets, Functions

CONSTANTS
  Jobs,         \* the rows that may ever be enqueued
  Unhandled,    \* the rows whose type has no registered handler
  Procs,        \* the processes that serve one data directory
  Slots,        \* the workers of one process; also the LIMIT of a claim
  Idle,         \* what a worker with no job holds
  MaxAttempts,  \* JobRunner.maxAttempts
  StaleAfter,   \* JobRunner.staleAfter, in ticks
  MaxLag,       \* how late a row can be and still be ordered by run_after
  MaxRun,       \* the longest a worker may hold a job when Timely
  Timely,       \* TRUE: no worker holds a job for more than MaxRun ticks
  Faults        \* which faults happen: "crash", "claim" and "write"

Task == [job : Jobs, attempts : 0 .. MaxAttempts - 1]
Held == [job : Jobs, attempts : 0 .. MaxAttempts - 1,
         result : {"running", "ok", "error", "unregistered"}]
MaxBackoff == (MaxAttempts - 1) * (MaxAttempts - 1)
NotLocked == -1                  \* locked_at IS NULL
PastStale == StaleAfter + 1      \* any lock age above StaleAfter

ASSUME JobQueueAssumption ==
  /\ IsFiniteSet(Jobs)
  /\ Unhandled \subseteq Jobs
  /\ IsFiniteSet(Slots) /\ Slots # {}
  /\ Idle \notin Held
  /\ MaxAttempts \in Nat \ {0}
  /\ StaleAfter \in Nat \ {0}
  /\ MaxLag \in Nat
  /\ MaxRun \in Nat
  /\ Timely \in BOOLEAN

VARIABLES
  status,     \* the table: "absent", "pending", "running", "done", "failed"
  attempts,
  runIn,
  lockAge,
  proc,       \* proc[p]: "down", "started" (no poll yet) or "polling"
  cands,      \* cands[p]: rows ClaimJobs has selected and not yet updated
  claimAge,   \* claimAge[p]: ticks since that claim read its clock
  offers,     \* offers[p]: claimed jobs no worker has received yet
  hand,       \* hand[p][s]: the job a worker is running, or Idle
  ran,        \* ran[p][s]: ticks the worker has held it (0 unless Timely)
  succeeded,  \* history: the jobs whose handler has returned nil
  errors      \* history: handler errors per job, MaxAttempts meaning "or more"

rows == <<status, attempts, runIn, lockAge>>
poller == <<cands, claimAge, offers>>
workers == <<hand, ran>>
history == <<succeeded, errors>>
vars == <<rows, proc, poller, workers, history>>

Init ==
  /\ status = [j \in Jobs |-> "absent"]
  /\ attempts = [j \in Jobs |-> 0]
  /\ runIn = [j \in Jobs |-> 0]
  /\ lockAge = [j \in Jobs |-> NotLocked]
  /\ proc = [p \in Procs |-> "down"]
  /\ cands = [p \in Procs |-> <<>>]
  /\ claimAge = [p \in Procs |-> 0]
  /\ offers = [p \in Procs |-> <<>>]
  /\ hand = [p \in Procs |-> [s \in Slots |-> Idle]]
  /\ ran = [p \in Procs |-> [s \in Slots |-> 0]]
  /\ succeeded = {}
  /\ errors = [j \in Jobs |-> 0]

Up(p) == proc[p] # "down"
Busy(p, s) == hand[p][s] # Idle

-----------------------------------------------------------------------------
(***************************************************************************)
(* The statements of jobstore.go on one row.  None of the three below      *)
(* looks at the row's status or at who locked it.                          *)
(***************************************************************************)
CompleteJob(j) ==
  /\ status' = [status EXCEPT ![j] = "done"]
  /\ lockAge' = [lockAge EXCEPT ![j] = NotLocked]
  /\ UNCHANGED <<attempts, runIn>>

FailJob(j) ==
  /\ status' = [status EXCEPT ![j] = "failed"]
  /\ lockAge' = [lockAge EXCEPT ![j] = NotLocked]
  /\ UNCHANGED <<attempts, runIn>>

RetryJob(j, n, backoff) ==
  /\ status' = [status EXCEPT ![j] = "pending"]
  /\ attempts' = [attempts EXCEPT ![j] = n]
  /\ runIn' = [runIn EXCEPT ![j] = backoff]
  /\ lockAge' = [lockAge EXCEPT ![j] = NotLocked]

\* Mutant: the cutoff takes in the rows that are exactly StaleAfter old.
MutStaleRowsEarly == {j \in Jobs : status[j] = "running" /\ lockAge[j] >= StaleAfter}

\* Mutant: the test of locked_at against NULL is the wrong way round.
MutStaleRowsUnlocked == {j \in Jobs : status[j] = "running" /\ lockAge[j] = NotLocked}

StaleRows == {j \in Jobs : status[j] = "running" /\ lockAge[j] > StaleAfter}

\* Mutant: a reset counts as a failed attempt.
MutResetCounts ==
  /\ status' = [j \in Jobs |-> IF j \in StaleRows THEN "pending" ELSE status[j]]
  /\ lockAge' = [j \in Jobs |-> IF j \in StaleRows THEN NotLocked ELSE lockAge[j]]
  /\ attempts' = [j \in Jobs |-> IF j \in StaleRows THEN attempts[j] + 1 ELSE attempts[j]]
  /\ UNCHANGED runIn

\* ResetStaleJobs leaves attempts and run_after alone.
ResetStaleJobs ==
  /\ status' = [j \in Jobs |-> IF j \in StaleRows THEN "pending" ELSE status[j]]
  /\ lockAge' = [j \in Jobs |-> IF j \in StaleRows THEN NotLocked ELSE lockAge[j]]
  /\ UNCHANGED <<attempts, runIn>>

\* Any part of the program that holds the store enqueues; the row is due now.
EnqueueJob(j) ==
  /\ status[j] = "absent"
  /\ status' = [status EXCEPT ![j] = "pending"]
  /\ runIn' = [runIn EXCEPT ![j] = 0]
  /\ UNCHANGED <<attempts, lockAge, proc, poller, workers, history>>

-----------------------------------------------------------------------------
(***************************************************************************)
(* ClaimJobs: one SELECT, then one guarded UPDATE per candidate.           *)
(***************************************************************************)
\* Mutant: the SELECT forgets run_after.
MutRunnableAnytime == {j \in Jobs : status[j] = "pending"}

Runnable == {j \in Jobs : status[j] = "pending" /\ runIn[j] <= 0}

BatchSize ==
  LET due == Cardinality(Runnable)
      limit == Cardinality(Slots)
  IN IF due < limit THEN due ELSE limit

\* ORDER BY run_after LIMIT BatchSize.
IsOldest(b) ==
  /\ IsInjective(b)
  /\ \A i, k \in DOMAIN b : i < k => runIn[b[i]] <= runIn[b[k]]
  /\ \A j \in Runnable \ Range(b) : \A i \in DOMAIN b : runIn[b[i]] <= runIn[j]

Poll(p) ==
  /\ Up(p)
  /\ cands[p] = <<>> /\ offers[p] = <<>>
  /\ \E b \in [1 .. BatchSize -> Runnable] :
       /\ IsOldest(b)
       /\ cands' = [cands EXCEPT ![p] =
            [i \in 1 .. BatchSize |-> [job |-> b[i], attempts |-> attempts[b[i]]]]]
  /\ claimAge' = [claimAge EXCEPT ![p] = 0]
  /\ proc' = [proc EXCEPT ![p] = "polling"]
  /\ UNCHANGED <<rows, offers, workers, history>>

\* Mutant: the UPDATE does not guard on the pending status.
MutClaimRowUnguarded(p) ==
  /\ cands[p] # <<>>
  /\ LET t == Head(cands[p]) IN
       /\ status' = [status EXCEPT ![t.job] = "running"]
       /\ lockAge' = [lockAge EXCEPT ![t.job] = claimAge[p]]
       /\ offers' = [offers EXCEPT ![p] = Append(@, t)]
  /\ cands' = [cands EXCEPT ![p] = Tail(@)]
  /\ UNCHANGED <<attempts, runIn, proc, claimAge, workers, history>>

\* Mutant: the UPDATE does not stamp locked_at.
MutClaimRowUnstamped(p) ==
  /\ cands[p] # <<>>
  /\ LET t == Head(cands[p]) IN
       /\ status[t.job] = "pending"
       /\ status' = [status EXCEPT ![t.job] = "running"]
       /\ offers' = [offers EXCEPT ![p] = Append(@, t)]
  /\ cands' = [cands EXCEPT ![p] = Tail(@)]
  /\ UNCHANGED <<lockAge, attempts, runIn, proc, claimAge, workers, history>>

\* One UPDATE ... WHERE id = ? AND status = 'pending'.
ClaimRow(p) ==
  /\ cands[p] # <<>>
  /\ LET t == Head(cands[p]) IN
       \/ /\ status[t.job] = "pending"
          /\ status' = [status EXCEPT ![t.job] = "running"]
          /\ lockAge' = [lockAge EXCEPT ![t.job] = claimAge[p]]
          /\ offers' = [offers EXCEPT ![p] = Append(@, t)]
       \/ /\ status[t.job] # "pending"
          /\ UNCHANGED <<status, lockAge, offers>>
  /\ cands' = [cands EXCEPT ![p] = Tail(@)]
  /\ UNCHANGED <<attempts, runIn, proc, claimAge, workers, history>>

\* An UPDATE fails: ClaimJobs returns no job at all, so the rows it has already
\* marked running get no worker.
ClaimError(p) ==
  /\ "claim" \in Faults
  /\ cands[p] # <<>>
  /\ cands' = [cands EXCEPT ![p] = <<>>]
  /\ offers' = [offers EXCEPT ![p] = <<>>]
  /\ UNCHANGED <<rows, proc, claimAge, workers, history>>

-----------------------------------------------------------------------------
(***************************************************************************)
(* The worker pool.  run() is three steps: the job is received, the        *)
(* handler returns, the outcome is written.                                *)
(***************************************************************************)
\* The channel is unbuffered: the poller's send and a worker's receive are one
\* step, and the poller sends only once ClaimJobs has returned.
Deliver(p, s) ==
  /\ cands[p] = <<>> /\ offers[p] # <<>>
  /\ ~Busy(p, s)
  /\ LET t == Head(offers[p]) IN
       hand' = [hand EXCEPT ![p][s] =
                  [job |-> t.job, attempts |-> t.attempts, result |-> "running"]]
  /\ offers' = [offers EXCEPT ![p] = Tail(@)]
  /\ ran' = [ran EXCEPT ![p][s] = 0]
  /\ UNCHANGED <<rows, proc, cands, claimAge, history>>

Executing(p, s) == Busy(p, s) /\ hand[p][s].result = "running"

HandlerSucceeds(p, s) ==
  /\ Executing(p, s) /\ hand[p][s].job \notin Unhandled
  /\ hand' = [hand EXCEPT ![p][s].result = "ok"]
  /\ succeeded' = succeeded \cup {hand[p][s].job}
  /\ UNCHANGED <<rows, proc, poller, ran, errors>>

HandlerErrs(p, s) ==
  /\ Executing(p, s) /\ hand[p][s].job \notin Unhandled
  /\ hand' = [hand EXCEPT ![p][s].result = "error"]
  /\ errors' = [errors EXCEPT ![hand[p][s].job] = IF @ < MaxAttempts THEN @ + 1 ELSE @]
  /\ UNCHANGED <<rows, proc, poller, ran, succeeded>>

NoHandler(p, s) ==
  /\ Executing(p, s) /\ hand[p][s].job \in Unhandled
  /\ hand' = [hand EXCEPT ![p][s].result = "unregistered"]
  /\ UNCHANGED <<rows, proc, poller, ran, history>>

\* Mutant: the last attempt is not recognised as the last.
MutOutcomeLate(t) ==
  LET n == t.attempts + 1 IN
  \/ t.result = "ok" /\ CompleteJob(t.job)
  \/ t.result = "unregistered" /\ FailJob(t.job)
  \/ t.result = "error" /\ n > MaxAttempts /\ FailJob(t.job)
  \/ t.result = "error" /\ n <= MaxAttempts /\ RetryJob(t.job, n, n * n)

\* Mutant: the job is failed one attempt early.
MutOutcomeEarly(t) ==
  LET n == t.attempts + 1 IN
  \/ t.result = "ok" /\ CompleteJob(t.job)
  \/ t.result = "unregistered" /\ FailJob(t.job)
  \/ t.result = "error" /\ n + 1 >= MaxAttempts /\ FailJob(t.job)
  \/ t.result = "error" /\ n + 1 < MaxAttempts /\ RetryJob(t.job, n, n * n)

\* What run() writes: the attempt count is that of the claim, plus this one.
WriteOutcome(t) ==
  LET n == t.attempts + 1 IN
  \/ t.result = "ok" /\ CompleteJob(t.job)
  \/ t.result = "unregistered" /\ FailJob(t.job)
  \/ t.result = "error" /\ n >= MaxAttempts /\ FailJob(t.job)
  \/ t.result = "error" /\ n < MaxAttempts /\ RetryJob(t.job, n, n * n)

Release(p, s) ==
  /\ hand' = [hand EXCEPT ![p][s] = Idle]
  /\ ran' = [ran EXCEPT ![p][s] = 0]

Record(p, s) ==
  /\ Busy(p, s)
  /\ WriteOutcome(hand[p][s])
  /\ Release(p, s)
  /\ UNCHANGED <<proc, poller, history>>

\* The UPDATE fails: run() logs it at most, and the row stays as it is.
RecordFails(p, s) ==
  /\ "write" \in Faults
  /\ Busy(p, s) /\ ~Executing(p, s)
  /\ Release(p, s)
  /\ UNCHANGED <<rows, proc, poller, history>>

-----------------------------------------------------------------------------
(***************************************************************************)
(* The reaper, the process and the clock.                                  *)
(***************************************************************************)
Reap(p) ==
  /\ Up(p)
  /\ ResetStaleJobs
  /\ UNCHANGED <<proc, poller, workers, history>>

\* Mutant: a starting process resets every running row, not only the stale ones.
MutStartResetsAll(p) ==
  /\ ~Up(p)
  /\ status' = [j \in Jobs |-> IF status[j] = "running" THEN "pending" ELSE status[j]]
  /\ lockAge' = [j \in Jobs |-> NotLocked]
  /\ proc' = [proc EXCEPT ![p] = "started"]
  /\ UNCHANGED <<attempts, runIn, poller, workers, history>>

\* Start reaps once before the pollers, the workers and reapLoop exist.
Start(p) ==
  /\ ~Up(p)
  /\ ResetStaleJobs
  /\ proc' = [proc EXCEPT ![p] = "started"]
  /\ UNCHANGED <<poller, workers, history>>

\* A crash, or the end of serveMode: nobody waits for the workers, and what a
\* cancelled context leaves unsent or unwritten stays "running" in the table.
Crash(p) ==
  /\ "crash" \in Faults
  /\ Up(p)
  /\ proc' = [proc EXCEPT ![p] = "down"]
  /\ cands' = [cands EXCEPT ![p] = <<>>]
  /\ offers' = [offers EXCEPT ![p] = <<>>]
  /\ claimAge' = [claimAge EXCEPT ![p] = 0]
  /\ hand' = [hand EXCEPT ![p] = [s \in Slots |-> Idle]]
  /\ ran' = [ran EXCEPT ![p] = [s \in Slots |-> 0]]
  /\ UNCHANGED <<rows, history>>

\* When Timely, a tick passes only if no claim is half done, no free worker
\* leaves an offered job waiting, and no worker has used up MaxRun.
MayTick ==
  Timely =>
    \A p \in Procs :
      /\ cands[p] = <<>>
      /\ \A s \in Slots : IF Busy(p, s) THEN ran[p][s] < MaxRun ELSE offers[p] = <<>>

Older(age) == IF age \in 0 .. StaleAfter THEN age + 1 ELSE age

Tick ==
  /\ MayTick
  /\ runIn' = [j \in Jobs |-> IF runIn[j] > -MaxLag THEN runIn[j] - 1 ELSE runIn[j]]
  /\ lockAge' = [j \in Jobs |-> Older(lockAge[j])]
  /\ claimAge' = [p \in Procs |-> IF cands[p] = <<>> THEN 0 ELSE Older(claimAge[p])]
  /\ ran' = [p \in Procs |-> [s \in Slots |->
               IF Busy(p, s) /\ ran[p][s] < MaxRun THEN ran[p][s] + 1 ELSE ran[p][s]]]
  /\ UNCHANGED <<status, attempts, proc, cands, offers, hand, history>>

-----------------------------------------------------------------------------
PollerStep(p) == Poll(p) \/ ClaimRow(p)

WorkerStep(p, s) ==
  \/ Deliver(p, s)
  \/ HandlerSucceeds(p, s)
  \/ HandlerErrs(p, s)
  \/ NoHandler(p, s)
  \/ Record(p, s)

Fault(p) ==
  \/ ClaimError(p)
  \/ Crash(p)
  \/ \E s \in Slots : RecordFails(p, s)

Next ==
  \/ \E j \in Jobs : EnqueueJob(j)
  \/ Tick
  \/ \E p \in Procs :
       \/ PollerStep(p)
       \/ \E s \in Slots : WorkerStep(p, s)
       \/ Reap(p)
       \/ Start(p)
       \/ Fault(p)

Spec == Init /\ [][Next]_vars

(***************************************************************************)
(* Fairness: a live process keeps polling and reaping (time.Ticker), its   *)
(* workers keep receiving and recording, a handler returns (its HTTP calls *)
(* are bounded by llm.timeout) and time passes.  Nothing says when a job   *)
(* is enqueued, whether a handler succeeds, or that a process is started.  *)
(***************************************************************************)
Fairness ==
  /\ WF_vars(Tick)
  /\ \A p \in Procs :
       /\ WF_vars(PollerStep(p))
       /\ WF_vars(Reap(p))
       /\ \A s \in Slots : WF_vars(WorkerStep(p, s))

FairSpec == Spec /\ Fairness

-----------------------------------------------------------------------------
Status == {"absent", "pending", "running", "done", "failed"}

\* Every variable ranges over the values its column, channel or field can hold;
\* attempts stays below maxAttempts, where run() fails the job instead.
TypeOK ==
  /\ status \in [Jobs -> Status]
  /\ attempts \in [Jobs -> 0 .. MaxAttempts - 1]
  /\ runIn \in [Jobs -> -MaxLag .. MaxBackoff]
  /\ lockAge \in [Jobs -> NotLocked .. PastStale]
  /\ proc \in [Procs -> {"down", "started", "polling"}]
  /\ cands \in [Procs -> Seq(Task)]
  /\ claimAge \in [Procs -> 0 .. PastStale]
  /\ offers \in [Procs -> Seq(Task)]
  /\ hand \in [Procs -> [Slots -> Held \cup {Idle}]]
  /\ ran \in [Procs -> [Slots -> 0 .. MaxRun]]
  /\ succeeded \subseteq Jobs
  /\ errors \in [Jobs -> 0 .. MaxAttempts]

\* A running row is one the reaper will find, and no other row carries a lock:
\* every path that starts, ends, retries or resets a job keeps the two columns
\* that ResetStaleJobs reads in step, whatever crashed or failed in between.
RunningIsRecoverable ==
  \A j \in Jobs : status[j] = "running" <=> lockAge[j] # NotLocked

\* A job is done only after its handler has returned nil, and failed only after
\* MaxAttempts handler errors or for want of a handler (jobs.go, JobHandler):
\* overlapping runs, late writes and reaped rows never fail a job early.
SettledHonestly ==
  \A j \in Jobs :
    /\ status[j] = "done" => j \in succeeded
    /\ status[j] = "failed" => j \in Unhandled \/ errors[j] = MaxAttempts

\* The tasks of a batch carry attempt counts that errs accounts for.
Accounted(batch, errs) ==
  \A i \in DOMAIN batch : batch[i].attempts <= errs[batch[i].job]

\* A held job's attempt count stands for that many handler errors, plus the one
\* about to be written, and the outcome about to be written is its handler's.
Backed(h, errs, succ) ==
  /\ h.attempts <= errs[h.job]
  /\ h.result = "error" => h.attempts < errs[h.job]
  /\ h.result = "ok" => h.job \in succ
  /\ h.result = "unregistered" => h.job \in Unhandled

RowsBacked == \A j \in Jobs : attempts[j] <= errors[j]
BatchesBacked ==
  \A p \in Procs : Accounted(cands[p], errors) /\ Accounted(offers[p], errors)
HandsBacked ==
  \A p \in Procs, s \in Slots : Busy(p, s) => Backed(hand[p][s], errors, succeeded)

\* What travels from the row through ClaimJobs and the channel into a worker and
\* back agrees with what the handlers did, whoever changed the row meanwhile.
InFlightIsBacked == RowsBacked /\ BatchesBacked /\ HandsBacked

\* A row a worker holds is marked running: it is not reaped mid-flight and run
\* again (config.go, JobsConfig.StaleAfter).
NeverReapedMidFlight ==
  \A p \in Procs, s \in Slots : Busy(p, s) => status[hand[p][s].job] = "running"

\* No two workers, of one process or of two, ever run the same job at once.
NoDoubleRun ==
  \A p, q \in Procs, s, t \in Slots :
    (Busy(p, s) /\ Busy(q, t) /\ hand[p][s].job = hand[q][t].job) => <<p, s>> = <<q, t>>

\* A row is taken from pending only once its run_after has passed (jobstore.go,
\* ClaimJobs): a retry's backoff is waited for.
OnlyRunnableClaimed ==
  [][\A j \in Jobs :
       (status[j] = "pending" /\ status'[j] = "running") => runIn[j] <= 0]_vars

\* What the program relies on: JobContract, with a claimed row still open.
Contract == INSTANCE JobContract
  WITH phase <- [j \in Jobs |->
         IF status[j] \in {"pending", "running"} THEN "open" ELSE status[j]]

ImplementsContract == Contract!Spec

\* As long as some process stays up from some point on, every job that was
\* enqueued is settled in the end, however often a process crashed before.
EventuallySettled ==
  (\E p \in Procs : <>[]Up(p)) =>
    \A j \in Jobs : status[j] = "pending" ~> status[j] \in {"done", "failed"}
=============================================================================
