---------------------------- MODULE ProcessProofs ----------------------------
(***************************************************************************)
(* What holds of Process for any number of processes on one directory,     *)
(* any sizes of the log's channel and batch, and any number of crashes.    *)
(*                                                                         *)
(* The log's counters are bounded only because they add up, so types and   *)
(* LogAccounted are proved together (Types, LogsOK).  OneOwner follows     *)
(* from whose file the lock is (LockHeld), TidyExit from what each place   *)
(* of realMain has behind it (Phases).                                     *)
(***************************************************************************)
EXTENDS Process, FiniteSetTheorems, TLAPS

LEMMA Sizes ==
  /\ BufferSize \in Nat /\ BatchSize \in Nat \ {0} /\ MaxLines \in Nat
  /\ MaxCrashes \in Nat
  /\ NoOne \notin Procs
BY ProcessAssumption

Places ==
  {"off", "openStore", "openLogs", "startRun", "profile", "launch", "startPage",
   "startup", "serving", "browsing", "shutdown", "cancelJobs", "closeBrowser", "finishRun",
   "closeLogs", "waitLogs", "closeStore", "release"}

RunStates == {"none", "open", "finished", "unmarked"}
Exits == {"none", "ok", "error", "crash", "no lock", "lock stays"}

Mains == [at : Places, mode : Modes \cup {"serve"}, stop : BOOLEAN, run : RunStates, exit : Exits]

\* TypeOK without the log.
Types ==
  /\ lockFile \in Procs \cup {NoOne}
  /\ main \in [Procs -> Mains]
  /\ workers \in [Procs -> {"none", "idle", "busy"}]
  /\ cancelled \in [Procs -> BOOLEAN] /\ requests \in [Procs -> BOOLEAN]
  /\ chrome \in [Procs -> {"none", "up", "gone", "killed"}]
  /\ crashes \in 0 .. MaxCrashes

Logs ==
  [state : {"none", "open", "closing", "done"}, queued : Nat, batch : Nat,
   written : Nat, stored : Nat, dropped : Nat, lost : Nat]

\* A log whose lines add up, apart from the size of the batch.
Adds(l) ==
  /\ l \in Logs
  /\ l.written = l.queued + l.batch + l.stored + l.dropped + l.lost
  /\ l.written <= MaxLines /\ l.queued <= BufferSize
  /\ l.state = "done" => l.queued = 0 /\ l.batch = 0

LogOK(l) == Adds(l) /\ l.batch < BatchSize

LogsOK == log \in [Procs -> Logs] /\ \A p \in Procs : LogOK(log[p])

-----------------------------------------------------------------------------
(***************************************************************************)
(* Types.                                                                  *)
(***************************************************************************)
LEMMA OneMore == ASSUME NEW m \in Nat, NEW n \in 0 .. m, n < m PROVE n + 1 \in 0 .. m
OBVIOUS

LEMMA Names ==
  /\ "off" \in Places /\ "openStore" \in Places /\ "openLogs" \in Places
  /\ "startRun" \in Places /\ "profile" \in Places /\ "launch" \in Places
  /\ "startup" \in Places /\ "serving" \in Places /\ "browsing" \in Places
  /\ "shutdown" \in Places /\ "cancelJobs" \in Places /\ "closeBrowser" \in Places
  /\ "finishRun" \in Places /\ "closeLogs" \in Places /\ "waitLogs" \in Places
  /\ "closeStore" \in Places /\ "release" \in Places /\ "startPage" \in Places
  /\ "none" \in RunStates /\ "open" \in RunStates /\ "finished" \in RunStates
  /\ "unmarked" \in RunStates /\ "lock stays" \in Exits
  /\ "none" \in Exits /\ "ok" \in Exits /\ "error" \in Exits
  /\ "crash" \in Exits /\ "no lock" \in Exits
BY DEF Places, RunStates, Exits

LEMMA InitTypes == Init => Types
<1>1. NotRunning \in Mains
  BY Names DEF NotRunning, Mains
<1> QED
  BY <1>1, Sizes DEF Init, Types

\* The two ways in which most steps move.
LEMMA Moves ==
  ASSUME Types, NEW p \in Procs, NEW pc \in Places, Goto(p, pc) \/ Fail(p, pc)
  PROVE  main' \in [Procs -> Mains]
<1>1. main \in [Procs -> Mains]
  BY DEF Types
<1>2. /\ [main[p] EXCEPT !.at = pc] \in Mains
      /\ [main[p] EXCEPT !.at = pc, !.exit = "error"] \in Mains
  BY <1>1, Names DEF Mains
<1>3. CASE Goto(p, pc)
  BY <1>1, <1>2, <1>3 DEF Goto
<1>4. CASE Fail(p, pc)
  BY <1>1, <1>2, <1>4 DEF Fail
<1> QED
  BY <1>3, <1>4

LEMMA GoneTypes ==
  ASSUME Types, NEW p \in Procs, NEW exit \in Exits, Gone(p, exit)
  PROVE  /\ main' \in [Procs -> Mains]
         /\ workers' \in [Procs -> {"none", "idle", "busy"}]
         /\ cancelled' \in [Procs -> BOOLEAN] /\ requests' \in [Procs -> BOOLEAN]
<1>1. [NotRunning EXCEPT !.run = main[p].run, !.exit = exit] \in Mains
  BY Names DEF Types, Mains, NotRunning
<1> QED
  BY <1>1 DEF Types, Gone

LEMMA StepTypes == Types /\ [Next]_vars => Types'
<1> SUFFICES ASSUME Types, [Next]_vars PROVE Types'
  OBVIOUS
<1> USE DEF others
<1> USE Names
<1>0. main \in [Procs -> Mains]
  BY DEF Types
<1>1. ASSUME NEW p \in Procs, NEW mode \in Modes, acquireLock(p, mode) PROVE Types'
  <2>1. /\ [main[p] EXCEPT !.at = "openStore", !.mode = mode, !.exit = "ok"] \in Mains
        /\ [main[p] EXCEPT !.exit = "no lock"] \in Mains
    BY <1>0 DEF Mains
  <2>2. main' \in [Procs -> Mains]
    BY <1>1, <2>1, <1>0 DEF acquireLock
  <2> QED
    BY <1>1, <2>2 DEF Types, acquireLock
<1>2. ASSUME NEW p \in Procs, MainStep(p) PROVE Types'
  <2>1. CASE openStore(p)
    BY <2>1, Moves DEF Types, openStore
  <2>2. CASE openLogStore(p)
    BY <2>2, Moves DEF Types, openLogStore
  <2>3. CASE StartRun(p)
    <3>1. [main[p] EXCEPT !.at = "profile", !.run = "open"] \in Mains
      BY <1>0 DEF Mains
    <3>2. main' \in [Procs -> Mains]
      BY <2>3, <3>1, <1>0, Moves DEF StartRun
    <3> QED
      BY <2>3, <3>2 DEF Types, StartRun
  <2>4. CASE MakeProfile(p)
    BY <2>4, Moves DEF Types, MakeProfile
  <2>5. CASE launch(p)
    BY <2>5, Moves DEF Types, launch
  <2>6. CASE Startup(p)
    BY <2>6, Moves DEF Types, Startup
  <2>7. CASE StopServing(p) \/ Shutdown(p)
    BY <2>7, Moves DEF Types, StopServing, Shutdown, AfterServing
  <2>8. CASE CancelJobs(p)
    BY <2>8, Moves DEF Types, CancelJobs
  <2>9. CASE StopBrowsing(p) \/ closeBrowser(p) \/ OpenStartPage(p)
    <3>1. main' \in [Procs -> Mains]
      BY <2>9, Moves DEF StopBrowsing, closeBrowser, OpenStartPage
    <3>2. chrome' \in [Procs -> {"none", "up", "gone", "killed"}]
      BY <2>9 DEF Types, StopBrowsing, closeBrowser, OpenStartPage
    <3> QED
      BY <2>9, <3>1, <3>2 DEF Types, StopBrowsing, closeBrowser, OpenStartPage
  <2>10. CASE FinishRun(p)
    <3>1. \A row \in {"finished", "unmarked"} :
            [main[p] EXCEPT !.at = "closeLogs", !.run = row] \in Mains
      BY <1>0 DEF Mains
    <3>2. main' \in [Procs -> Mains]
      BY <2>10, <3>1, <1>0 DEF FinishRun
    <3> QED
      BY <2>10, <3>2 DEF Types, FinishRun
  <2>11. CASE CloseLogs(p) \/ CloseStore(p)
    BY <2>11, Moves DEF Types, CloseLogs, CloseStore
  <2>12. CASE release(p)
    <3>1. main[p].exit \in Exits
      BY DEF Types, Mains
    <3> QED
      BY <2>12, <3>1, GoneTypes DEF release, Types
  <2> QED
    BY <1>2, <2>1, <2>2, <2>3, <2>4, <2>5, <2>6, <2>7, <2>8, <2>9, <2>10, <2>11, <2>12
    DEF MainStep, TimedStep
<1>3. ASSUME NEW p \in Procs, WriterStep(p) PROVE Types'
  BY <1>3 DEF Types, WriterStep, Receive, FlushTick, Drain
<1>4. ASSUME NEW p \in Procs, ListenFails(p) \/ PressEnter(p) PROVE Types'
  BY <1>4, Moves DEF Types, ListenFails, PressEnter, AfterServing
<1>5. ASSUME NEW p \in Procs, Signal(p) PROVE Types'
  <2>1. [main[p] EXCEPT !.stop = TRUE] \in Mains
    BY <1>0 DEF Mains
  <2>2. main' \in [Procs -> Mains]
    BY <1>5, <2>1, <1>0 DEF Signal
  <2> QED
    BY <1>5, <2>2 DEF Types, Signal
<1>6. ASSUME NEW p \in Procs, CloseWindow(p) PROVE Types'
  BY <1>6 DEF Types, CloseWindow
<1>7. ASSUME NEW p \in Procs, Crash(p) \/ WriteClosed(p) PROVE Types'
  <2>1. Die(p)
    BY <1>7 DEF Crash, WriteClosed
  <2>2. crashes' \in 0 .. MaxCrashes
    <3>1. crashes \in 0 .. MaxCrashes
      BY DEF Types
    <3>2. CASE Crash(p)
      <4>1. crashes < MaxCrashes /\ crashes' = crashes + 1
        BY <3>2 DEF Crash
      <4> QED
        BY <3>1, <4>1, Sizes, OneMore
    <3>3. CASE WriteClosed(p)
      BY <3>1, <3>3 DEF WriteClosed
    <3> QED
      BY <1>7, <3>2, <3>3
  <2> QED
    BY <2>1, <2>2, GoneTypes DEF Die, Types
<1>8. ASSUME NEW p \in Procs, TakeJob(p) \/ EndJob(p) \/ Request(p) \/ Answer(p) \/ Write(p)
      PROVE  Types'
  BY <1>8 DEF Types, TakeJob, EndJob, Request, Answer, Write
<1>9. CASE DeleteLock
  BY <1>9 DEF Types, DeleteLock
<1>10. CASE UNCHANGED vars
  BY <1>10 DEF Types, vars
<1> QED
  BY <1>1, <1>2, <1>3, <1>4, <1>6, <1>7, <1>8, <1>9, <1>10, <1>5 DEF Next

-----------------------------------------------------------------------------
(***************************************************************************)
(* The log.                                                                *)
(***************************************************************************)
LEMMA InitLogs == Init => LogsOK
<1>1. NoLog \in Logs /\ LogOK(NoLog)
  BY Sizes DEF NoLog, Logs, LogOK, Adds
<1> QED
  BY <1>1 DEF Init, LogsOK

LEMMA OneLog ==
  ASSUME LogsOK, NEW p \in Procs, NEW l, LogOK(l), log' = [log EXCEPT ![p] = l]
  PROVE  LogsOK'
<1>1. l \in Logs
  BY DEF LogOK, Adds
<1>2. \A q \in Procs : log'[q] = IF q = p THEN l ELSE log[q]
  BY DEF LogsOK
<1>3. \A q \in Procs : LogOK(log'[q])
  BY <1>2 DEF LogsOK
<1>4. log' \in [Procs -> Logs]
  BY <1>1 DEF LogsOK
<1> QED
  BY <1>3, <1>4 DEF LogsOK, LogOK, Adds

LEMMA FlushAdds ==
  ASSUME NEW l, Adds(l), NEW next \in flush(l)
  PROVE  /\ LogOK(next) /\ next.batch = 0 /\ next.queued = l.queued
         /\ next.state = l.state
<1>0. l \in Logs
  BY DEF Adds
<1>1. l.batch \in Nat /\ l.stored \in Nat /\ l.lost \in Nat /\ l.queued \in Nat
      /\ l.written \in Nat /\ l.dropped \in Nat
  BY DEF Adds, Logs
<1>2. CASE next = [l EXCEPT !.batch = 0, !.stored = @ + l.batch]
  <2>1. l.stored + l.batch \in Nat /\ 0 \in Nat
    BY <1>1
  <2>2. next \in Logs
    BY <1>0, <1>2, <2>1 DEF Logs
  <2>3. /\ next.batch = 0 /\ next.stored = l.stored + l.batch
        /\ next.state = l.state /\ next.queued = l.queued /\ next.written = l.written
        /\ next.dropped = l.dropped /\ next.lost = l.lost
    BY <1>0, <1>2 DEF Logs
  <2> QED
    BY <1>1, <2>2, <2>3, Sizes DEF Adds, LogOK
<1>3. CASE next = [l EXCEPT !.batch = 0, !.lost = @ + l.batch]
  <2>1. l.lost + l.batch \in Nat /\ 0 \in Nat
    BY <1>1
  <2>2. next \in Logs
    BY <1>0, <1>3, <2>1 DEF Logs
  <2>3. /\ next.batch = 0 /\ next.lost = l.lost + l.batch
        /\ next.state = l.state /\ next.queued = l.queued /\ next.written = l.written
        /\ next.dropped = l.dropped /\ next.stored = l.stored
    BY <1>0, <1>3 DEF Logs
  <2> QED
    BY <1>1, <2>2, <2>3, Sizes DEF Adds, LogOK
<1> QED
  BY <1>2, <1>3 DEF flush

LEMMA StepLogs == LogsOK /\ [Next]_vars => LogsOK'
<1> SUFFICES ASSUME LogsOK, [Next]_vars PROVE LogsOK'
  OBVIOUS
<1>1. ASSUME UNCHANGED log PROVE LogsOK'
  BY <1>1 DEF LogsOK, LogOK, Adds
<1>2. ASSUME NEW p \in Procs, NEW exit, Gone(p, exit) PROVE LogsOK'
  <2>1. LogOK(NoLog)
    BY Sizes DEF NoLog, Logs, LogOK, Adds
  <2> QED
    BY <1>2, <2>1, OneLog DEF Gone
<1>3. ASSUME NEW p \in Procs PROVE LogOK(log[p]) /\ log[p] \in Logs
  BY DEF LogsOK
<1>4. ASSUME NEW p \in Procs, MainStep(p) PROVE LogsOK'
  <2>1. CASE openLogStore(p)
    <3>1. LogOK([log[p] EXCEPT !.state = "open"])
      BY <1>3 DEF LogOK, Adds, Logs
    <3>2. CASE log' = [log EXCEPT ![p] = [log[p] EXCEPT !.state = "open"]]
      BY <3>1, <3>2, OneLog
    <3> QED
      BY <1>1, <2>1, <3>2 DEF openLogStore
  <2>2. CASE CloseLogs(p)
    <3>1. LogOK([log[p] EXCEPT !.state = "closing"])
      BY <1>3 DEF LogOK, Adds, Logs
    <3>2. CASE log' = [log EXCEPT ![p] = [log[p] EXCEPT !.state = "closing"]]
      BY <3>1, <3>2, OneLog
    <3> QED
      BY <1>1, <2>2, <3>2 DEF CloseLogs
  <2>3. CASE release(p)
    BY <1>2, <2>3 DEF release
  <2>4. CASE openStore(p) \/ StartRun(p) \/ MakeProfile(p) \/ StopServing(p)
             \/ Shutdown(p) \/ StopBrowsing(p) \/ FinishRun(p) \/ CloseStore(p)
             \/ OpenStartPage(p)
    BY <1>1, <2>4 DEF openStore, StartRun, MakeProfile, StopServing, Shutdown,
                      OpenStartPage, StopBrowsing, FinishRun, CloseStore, others
  <2>5. CASE launch(p) \/ Startup(p) \/ CancelJobs(p) \/ closeBrowser(p)
    BY <1>1, <2>5 DEF launch, Startup, CancelJobs, closeBrowser
  <2> QED
    BY <1>4, <2>1, <2>2, <2>3, <2>4, <2>5 DEF MainStep, TimedStep
<1>5. ASSUME NEW p \in Procs, Receive(p) PROVE LogsOK'
  <2> DEFINE l == [log[p] EXCEPT !.queued = @ - 1, !.batch = @ + 1]
  <2>1. log[p].queued \in Nat /\ log[p].queued > 0 /\ log[p].batch \in Nat
    BY <1>3, <1>5 DEF Receive, Logs
  <2>2. Adds(l) /\ l.batch \in Nat
    <3>1. log[p].queued - 1 \in Nat /\ log[p].batch + 1 \in Nat
      BY <2>1
    <3>2. l \in Logs
      BY <1>3, <3>1 DEF Logs
    <3>3. /\ l.queued = log[p].queued - 1 /\ l.batch = log[p].batch + 1
          /\ l.state = log[p].state /\ l.written = log[p].written
          /\ l.stored = log[p].stored /\ l.dropped = log[p].dropped /\ l.lost = log[p].lost
      BY <1>3 DEF Logs
    <3>4. /\ log[p].written \in Nat /\ log[p].stored \in Nat /\ log[p].dropped \in Nat
          /\ log[p].lost \in Nat
      BY <1>3 DEF Logs
    <3> HIDE DEF l
    <3> QED
      BY <1>3, <2>1, <3>1, <3>2, <3>3, <3>4, Sizes DEF LogOK, Adds
  <2>3. PICK next \in IF l.batch >= BatchSize THEN flush(l) ELSE {l} :
          log' = [log EXCEPT ![p] = next]
    BY <1>5 DEF Receive
  <2>4. LogOK(next)
    <3> HIDE DEF l
    <3>1. CASE l.batch >= BatchSize
      BY <2>2, <2>3, <3>1, FlushAdds
    <3>2. CASE ~(l.batch >= BatchSize)
      BY <2>2, <2>3, <3>2, Sizes DEF LogOK
    <3> QED
      BY <3>1, <3>2
  <2> QED
    BY <2>3, <2>4, OneLog
<1>6. ASSUME NEW p \in Procs, FlushTick(p) PROVE LogsOK'
  <2>1. PICK next \in flush(log[p]) : log' = [log EXCEPT ![p] = next]
    BY <1>6 DEF FlushTick
  <2>2. LogOK(next)
    BY <1>3, <2>1, FlushAdds DEF LogOK
  <2> QED
    BY <2>1, <2>2, OneLog
<1>7. ASSUME NEW p \in Procs, Drain(p) PROVE LogsOK'
  <2>1. PICK next \in flush(log[p]) : log' = [log EXCEPT ![p] = [next EXCEPT !.state = "done"]]
    BY <1>7 DEF Drain
  <2>2. LogOK(next) /\ next.batch = 0 /\ next.queued = 0
    BY <1>3, <1>7, <2>1, FlushAdds DEF LogOK, Drain
  <2>3. LogOK([next EXCEPT !.state = "done"])
    BY <2>2 DEF LogOK, Adds, Logs
  <2> QED
    BY <2>1, <2>3, OneLog
<1>8. ASSUME NEW p \in Procs, Write(p) PROVE LogsOK'
  <2> DEFINE queue == [log[p] EXCEPT !.written = @ + 1, !.queued = @ + 1]
             drop == [log[p] EXCEPT !.written = @ + 1, !.dropped = @ + 1]
  <2>1. /\ log[p].queued \in Nat /\ log[p].batch \in Nat /\ log[p].stored \in Nat
        /\ log[p].dropped \in Nat /\ log[p].lost \in Nat /\ log[p].written \in Nat
        /\ log[p].state = "open" /\ log[p].written < MaxLines
    BY <1>3, <1>8 DEF Write, Logs
  <2>2. LogOK(drop)
    <3>1. log[p].written + 1 \in Nat /\ log[p].dropped + 1 \in Nat
      BY <2>1
    <3>2. drop \in Logs
      BY <1>3, <3>1 DEF Logs
    <3>3. /\ drop.written = log[p].written + 1 /\ drop.dropped = log[p].dropped + 1
          /\ drop.state = "open" /\ drop.queued = log[p].queued
          /\ drop.batch = log[p].batch /\ drop.stored = log[p].stored
          /\ drop.lost = log[p].lost
      BY <1>3, <2>1 DEF Logs
    <3> HIDE DEF drop
    <3> QED
      BY <1>3, <2>1, <3>2, <3>3, Sizes DEF LogOK, Adds
  <2>3. ASSUME log[p].queued < BufferSize PROVE LogOK(queue)
    <3>1. log[p].written + 1 \in Nat /\ log[p].queued + 1 \in Nat
      BY <2>1
    <3>2. queue \in Logs
      BY <1>3, <3>1 DEF Logs
    <3>3. /\ queue.written = log[p].written + 1 /\ queue.queued = log[p].queued + 1
          /\ queue.state = "open" /\ queue.dropped = log[p].dropped
          /\ queue.batch = log[p].batch /\ queue.stored = log[p].stored
          /\ queue.lost = log[p].lost
      BY <1>3, <2>1 DEF Logs
    <3> HIDE DEF queue
    <3> QED
      BY <1>3, <2>1, <2>3, <3>2, <3>3, Sizes DEF LogOK, Adds
  <2>4. log' = IF log[p].queued < BufferSize THEN [log EXCEPT ![p] = queue]
                                             ELSE [log EXCEPT ![p] = drop]
    BY <1>8 DEF Write, LogsOK
  <2> HIDE DEF queue, drop
  <2>5. CASE log[p].queued < BufferSize
    BY <2>3, <2>4, <2>5, OneLog
  <2>6. CASE ~(log[p].queued < BufferSize)
    BY <2>2, <2>4, <2>6, OneLog
  <2> QED
    BY <2>5, <2>6
<1>9. ASSUME NEW p \in Procs, Crash(p) \/ WriteClosed(p) PROVE LogsOK'
  BY <1>2, <1>9 DEF Crash, WriteClosed, Die
<1>10. ASSUME NEW p \in Procs,
              \/ ListenFails(p) \/ PressEnter(p) \/ CloseWindow(p) \/ Signal(p)
              \/ TakeJob(p) \/ EndJob(p) \/ Request(p) \/ Answer(p)
       PROVE  LogsOK'
  BY <1>1, <1>10 DEF ListenFails, PressEnter, CloseWindow, Signal, TakeJob, EndJob,
                     Request, Answer, others
<1>11. ASSUME NEW p \in Procs, NEW mode \in Modes, acquireLock(p, mode) PROVE LogsOK'
  BY <1>1, <1>11 DEF acquireLock
<1>12. CASE DeleteLock
  BY <1>1, <1>12 DEF DeleteLock
<1>13. CASE UNCHANGED vars
  BY <1>1, <1>13 DEF vars
<1> QED
  BY <1>4, <1>5, <1>6, <1>7, <1>8, <1>9, <1>10, <1>11, <1>12, <1>13 DEF Next, WriterStep

-----------------------------------------------------------------------------
(***************************************************************************)
(* The lock: whoever is under way has it.                                  *)
(***************************************************************************)
LockHeld ==
  /\ ExclusiveLock => \A p \in Procs : ~At(p, "off") => lockFile = p
  /\ ~ExclusiveLock => lockFile = NoOne

LEMMA InitLock == Init => LockHeld
BY DEF Init, LockHeld, At, NotRunning

\* A step of p that leaves the file alone and does not start p.
LEMMA LockStays ==
  ASSUME Types, LockHeld, UNCHANGED lockFile,
         \A q \in Procs : At(q, "off") => At(q, "off")'
  PROVE  LockHeld'
BY DEF LockHeld, At

LEMMA StepLock == Types /\ LockHeld /\ [Next]_vars => LockHeld'
<1> SUFFICES ASSUME Types, LockHeld, [Next]_vars PROVE LockHeld'
  OBVIOUS
<1>0. main \in [Procs -> Mains]
  BY DEF Types
<1>1. ASSUME NEW p \in Procs, NEW mode \in Modes, acquireLock(p, mode) PROVE LockHeld'
  <2>1. CASE ExclusiveLock
    <3>1. lockFile = NoOne /\ lockFile' = p
      BY <1>1, <2>1 DEF acquireLock
    <3>2. \A q \in Procs : At(q, "off")
      BY <2>1, <3>1, Sizes DEF LockHeld
    <3>3. \A q \in Procs : q # p => main'[q] = main[q]
      BY <1>0, <1>1 DEF acquireLock
    <3> QED
      BY <2>1, <3>1, <3>2, <3>3 DEF LockHeld, At
  <2>2. CASE ~ExclusiveLock
    BY <1>1, <2>2 DEF acquireLock, LockHeld
  <2> QED
    BY <2>1, <2>2
<1>2. ASSUME NEW p \in Procs, NEW exit, Gone(p, exit)
      PROVE  At(p, "off")' /\ \A q \in Procs \ {p} : main'[q] = main[q]
  BY <1>0, <1>2 DEF Gone, NotRunning, At
<1>3. ASSUME NEW p \in Procs, ~At(p, "off"), UNCHANGED lockFile,
             \A q \in Procs \ {p} : main'[q] = main[q]
      PROVE  LockHeld'
  BY <1>3, LockStays DEF At
<1>4. ASSUME NEW p \in Procs, NEW pc, Goto(p, pc) \/ Fail(p, pc)
      PROVE  \A q \in Procs \ {p} : main'[q] = main[q]
  BY <1>0, <1>4 DEF Goto, Fail
<1>5. ASSUME NEW p \in Procs, MainStep(p) PROVE LockHeld'
  <2>1. CASE release(p)
    <3>1. ~At(p, "off")
      BY <2>1 DEF release, At
    <3>2. \A q \in Procs : ExclusiveLock => At(q, "off")'
      BY <1>2, <2>1, <3>1 DEF LockHeld, release, At
    <3>3. lockFile' = NoOne \/ lockFile' = lockFile
      BY <2>1 DEF release
    <3> QED
      BY <3>2, <3>3 DEF LockHeld
  <2>2. CASE ~release(p)
    <3>1. ~At(p, "off") /\ UNCHANGED lockFile
      BY <1>5, <2>2 DEF MainStep, TimedStep, At, others, openStore, openLogStore, StartRun,
         MakeProfile, OpenStartPage, launch, Startup, StopServing, Shutdown, CancelJobs, StopBrowsing, closeBrowser,
         FinishRun, CloseLogs, CloseStore
    <3>2. \A q \in Procs \ {p} : main'[q] = main[q]
      <4>1. CASE StartRun(p) \/ FinishRun(p)
        BY <1>0, <1>4, <4>1 DEF StartRun, FinishRun
      <4>2. CASE ~(StartRun(p) \/ FinishRun(p))
        <5>1. \E pc \in Places : Goto(p, pc) \/ Fail(p, pc)
          BY <1>5, <2>2, <4>2, Names DEF MainStep, TimedStep, openStore, openLogStore,
             MakeProfile, OpenStartPage, launch, Startup, StopServing, Shutdown, CancelJobs, StopBrowsing, closeBrowser,
             CloseLogs, CloseStore, AfterServing
        <5> QED
          BY <1>4, <5>1
      <4> QED
        BY <4>1, <4>2
    <3> QED
      BY <1>3, <3>1, <3>2
  <2> QED
    BY <2>1, <2>2
<1>6. ASSUME NEW p \in Procs, Crash(p) \/ WriteClosed(p) PROVE LockHeld'
  <2>1. Gone(p, "crash") /\ UNCHANGED lockFile
    BY <1>6 DEF Crash, WriteClosed, Die
  <2> QED
    BY <1>2, <2>1 DEF LockHeld, At
<1>7. ASSUME NEW p \in Procs, ListenFails(p) \/ PressEnter(p) \/ Signal(p) PROVE LockHeld'
  <2>1. ~At(p, "off") /\ UNCHANGED lockFile
    BY <1>7 DEF ListenFails, PressEnter, Signal, Caught, At, others
  <2>2. \A q \in Procs \ {p} : main'[q] = main[q]
    BY <1>0, <1>4, <1>7 DEF ListenFails, PressEnter, Signal
  <2> QED
    BY <1>3, <2>1, <2>2
<1>8. ASSUME UNCHANGED <<lockFile, main>> PROVE LockHeld'
  BY <1>8 DEF LockHeld, At
<1>9. ASSUME NEW p \in Procs,
             \/ WriterStep(p) \/ CloseWindow(p) \/ TakeJob(p) \/ EndJob(p)
             \/ Request(p) \/ Answer(p) \/ Write(p)
      PROVE  LockHeld'
  BY <1>8, <1>9 DEF WriterStep, Receive, FlushTick, Drain, CloseWindow, TakeJob, EndJob,
                    Request, Answer, Write
<1>10. CASE DeleteLock
  BY <1>10 DEF DeleteLock, LockHeld, At
<1>11. CASE UNCHANGED vars
  BY <1>8, <1>11 DEF vars
<1> QED
  BY <1>1, <1>5, <1>6, <1>7, <1>9, <1>10, <1>11 DEF Next

-----------------------------------------------------------------------------
(***************************************************************************)
(* What each place of realMain has behind it.                              *)
(***************************************************************************)
WithChrome == {"startPage", "browsing", "startup", "serving", "shutdown", "cancelJobs", "closeBrowser"}

PhaseOK(p) ==
  LET m == main[p] IN
  /\ (m.at = "off" /\ lockFile = p) => m.exit \in {"crash", "no lock", "lock stays"}
  /\ chrome[p] = "up" => m.at \in WithChrome /\ m.mode # "testserve"
  /\ m.at = "launch" => m.mode # "testserve"
  /\ m.at \in {"startup", "serving", "shutdown"} => m.mode \in {"serve", "testserve"}
  /\ (m.at \in {"closeLogs", "waitLogs", "closeStore", "release"} /\ m.exit = "ok")
       => m.run \in {"finished", "unmarked"}
  /\ (m.at = "off" /\ m.exit = "ok") => m.run \in {"none", "finished", "unmarked"}

Phases == \A p \in Procs : PhaseOK(p)

LEMMA InitPhases == Init => Phases
<1> SUFFICES ASSUME Init, NEW p \in Procs PROVE PhaseOK(p)
  BY DEF Phases
<1>1. /\ main[p].at = "off" /\ main[p].exit = "none"
      /\ lockFile # p /\ chrome[p] = "none"
  BY Sizes DEF Init, NotRunning
<1> QED
  BY <1>1 DEF PhaseOK

\* A step of p touches the phase of no other process, whose lock it can only
\* take away or make its own.
LEMMA OnePhase ==
  ASSUME Types, Phases, NEW p \in Procs, PhaseOK(p)',
         \A q \in Procs \ {p} : main'[q] = main[q] /\ chrome'[q] = chrome[q],
         lockFile' \in {lockFile, p, NoOne}
  PROVE  Phases'
<1> SUFFICES ASSUME NEW q \in Procs, q # p PROVE PhaseOK(q)'
  BY DEF Phases
<1>1. main'[q] = main[q] /\ chrome'[q] = chrome[q] /\ (lockFile' = q => lockFile = q)
  BY Sizes
<1>2. PhaseOK(q)
  BY DEF Phases
<1> QED
  BY <1>1, <1>2 DEF PhaseOK

LEMMA StepPhases == Types /\ LockHeld /\ Phases /\ [Next]_vars => Phases'
<1> SUFFICES ASSUME Types, LockHeld, Phases, [Next]_vars PROVE Phases'
  OBVIOUS
<1>0. /\ main \in [Procs -> Mains]
      /\ chrome \in [Procs -> {"none", "up", "gone", "killed"}]
      /\ \A p \in Procs : PhaseOK(p)
  BY DEF Types, Phases
<1>1. ASSUME NEW p \in Procs, NEW exit, Gone(p, exit), UNCHANGED chrome \/ Die(p)
      PROVE  /\ main'[p].at = "off" /\ main'[p].exit = exit /\ main'[p].run = main[p].run
             /\ main'[p].mode = "serve"
             /\ \A q \in Procs \ {p} : main'[q] = main[q] /\ chrome'[q] = chrome[q]
  BY <1>0, <1>1 DEF Gone, NotRunning, Die
<1>2. ASSUME NEW p \in Procs, Crash(p) \/ WriteClosed(p) PROVE Phases'
  <2>1. Gone(p, "crash") /\ Die(p) /\ UNCHANGED lockFile
    BY <1>2 DEF Crash, WriteClosed, Die
  <2>2. chrome'[p] # "up"
    BY <1>0, <2>1 DEF Die
  <2>3. /\ main'[p].at = "off" /\ main'[p].exit = "crash"
        /\ \A q \in Procs \ {p} : main'[q] = main[q] /\ chrome'[q] = chrome[q]
    BY <1>1, <2>1
  <2>4. PhaseOK(p)'
    BY <2>2, <2>3 DEF PhaseOK
  <2> QED
    BY <2>1, <2>3, <2>4, OnePhase
<1>3. ASSUME NEW p \in Procs, release(p) PROVE Phases'
  <2>1. /\ UNCHANGED chrome /\ main[p].at = "release" /\ lockFile' \in {lockFile, NoOne}
        /\ \/ Gone(p, main[p].exit) /\ lockFile' = NoOne
           \/ Gone(p, "lock stays")
    BY <1>3 DEF release, At, LockHeld
  <2>2. /\ chrome'[p] # "up"
        /\ main[p].exit = "ok" => main[p].run \in {"finished", "unmarked"}
    BY <1>0, <2>1 DEF PhaseOK, WithChrome
  <2>3. /\ main'[p].at = "off" /\ main'[p].run = main[p].run
        /\ \/ main'[p].exit = main[p].exit /\ lockFile' = NoOne
           \/ main'[p].exit = "lock stays"
        /\ \A q \in Procs \ {p} : main'[q] = main[q] /\ chrome'[q] = chrome[q]
    BY <1>1, <2>1
  <2>4. PhaseOK(p)'
    BY <2>2, <2>3, Sizes DEF PhaseOK
  <2> QED
    BY <2>1, <2>3, <2>4, OnePhase
<1>4. ASSUME NEW p \in Procs, NEW mode \in Modes, acquireLock(p, mode) PROVE Phases'
  <2>1. /\ main[p].at = "off" /\ main[p].exit = "none" /\ UNCHANGED chrome
        /\ lockFile' \in {lockFile, p}
    BY <1>4 DEF acquireLock, At
  <2>2. \A q \in Procs \ {p} : main'[q] = main[q]
    BY <1>0, <1>4 DEF acquireLock
  <2>3. \/ main'[p].at = "openStore" /\ main'[p].exit = "ok"
        \/ main'[p].at = "off" /\ main'[p].exit = "no lock"
    <3>1. CASE main' = [main EXCEPT ![p].at = "openStore", ![p].mode = mode, ![p].exit = "ok"]
      BY <1>0, <3>1 DEF Mains
    <3>2. CASE main' = [main EXCEPT ![p].exit = "no lock"]
      BY <1>0, <2>1, <3>2 DEF Mains
    <3> QED
      BY <1>4, <3>1, <3>2 DEF acquireLock
  <2>4. chrome[p] # "up"
    BY <1>0, <2>1 DEF PhaseOK, WithChrome
  <2>5. PhaseOK(p)'
    BY <2>1, <2>3, <2>4 DEF PhaseOK
  <2> QED
    BY <2>1, <2>2, <2>5, OnePhase
<1>5. ASSUME NEW p \in Procs, NEW pc \in Places \ {"off"},
             Goto(p, pc) \/ Fail(p, pc)
      PROVE  /\ main'[p].at = pc /\ main'[p].mode = main[p].mode /\ main'[p].run = main[p].run
             /\ Goto(p, pc) => main'[p].exit = main[p].exit
             /\ main'[p].exit # main[p].exit => main'[p].exit = "error"
             /\ Fail(p, pc) => main'[p].exit = "error"
             /\ \A q \in Procs \ {p} : main'[q] = main[q]
  BY <1>0, <1>5 DEF Goto, Fail, Mains
<1>6. ASSUME NEW p \in Procs, UNCHANGED <<lockFile, chrome>>,
             \/ \E pc \in {"openLogs", "startRun", "finishRun"} : Goto(p, pc)
             \/ \E pc \in {"release", "closeStore", "closeLogs", "finishRun"} : Fail(p, pc),
             chrome[p] # "up"
      PROVE  Phases'
  <2>1. PICK pc \in {"openLogs", "startRun", "finishRun", "release", "closeStore", "closeLogs"} :
          \/ Goto(p, pc) /\ pc \in {"openLogs", "startRun", "finishRun"}
          \/ Fail(p, pc)
    BY <1>6
  <2>2. pc \in Places \ {"off"}
    BY <2>1, Names
  <2>3. PhaseOK(p)'
    BY <1>5, <1>6, <2>1, <2>2 DEF PhaseOK
  <2> QED
    BY <1>5, <1>6, <2>1, <2>2, <2>3, OnePhase
<1>7. ASSUME NEW p \in Procs, main[p].at \in {"serving", "shutdown"},
             Goto(p, AfterServing(p)) \/ Fail(p, AfterServing(p)),
             UNCHANGED <<lockFile, chrome>>
      PROVE  Phases'
  <2>1. PICK pc \in {"cancelJobs", "finishRun"} :
          /\ Goto(p, pc) \/ Fail(p, pc)
          /\ pc = "finishRun" => main[p].mode # "serve"
    BY <1>7 DEF AfterServing
  <2>2. /\ chrome[p] = "up" => main[p].mode # "testserve"
        /\ main[p].mode \in {"serve", "testserve"}
    BY <1>0, <1>7 DEF PhaseOK
  <2>3. pc \in Places \ {"off"}
    BY <2>1, Names
  <2>4. /\ main'[p].at = pc /\ main'[p].mode = main[p].mode
        /\ \A q \in Procs \ {p} : main'[q] = main[q]
    BY <1>5, <2>1, <2>3
  <2>5. PhaseOK(p)'
    BY <1>7, <2>1, <2>2, <2>4 DEF PhaseOK, WithChrome
  <2> QED
    BY <1>7, <2>4, <2>5, OnePhase
<1>8. ASSUME NEW p \in Procs, MainStep(p) PROVE Phases'
  <2>1. CASE openStore(p) \/ openLogStore(p)
    <3>1. chrome[p] # "up" /\ UNCHANGED <<lockFile, chrome>>
      BY <1>0, <2>1 DEF openStore, openLogStore, At, PhaseOK, WithChrome, others
    <3> QED
      BY <1>6, <2>1, <3>1 DEF openStore, openLogStore
  <2>2. CASE StartRun(p)
    <3>1. chrome[p] # "up" /\ UNCHANGED <<lockFile, chrome>>
      BY <1>0, <2>2 DEF StartRun, At, PhaseOK, WithChrome, others
    <3>2. CASE Fail(p, "closeLogs")
      BY <1>6, <3>1, <3>2
    <3>3. CASE main' = [main EXCEPT ![p].at = "profile", ![p].run = "open"]
      <4>1. main'[p].at = "profile" /\ \A q \in Procs \ {p} : main'[q] = main[q]
        BY <1>0, <3>3 DEF Mains
      <4> QED
        BY <3>1, <4>1, OnePhase DEF PhaseOK
    <3> QED
      BY <2>2, <3>2, <3>3 DEF StartRun
  <2>3. CASE MakeProfile(p)
    <3>1. chrome[p] # "up" /\ UNCHANGED <<lockFile, chrome>>
      BY <1>0, <2>3 DEF MakeProfile, At, PhaseOK, WithChrome, others
    <3>2. CASE Fail(p, "closeLogs")
      BY <1>6, <3>1, <3>2
    <3>3. CASE Goto(p, IF main[p].mode = "testserve" THEN "startup" ELSE "launch")
      <4>1. PICK pc \in {"startup", "launch"} :
              Goto(p, pc) /\ (pc = "startup" <=> main[p].mode = "testserve")
        BY <3>3
      <4>2. pc \in Places \ {"off"}
        BY <4>1, Names
      <4>3. /\ main'[p].at = pc /\ main'[p].mode = main[p].mode
            /\ \A q \in Procs \ {p} : main'[q] = main[q]
        BY <1>5, <4>1, <4>2
      <4>4. PhaseOK(p)'
        BY <3>1, <4>1, <4>3 DEF PhaseOK
      <4> QED
        BY <3>1, <4>3, <4>4, OnePhase
    <3> QED
      BY <2>3, <3>2, <3>3 DEF MakeProfile
  <2>4. CASE launch(p)
    <3>1. UNCHANGED lockFile /\ main[p].mode # "testserve" /\ chrome[p] # "up"
      BY <1>0, <2>4 DEF launch, At, PhaseOK, WithChrome
    <3>2. CASE Fail(p, "finishRun") /\ UNCHANGED chrome
      BY <1>6, <3>1, <3>2
    <3>3. CASE /\ chrome' = [chrome EXCEPT ![p] = "up"]
               /\ Goto(p, IF main[p].mode = "browse" THEN "startPage" ELSE "startup")
      <4>1. main[p].mode \in {"serve", "browse"}
        BY <1>0, <3>1, ProcessAssumption DEF Mains
      <4>2. \A q \in Procs \ {p} : chrome'[q] = chrome[q]
        BY <1>0, <3>3
      <4>3. /\ main'[p].at = IF main[p].mode = "browse" THEN "startPage" ELSE "startup"
            /\ main'[p].mode = main[p].mode
            /\ \A q \in Procs \ {p} : main'[q] = main[q]
        BY <1>5, <3>3, Names
      <4>4. PhaseOK(p)'
        BY <3>1, <4>1, <4>3 DEF PhaseOK, WithChrome
      <4> QED
        BY <3>1, <4>2, <4>3, <4>4, OnePhase
    <3> QED
      BY <2>4, <3>2, <3>3 DEF launch
  <2>5. CASE Startup(p)
    <3>1. /\ UNCHANGED <<lockFile, chrome>> /\ main[p].at = "startup"
          /\ main[p].mode \in {"serve", "testserve"}
      BY <1>0, <2>5 DEF Startup, At, PhaseOK
    <3>2. CASE main[p].mode = "testserve" /\ Fail(p, "finishRun")
      <4>1. chrome[p] # "up"
        BY <1>0, <3>2 DEF PhaseOK
      <4> QED
        BY <1>6, <3>1, <3>2, <4>1
    <3>3. CASE Goto(p, "serving")
      <4>1. /\ main'[p].at = "serving" /\ main'[p].mode = main[p].mode
            /\ \A q \in Procs \ {p} : main'[q] = main[q]
        BY <1>5, <3>3, Names
      <4>2. chrome[p] = "up" => main[p].mode # "testserve"
        BY <1>0 DEF PhaseOK
      <4>3. PhaseOK(p)'
        BY <3>1, <4>1, <4>2 DEF PhaseOK, WithChrome
      <4> QED
        BY <3>1, <4>1, <4>3, OnePhase
    <3> QED
      BY <2>5, <3>2, <3>3 DEF Startup
  <2>6. CASE StopServing(p) \/ Shutdown(p)
    <3>1. CASE StopServing(p)
      <4>1. /\ UNCHANGED <<lockFile, chrome>> /\ Goto(p, "shutdown") /\ main[p].at = "serving"
        BY <3>1 DEF StopServing, At, others
      <4>2. /\ main'[p].at = "shutdown" /\ main'[p].mode = main[p].mode
            /\ \A q \in Procs \ {p} : main'[q] = main[q]
        BY <1>5, <4>1, Names
      <4>3. /\ chrome[p] = "up" => main[p].mode # "testserve"
            /\ main[p].mode \in {"serve", "testserve"}
        BY <1>0, <4>1 DEF PhaseOK
      <4>4. PhaseOK(p)'
        BY <4>1, <4>2, <4>3 DEF PhaseOK, WithChrome
      <4> QED
        BY <4>1, <4>2, <4>4, OnePhase
    <3>2. CASE Shutdown(p)
      BY <1>7, <3>2 DEF Shutdown, At, others
    <3> QED
      BY <2>6, <3>1, <3>2
  <2>7. CASE CancelJobs(p) \/ StopBrowsing(p)
    <3>1. UNCHANGED <<lockFile, chrome>> /\ Goto(p, "closeBrowser")
      BY <2>7 DEF CancelJobs, StopBrowsing, others
    <3>2. /\ main'[p].at = "closeBrowser" /\ main'[p].mode = main[p].mode
          /\ \A q \in Procs \ {p} : main'[q] = main[q]
      BY <1>5, <3>1, Names
    <3>3. chrome[p] = "up" => main[p].mode # "testserve"
      BY <1>0 DEF PhaseOK
    <3>4. PhaseOK(p)'
      BY <3>1, <3>2, <3>3 DEF PhaseOK, WithChrome
    <3> QED
      BY <3>1, <3>2, <3>4, OnePhase
  <2>8. CASE closeBrowser(p)
    <3>1. UNCHANGED lockFile /\ Goto(p, "finishRun")
      BY <2>8 DEF closeBrowser
    <3>2. chrome'[p] # "up" /\ \A q \in Procs \ {p} : chrome'[q] = chrome[q]
      BY <1>0, <2>8 DEF closeBrowser
    <3>3. /\ main'[p].at = "finishRun"
          /\ \A q \in Procs \ {p} : main'[q] = main[q]
      BY <1>5, <3>1, Names
    <3>4. PhaseOK(p)'
      BY <3>1, <3>2, <3>3 DEF PhaseOK
    <3> QED
      BY <3>1, <3>2, <3>3, <3>4, OnePhase
  <2>9. CASE FinishRun(p)
    <3>1. /\ UNCHANGED <<lockFile, chrome>> /\ main[p].at = "finishRun"
          /\ \E row \in {"finished", "unmarked"} :
               main' = [main EXCEPT ![p].at = "closeLogs", ![p].run = row]
      BY <2>9 DEF FinishRun, At, others
    <3>2. /\ main'[p].at = "closeLogs" /\ main'[p].run \in {"finished", "unmarked"}
          /\ \A q \in Procs \ {p} : main'[q] = main[q]
      BY <1>0, <3>1 DEF Mains
    <3>3. chrome[p] # "up"
      BY <1>0, <3>1 DEF PhaseOK, WithChrome
    <3>4. PhaseOK(p)'
      BY <3>1, <3>2, <3>3 DEF PhaseOK
    <3> QED
      BY <3>1, <3>2, <3>4, OnePhase
  <2>10. CASE CloseLogs(p) \/ CloseStore(p)
    <3>1. PICK pc \in {"waitLogs", "closeStore", "release"} :
            Goto(p, pc) /\ UNCHANGED <<lockFile, chrome>>
      BY <2>10 DEF CloseLogs, CloseStore, others
    <3>2. /\ main[p].at \in {"closeLogs", "waitLogs", "closeStore", "release"}
          /\ chrome[p] # "up"
      BY <1>0, <2>10 DEF CloseLogs, CloseStore, At, PhaseOK, WithChrome
    <3>3. pc \in Places \ {"off"}
      BY <3>1, Names
    <3>4. PhaseOK(p)'
      BY <1>0, <1>5, <3>1, <3>2, <3>3 DEF PhaseOK
    <3> QED
      BY <1>5, <3>1, <3>3, <3>4, OnePhase
  <2>11. CASE OpenStartPage(p)
    <3>1. UNCHANGED <<lockFile, chrome>> /\ Goto(p, "browsing")
      BY <2>11 DEF OpenStartPage, others
    <3>2. /\ main'[p].at = "browsing" /\ main'[p].mode = main[p].mode
          /\ \A q \in Procs \ {p} : main'[q] = main[q]
      BY <1>5, <3>1, Names
    <3>3. chrome[p] = "up" => main[p].mode # "testserve"
      BY <1>0 DEF PhaseOK
    <3>4. PhaseOK(p)'
      BY <3>1, <3>2, <3>3 DEF PhaseOK, WithChrome
    <3> QED
      BY <3>1, <3>2, <3>4, OnePhase
  <2> QED
    BY <1>3, <1>8, <2>1, <2>2, <2>3, <2>4, <2>5, <2>6, <2>7, <2>8, <2>9, <2>10, <2>11
    DEF MainStep, TimedStep
<1>9. ASSUME NEW p \in Procs, ListenFails(p) PROVE Phases'
  BY <1>7, <1>9 DEF ListenFails, At, others
<1>10. ASSUME NEW p \in Procs, PressEnter(p) PROVE Phases'
  <2>1. UNCHANGED <<lockFile, chrome>> /\ Goto(p, "closeBrowser")
    BY <1>10 DEF PressEnter, others
  <2>2. /\ main'[p].at = "closeBrowser" /\ main'[p].mode = main[p].mode
        /\ \A q \in Procs \ {p} : main'[q] = main[q]
    BY <1>5, <2>1, Names
  <2>3. chrome[p] = "up" => main[p].mode # "testserve"
    BY <1>0 DEF PhaseOK
  <2>4. PhaseOK(p)'
    BY <2>1, <2>2, <2>3 DEF PhaseOK, WithChrome
  <2> QED
    BY <2>1, <2>2, <2>4, OnePhase
<1>11. ASSUME NEW p \in Procs, Signal(p) PROVE Phases'
  <2>1. UNCHANGED <<lockFile, chrome>>
    BY <1>11 DEF Signal, others
  <2>2. /\ main'[p].at = main[p].at /\ main'[p].mode = main[p].mode
        /\ main'[p].run = main[p].run /\ main'[p].exit = main[p].exit
        /\ \A q \in Procs \ {p} : main'[q] = main[q]
    BY <1>0, <1>11 DEF Signal, Mains
  <2>3. PhaseOK(p)'
    BY <1>0, <2>1, <2>2 DEF PhaseOK
  <2> QED
    BY <2>1, <2>2, <2>3, OnePhase
<1>12. ASSUME NEW p \in Procs, CloseWindow(p) PROVE Phases'
  <2>1. UNCHANGED <<lockFile, main>> /\ chrome' = [chrome EXCEPT ![p] = "gone"]
    BY <1>12 DEF CloseWindow
  <2>2. chrome'[p] = "gone" /\ \A q \in Procs \ {p} : chrome'[q] = chrome[q]
    BY <1>0, <2>1
  <2>3. PhaseOK(p)'
    BY <1>0, <2>1, <2>2 DEF PhaseOK
  <2> QED
    BY <2>1, <2>2, <2>3, OnePhase
<1>13. ASSUME UNCHANGED <<main, chrome>>, lockFile' \in {lockFile, NoOne} PROVE Phases'
  BY <1>0, <1>13, Sizes DEF Phases, PhaseOK
<1>14. ASSUME NEW p \in Procs,
              \/ WriterStep(p) \/ TakeJob(p) \/ EndJob(p)
              \/ Request(p) \/ Answer(p) \/ Write(p)
       PROVE  Phases'
  BY <1>13, <1>14 DEF WriterStep, Receive, FlushTick, Drain, TakeJob, EndJob,
                      Request, Answer, Write
<1>15. CASE DeleteLock
  BY <1>13, <1>15 DEF DeleteLock
<1>16. CASE UNCHANGED vars
  BY <1>13, <1>16 DEF vars
<1> QED
  BY <1>2, <1>4, <1>8, <1>9, <1>10, <1>11, <1>12, <1>14, <1>15, <1>16 DEF Next

-----------------------------------------------------------------------------
(***************************************************************************)
(* The theorems.                                                           *)
(***************************************************************************)
Inv == Types /\ LogsOK /\ LockHeld /\ Phases

LEMMA Invariant == Spec => []Inv
<1>1. Init => Inv
  BY InitTypes, InitLogs, InitLock, InitPhases DEF Inv
<1>2. Inv /\ [Next]_vars => Inv'
  BY StepTypes, StepLogs, StepLock, StepPhases DEF Inv
<1> QED
  BY <1>1, <1>2, PTL DEF Spec

\* Every reachable state is well typed; the log's counters stay within the
\* channel, the batch and the lines written because they add up.
THEOREM ProcessTypeCorrect == Spec => []TypeOK
<1>1. Inv => TypeOK
  <2> SUFFICES ASSUME Inv PROVE TypeOK
    OBVIOUS
  <2> DEFINE Bounded ==
        [state : {"none", "open", "closing", "done"}, queued : 0 .. BufferSize,
         batch : 0 .. BatchSize - 1, written : 0 .. MaxLines, stored : 0 .. MaxLines,
         dropped : 0 .. MaxLines, lost : 0 .. MaxLines]
  <2>1. ASSUME NEW p \in Procs PROVE log[p] \in Bounded
    <3>1. log[p] \in Logs /\ LogOK(log[p])
      BY DEF Inv, LogsOK
    <3>2. /\ log[p].queued \in Nat /\ log[p].batch \in Nat /\ log[p].stored \in Nat
          /\ log[p].dropped \in Nat /\ log[p].lost \in Nat /\ log[p].written \in Nat
      BY <3>1 DEF Logs
    <3>3. /\ log[p].queued \in 0 .. BufferSize /\ log[p].batch \in 0 .. BatchSize - 1
          /\ log[p].written \in 0 .. MaxLines /\ log[p].stored \in 0 .. MaxLines
          /\ log[p].dropped \in 0 .. MaxLines /\ log[p].lost \in 0 .. MaxLines
      BY <3>1, <3>2, Sizes DEF LogOK, Adds
    <3> QED
      BY <3>1, <3>3 DEF Logs
  <2>2. log \in [Procs -> Bounded]
    BY <2>1 DEF Inv, LogsOK
  <2> QED
    BY <2>2 DEF Inv, Types, TypeOK, Mains, Places, RunStates, Exits
<1> QED
  BY <1>1, Invariant, PTL

\* No line of the log gets away unaccounted for, whatever is dropped, lost
\* with a failed flush or still queued when Close comes.
THEOREM ProcessLogAccounted == Spec => []LogAccounted
<1>1. Inv => LogAccounted
  BY DEF Inv, LogsOK, LogOK, Adds, LogAccounted
<1> QED
  BY <1>1, Invariant, PTL

\* With the exclusive lock at most one process has the databases open.
THEOREM ProcessOneOwner == Spec => []OneOwner
<1>1. Inv => OneOwner
  <2> SUFFICES ASSUME Inv, ExclusiveLock
               PROVE  Cardinality({p \in Procs :
                        main[p].at \notin {"off", "openStore", "release"}}) <= 1
    BY DEF OneOwner
  <2> DEFINE Owners == {p \in Procs : main[p].at \notin {"off", "openStore", "release"}}
  <2>1. Owners \subseteq {lockFile}
    BY DEF Inv, LockHeld, At
  <2>2. IsFiniteSet({lockFile}) /\ Cardinality({lockFile}) = 1
    BY FS_Singleton
  <2> HIDE DEF Owners
  <2>3. Cardinality(Owners) <= Cardinality({lockFile})
    BY <2>1, <2>2, FS_Subset
  <2> QED
    BY <2>2, <2>3 DEF Owners
<1> QED
  BY <1>1, Invariant, PTL

\* However a process ends, it leaves nothing behind that it could have taken
\* away: only one that dies, cannot close its new lock file or cannot remove it
\* leaves it, no return leaves Chrome, and no good end skips FinishRun.
THEOREM ProcessTidyExit == Spec => []TidyExit
<1>1. Inv => TidyExit
  <2> SUFFICES ASSUME Inv, NEW p \in Procs, At(p, "off")
               PROVE  /\ lockFile = p => main[p].exit \in {"crash", "no lock", "lock stays"}
                      /\ main[p].exit # "crash" => chrome[p] # "up"
                      /\ (main[p].exit = "ok" /\ main[p].run # "none")
                           => main[p].run \in {"finished", "unmarked"}
    BY DEF TidyExit
  <2>1. PhaseOK(p) /\ main[p].at = "off"
    BY DEF Inv, Phases, At
  <2> QED
    BY <2>1 DEF PhaseOK, WithChrome
<1> QED
  BY <1>1, Invariant, PTL
=============================================================================
