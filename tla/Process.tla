------------------------------- MODULE Process -------------------------------
(***************************************************************************)
(* The life of harvester processes that share a data directory (main.go):  *)
(* the exclusive lock (lock.go), the databases, the log store with its     *)
(* writer goroutine (logstore.go), Chrome (browser.go), the three modes    *)
(* and the shutdown (server.go, testsupport.go).                           *)
(*                                                                         *)
(* Every place where realMain may return early is a state of its own; what *)
(* follows is the unwinding of the defers registered so far.  Log lines    *)
(* are counted, not told apart.                                            *)
(***************************************************************************)
EXTENDS Naturals, FiniteSets

CONSTANTS
  Procs,           \* the processes that may be started on the directory, each once
  Modes,           \* of "serve", "browse", "testserve"
  ExclusiveLock,   \* database.exclusive_lock
  BufferSize,      \* logBufferSize
  BatchSize,       \* logBatchSize
  MaxLines,        \* bound on the log lines of one process
  MaxCrashes       \* bound on kills and crashes

NoOne == "no one"

ASSUME ProcessAssumption ==
  /\ IsFiniteSet(Procs) /\ NoOne \notin Procs
  /\ Modes \subseteq {"serve", "browse", "testserve"}
  /\ ExclusiveLock \in BOOLEAN
  /\ {BufferSize, BatchSize, MaxLines} \subseteq Nat \ {0} /\ MaxCrashes \in Nat

VARIABLES
  lockFile,  \* whose harvester.lock there is, or NoOne
  main,      \* main[p]: where realMain is, its mode, and what it has to show
  workers,   \* workers[p]: the job runner's, "none", "idle" or "busy"
  cancelled, \* cancelled[p]: jobCtx is done
  requests,  \* requests[p]: a request is being served
  chrome,    \* chrome[p]: "none", "up", "gone" or, with its cookies lost, "killed"
  log,       \* log[p]: the LogStore
  crashes    \* kills and crashes so far

vars == <<lockFile, main, workers, cancelled, requests, chrome, log, crashes>>
others == <<lockFile, workers, cancelled, requests, chrome, log, crashes>>

\* stop: the signal context is done; exit: the last one; run: the row in runs,
\* "unmarked" when the UPDATE that should have finished it erred.
NotRunning == [at |-> "off", mode |-> "serve", stop |-> FALSE, run |-> "none", exit |-> "none"]
\* queued: lines in the channel; batch: lines the writer holds.
NoLog == [state |-> "none", queued |-> 0, batch |-> 0, written |-> 0,
          stored |-> 0, dropped |-> 0, lost |-> 0]

Init ==
  /\ lockFile = NoOne
  /\ main = [p \in Procs |-> NotRunning]
  /\ workers = [p \in Procs |-> "none"]
  /\ cancelled = [p \in Procs |-> FALSE]
  /\ requests = [p \in Procs |-> FALSE]
  /\ chrome = [p \in Procs |-> "none"]
  /\ log = [p \in Procs |-> NoLog]
  /\ crashes = 0

At(p, pc) == main[p].at = pc
Goto(p, pc) == main' = [main EXCEPT ![p].at = pc]
Fail(p, pc) == main' = [main EXCEPT ![p].at = pc, ![p].exit = "error"]
\* The process is gone: its run and how it ended are all that is left of it.
Gone(p, exit) ==
  /\ main' = [main EXCEPT ![p] = [NotRunning EXCEPT !.run = main[p].run, !.exit = exit]]
  /\ workers' = [workers EXCEPT ![p] = "none"]
  /\ cancelled' = [cancelled EXCEPT ![p] = FALSE]
  /\ requests' = [requests EXCEPT ![p] = FALSE]
  /\ log' = [log EXCEPT ![p] = NoLog]

-----------------------------------------------------------------------------
(***************************************************************************)
(* realMain up to the mode.                                                *)
(***************************************************************************)
\* O_EXCL: while the file is there the process is refused, and nothing changes.
\* An error of the file's Close leaves the file and ends the process.
acquireLock(p, mode) ==
  /\ At(p, "off") /\ main[p].exit = "none"
  /\ ExclusiveLock => lockFile = NoOne
  /\ lockFile' = IF ExclusiveLock THEN p ELSE lockFile
  /\ \/ main' = [main EXCEPT ![p].at = "openStore", ![p].mode = mode, ![p].exit = "ok"]
     \/ ExclusiveLock /\ main' = [main EXCEPT ![p].exit = "no lock"]
  /\ UNCHANGED <<workers, cancelled, requests, chrome, log, crashes>>

openStore(p) ==
  /\ At(p, "openStore")
  /\ Goto(p, "openLogs") \/ Fail(p, "release")
  /\ UNCHANGED others

openLogStore(p) ==
  /\ At(p, "openLogs")
  /\ \/ /\ Goto(p, "startRun")
        /\ log' = [log EXCEPT ![p].state = "open"]
     \/ /\ Fail(p, "closeStore")
        /\ UNCHANGED log
  /\ UNCHANGED <<lockFile, workers, cancelled, requests, chrome, crashes>>

StartRun(p) ==
  /\ At(p, "startRun")
  /\ \/ main' = [main EXCEPT ![p].at = "profile", ![p].run = "open"]
     \/ Fail(p, "closeLogs")
  /\ UNCHANGED others

\* The Chrome profile's directory: an error returns without FinishRun.
MakeProfile(p) ==
  /\ At(p, "profile")
  /\ \/ Goto(p, IF main[p].mode = "testserve" THEN "startup" ELSE "launch")
     \/ main[p].mode # "testserve" /\ Fail(p, "closeLogs")
  /\ UNCHANGED others

\* Mutant: a failed launch ends the process on the spot.
MutLaunch(p) ==
  /\ At(p, "launch")
  /\ \/ /\ chrome' = [chrome EXCEPT ![p] = "up"]
        /\ Goto(p, IF main[p].mode = "browse" THEN "startPage" ELSE "startup")
     \/ /\ Fail(p, "off")
        /\ UNCHANGED chrome
  /\ UNCHANGED <<lockFile, workers, cancelled, requests, log, crashes>>

\* Chrome is started and asked for its user agent, without a deadline and deaf
\* to stop.
launch(p) ==
  /\ At(p, "launch")
  /\ \/ /\ chrome' = [chrome EXCEPT ![p] = "up"]
        /\ Goto(p, IF main[p].mode = "browse" THEN "startPage" ELSE "startup")
     \/ /\ Fail(p, "finishRun")
        /\ UNCHANGED chrome
  /\ UNCHANGED <<lockFile, workers, cancelled, requests, log, crashes>>

-----------------------------------------------------------------------------
(***************************************************************************)
(* The modes.                                                              *)
(***************************************************************************)
\* serveMode: trim and vacuum, whose errors are logged, then the job runner.
\* testServeMode has neither, and seeds its fixtures, which may err.
Startup(p) ==
  /\ At(p, "startup")
  /\ \/ /\ Goto(p, "serving")
        /\ workers' = [workers EXCEPT ![p] = IF main[p].mode = "serve" THEN "idle" ELSE "none"]
     \/ /\ main[p].mode = "testserve" /\ Fail(p, "finishRun")
        /\ UNCHANGED workers
  /\ UNCHANGED <<lockFile, cancelled, requests, chrome, log, crashes>>

AfterServing(p) == IF main[p].mode = "serve" THEN "cancelJobs" ELSE "finishRun"

ListenFails(p) ==
  /\ At(p, "serving")
  /\ Fail(p, AfterServing(p))
  /\ UNCHANGED others

StopServing(p) ==
  /\ At(p, "serving") /\ main[p].stop
  /\ Goto(p, "shutdown")
  /\ UNCHANGED others

\* Mutant: Shutdown under a context without a deadline.
MutShutdown(p) ==
  /\ At(p, "shutdown") /\ ~requests[p]
  /\ Goto(p, AfterServing(p))
  /\ UNCHANGED others

\* srv.Shutdown: the requests end, or its time does.
Shutdown(p) ==
  /\ At(p, "shutdown")
  /\ \/ ~requests[p] /\ Goto(p, AfterServing(p))
     \/ requests[p] /\ Fail(p, AfterServing(p))
  /\ UNCHANGED others

\* The deferred jobCancel waits for nobody.
CancelJobs(p) ==
  /\ At(p, "cancelJobs")
  /\ cancelled' = [cancelled EXCEPT ![p] = TRUE]
  /\ workers' = [workers EXCEPT ![p] = IF @ = "idle" THEN "none" ELSE @]
  /\ Goto(p, "closeBrowser")
  /\ UNCHANGED <<lockFile, requests, chrome, log, crashes>>

\* browseMode's Navigate: it has no deadline either and does not hear stop; an
\* error is only a warning.
OpenStartPage(p) ==
  /\ At(p, "startPage")
  /\ Goto(p, "browsing")
  /\ UNCHANGED others

\* browseMode: Enter, a window that is closed, or a signal.
PressEnter(p) ==
  /\ At(p, "browsing")
  /\ Goto(p, "closeBrowser")
  /\ UNCHANGED others

StopBrowsing(p) ==
  /\ At(p, "browsing") /\ (main[p].stop \/ chrome[p] = "gone")
  /\ Goto(p, "closeBrowser")
  /\ UNCHANGED others

\* The window is closed; serve mode does not notice.
CloseWindow(p) ==
  /\ chrome[p] = "up" /\ main[p].at \in {"startPage", "browsing", "startup", "serving", "shutdown"}
  /\ chrome' = [chrome EXCEPT ![p] = "gone"]
  /\ UNCHANGED <<lockFile, main, workers, cancelled, requests, log, crashes>>

\* session.close: gracefully if Chrome answers in 15 seconds, else not.
closeBrowser(p) ==
  /\ At(p, "closeBrowser")
  /\ chrome' \in {[chrome EXCEPT ![p] = IF @ = "up" THEN to ELSE @] : to \in {"gone", "killed"}}
  /\ Goto(p, "finishRun")
  /\ UNCHANGED <<lockFile, workers, cancelled, requests, log, crashes>>

-----------------------------------------------------------------------------
(***************************************************************************)
(* The end of realMain and its defers: logs, store, lock.                  *)
(***************************************************************************)
\* An error is a warning and does not become realMain's: the row stays open.
FinishRun(p) ==
  /\ At(p, "finishRun")
  /\ \E row \in {"finished", "unmarked"} :
       main' = [main EXCEPT ![p].at = "closeLogs", ![p].run = row]
  /\ UNCHANGED others

\* Mutant: the lock is released before the store is closed.
MutCloseLogs(p) ==
  /\ \/ /\ At(p, "closeLogs")
        /\ log' = [log EXCEPT ![p].state = "closing"]
        /\ Goto(p, "waitLogs")
        /\ UNCHANGED lockFile
     \/ /\ At(p, "waitLogs") /\ log[p].state = "done"
        /\ Goto(p, "closeStore")
        /\ lockFile' = NoOne
        /\ UNCHANGED log
  /\ UNCHANGED <<workers, cancelled, requests, chrome, crashes>>

\* LogStore.Close: the channel is closed, the writer finishes, the db closes.
CloseLogs(p) ==
  /\ \/ /\ At(p, "closeLogs")
        /\ log' = [log EXCEPT ![p].state = "closing"]
        /\ Goto(p, "waitLogs")
     \/ /\ At(p, "waitLogs") /\ log[p].state = "done"
        /\ Goto(p, "closeStore")
        /\ UNCHANGED log
  /\ UNCHANGED <<lockFile, workers, cancelled, requests, chrome, crashes>>

CloseStore(p) ==
  /\ At(p, "closeStore")
  /\ Goto(p, "release")
  /\ UNCHANGED others

\* Whatever is there is removed; nobody looks whether it could be.
release(p) ==
  /\ At(p, "release")
  /\ \/ /\ lockFile' = IF ExclusiveLock THEN NoOne ELSE lockFile
        /\ Gone(p, main[p].exit)
     \/ /\ ExclusiveLock /\ Gone(p, "lock stays")
        /\ UNCHANGED lockFile
  /\ UNCHANGED <<chrome, crashes>>

-----------------------------------------------------------------------------
(***************************************************************************)
(* Signals, kills, and the operator.                                       *)
(***************************************************************************)
\* The process dies as it stands: no defer runs.
Die(p) ==
  /\ chrome' = [chrome EXCEPT ![p] = IF @ = "up" THEN "killed" ELSE @]
  /\ Gone(p, "crash")
  /\ UNCHANGED lockFile

Caught(p) == main[p].at \notin {"off", "openStore", "openLogs", "startRun", "profile"}

\* SIGTERM or ^C: caught from signal.NotifyContext on.
Signal(p) ==
  /\ Caught(p) /\ ~main[p].stop
  /\ main' = [main EXCEPT ![p].stop = TRUE]
  /\ UNCHANGED others

\* A kill, a crash, or a signal before there is a handler for it.
Crash(p) ==
  /\ ~At(p, "off") /\ crashes < MaxCrashes
  /\ crashes' = crashes + 1
  /\ Die(p)

\* "If no harvester is running, delete" the lock file and retry.
DeleteLock ==
  /\ lockFile # NoOne /\ \A p \in Procs : At(p, "off")
  /\ lockFile' = NoOne
  /\ UNCHANGED <<main, workers, cancelled, requests, chrome, log, crashes>>

-----------------------------------------------------------------------------
(***************************************************************************)
(* Goroutines besides main: a job, a request, and the lines they log.      *)
(***************************************************************************)
TakeJob(p) ==
  /\ workers[p] = "idle" /\ ~cancelled[p]
  /\ workers' = [workers EXCEPT ![p] = "busy"]
  /\ UNCHANGED <<lockFile, main, cancelled, requests, chrome, log, crashes>>

EndJob(p) ==
  /\ workers[p] = "busy"
  /\ workers' = [workers EXCEPT ![p] = IF cancelled[p] THEN "none" ELSE "idle"]
  /\ UNCHANGED <<lockFile, main, cancelled, requests, chrome, log, crashes>>

Request(p) ==
  /\ At(p, "serving") /\ ~requests[p]
  /\ requests' = [requests EXCEPT ![p] = TRUE]
  /\ UNCHANGED <<lockFile, main, workers, cancelled, chrome, log, crashes>>

Answer(p) ==
  /\ requests[p]
  /\ requests' = [requests EXCEPT ![p] = FALSE]
  /\ UNCHANGED <<lockFile, main, workers, cancelled, chrome, log, crashes>>

\* Write never blocks: a line is queued, or dropped when the channel is full.
Write(p) ==
  /\ log[p].state = "open" /\ log[p].written < MaxLines
  /\ log' = IF log[p].queued < BufferSize
            THEN [log EXCEPT ![p].written = @ + 1, ![p].queued = @ + 1]
            ELSE [log EXCEPT ![p].written = @ + 1, ![p].dropped = @ + 1]
  /\ UNCHANGED <<lockFile, main, workers, cancelled, requests, chrome, crashes>>

\* A goroutine that outlives Close logs to a closed channel: a panic.  It is a
\* worker's, one that a request started, or the poller's, the reaper's or the
\* vacuum's, which log the statement that their cancelled context cut short.
WriteClosed(p) ==
  /\ log[p].state \in {"closing", "done"}
  /\ workers[p] = "busy" \/ requests[p] \/ cancelled[p]
  /\ Die(p)
  /\ UNCHANGED crashes

\* The transaction commits, or the whole batch is gone without a count.
flush(l) ==
  {[l EXCEPT !.batch = 0, !.stored = @ + l.batch], [l EXCEPT !.batch = 0, !.lost = @ + l.batch]}

\* Mutant: the batch is flushed one line late.
MutReceive(p) ==
  /\ ~At(p, "off") /\ log[p].queued > 0
  /\ LET l == [log[p] EXCEPT !.queued = @ - 1, !.batch = @ + 1]
     IN \E next \in IF l.batch > BatchSize THEN flush(l) ELSE {l} :
          log' = [log EXCEPT ![p] = next]
  /\ UNCHANGED <<lockFile, main, workers, cancelled, requests, chrome, crashes>>

Receive(p) ==
  /\ ~At(p, "off") /\ log[p].queued > 0
  /\ LET l == [log[p] EXCEPT !.queued = @ - 1, !.batch = @ + 1]
     IN \E next \in IF l.batch >= BatchSize THEN flush(l) ELSE {l} :
          log' = [log EXCEPT ![p] = next]
  /\ UNCHANGED <<lockFile, main, workers, cancelled, requests, chrome, crashes>>

FlushTick(p) ==
  /\ ~At(p, "off") /\ log[p].batch > 0
  /\ \E next \in flush(log[p]) : log' = [log EXCEPT ![p] = next]
  /\ UNCHANGED <<lockFile, main, workers, cancelled, requests, chrome, crashes>>

\* Mutant: the writer ends on the closed channel without a last flush.
MutDrain(p) ==
  /\ ~At(p, "off") /\ log[p].state = "closing" /\ log[p].queued = 0
  /\ log' = [log EXCEPT ![p].batch = 0, ![p].state = "done"]
  /\ UNCHANGED <<lockFile, main, workers, cancelled, requests, chrome, crashes>>

\* The channel is closed and empty: the last batch, and the writer is done.
Drain(p) ==
  /\ ~At(p, "off") /\ log[p].state = "closing" /\ log[p].queued = 0
  /\ \E next \in flush(log[p]) : log' = [log EXCEPT ![p] = [next EXCEPT !.state = "done"]]
  /\ UNCHANGED <<lockFile, main, workers, cancelled, requests, chrome, crashes>>

-----------------------------------------------------------------------------
\* What the main goroutine does within some limit of time, and what waits for
\* Chrome without one; a window that is closed ends that wait.
TimedStep(p) ==
  \/ openStore(p) \/ openLogStore(p) \/ StartRun(p) \/ MakeProfile(p)
  \/ chrome[p] = "gone" /\ OpenStartPage(p)
  \/ Startup(p) \/ StopServing(p) \/ Shutdown(p) \/ CancelJobs(p)
  \/ StopBrowsing(p) \/ closeBrowser(p)
  \/ FinishRun(p) \/ CloseLogs(p) \/ CloseStore(p) \/ release(p)

MainStep(p) == TimedStep(p) \/ launch(p) \/ OpenStartPage(p)

WriterStep(p) == Receive(p) \/ FlushTick(p) \/ Drain(p)

Next ==
  \/ \E p \in Procs, mode \in Modes : acquireLock(p, mode)
  \/ \E p \in Procs :
       \/ MainStep(p) \/ WriterStep(p)
       \/ ListenFails(p) \/ PressEnter(p) \/ CloseWindow(p)
       \/ Signal(p) \/ Crash(p)
       \/ TakeJob(p) \/ EndJob(p) \/ Request(p) \/ Answer(p)
       \/ Write(p) \/ WriteClosed(p)
  \/ DeleteLock

Spec == Init /\ [][Next]_vars

\* The main goroutine and the log writer run, and what they wait for has a limit
\* (20 s for Shutdown, 15 s for Chrome to close, 10 s for a flush, llm.timeout
\* for the model that boot asks).  Nothing limits a request, a job, the launch
\* of Chrome or its start page.
Fairness == \A p \in Procs : WF_vars(TimedStep(p)) /\ WF_vars(WriterStep(p))

FairSpec == Spec /\ Fairness

-----------------------------------------------------------------------------
TypeOK ==
  /\ lockFile \in Procs \cup {NoOne}
  /\ main \in [Procs ->
       [at : {"off", "openStore", "openLogs", "startRun", "profile", "launch", "startPage",
              "startup", "serving", "browsing", "shutdown", "cancelJobs", "closeBrowser", "finishRun",
              "closeLogs", "waitLogs", "closeStore", "release"},
        mode : Modes \cup {"serve"}, stop : BOOLEAN, run : {"none", "open", "finished", "unmarked"},
        exit : {"none", "ok", "error", "crash", "no lock", "lock stays"}]]
  /\ workers \in [Procs -> {"none", "idle", "busy"}]
  /\ cancelled \in [Procs -> BOOLEAN] /\ requests \in [Procs -> BOOLEAN]
  /\ chrome \in [Procs -> {"none", "up", "gone", "killed"}]
  /\ log \in [Procs ->
       [state : {"none", "open", "closing", "done"}, queued : 0 .. BufferSize,
        batch : 0 .. BatchSize - 1, written : 0 .. MaxLines, stored : 0 .. MaxLines,
        dropped : 0 .. MaxLines, lost : 0 .. MaxLines]]
  /\ crashes \in 0 .. MaxCrashes

\* With exclusive_lock at most one process has the databases open (lock.go),
\* whatever crashes, early returns and deletions of a stale lock come between.
OneOwner ==
  ExclusiveLock =>
    Cardinality({p \in Procs : main[p].at \notin {"off", "openStore", "release"}}) <= 1

\* Every line is in the channel, with the writer, stored, counted as dropped
\* or in a batch whose flush erred; once Close is over none is on its way.
LogAccounted ==
  \A p \in Procs : LET l == log[p] IN
    /\ l.written = l.queued + l.batch + l.stored + l.dropped + l.lost
    /\ l.state = "done" => l.queued = 0 /\ l.batch = 0

\* A process that returns from main leaves no Chrome, whether it returns an
\* error or not, and no lock unless the file could not be removed or, when it
\* was new, closed; any other that has left its lock died, be it on a write to
\* the closed log.  A good end has not skipped FinishRun: its run is finished,
\* or the one UPDATE erred (which main only logs).
TidyExit ==
  \A p \in Procs : At(p, "off") =>
    /\ lockFile = p => main[p].exit \in {"crash", "no lock", "lock stays"}
    /\ main[p].exit # "crash" => chrome[p] # "up"
    /\ (main[p].exit = "ok" /\ main[p].run # "none") => main[p].run \in {"finished", "unmarked"}

\* Chrome does not keep p for ever where p waits for it without a deadline.
ChromeAnswers(p) == []<>(main[p].at \notin {"launch", "startPage"})

\* A process that is asked to stop does, though a request may never end; in
\* browse mode so does one whose window was closed.  Only a Chrome that hangs
\* while it starts or opens the first page can keep a process from it.
StopsEventually ==
  \A p \in Procs : ChromeAnswers(p) =>
    ((main[p].stop \/ (main[p].at \in {"startPage", "browsing"} /\ chrome[p] = "gone"))
       ~> At(p, "off"))
=============================================================================
