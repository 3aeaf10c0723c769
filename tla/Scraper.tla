------------------------------- MODULE Scraper -------------------------------
(***************************************************************************)
(* Scrape calls (scraper.go) with the robots cache (robots.go), the scrape *)
(* cache (scrapecache.go), its part of the cleanup job (cleanup.go) and    *)
(* the browser tabs of the fallback.                                       *)
(*                                                                         *)
(* A call starts one group, a goroutine, per host; a group works on its    *)
(* URLs one after another.  Waiting for a place, a robots.txt, a response  *)
(* or a tab, and every SQL statement, is a step.  The context of a call    *)
(* ends when its deadline passes or its caller goes away, at any time.     *)
(*                                                                         *)
(* A row is what the last fetch of its URL left, be it a page, a failure   *)
(* or a robots refusal: saved alike, with or without an ETag.  Its sliding *)
(* window (Tiers) is only fresh or not.                                    *)
(***************************************************************************)
EXTENDS Naturals, Sequences, FiniteSets

CONSTANTS
  Calls,        \* the Scrape calls that may be made, each once
  Urls,
  Wants,        \* Wants[c]: the URLs of call c, in the caller's order
  HostOf,       \* HostOf[u]: the host of URL u, or NoHost
  NoHost,       \* of a URL that does not parse or names no host
  Disallowed,   \* the URLs that their robots.txt disallows
  LeadsTo,      \* LeadsTo[u]: where redirects and scripts of u may lead
  UseCache,     \* the calls made with use_cache
  Patient,      \* the calls with no deadline and a caller who stays
  MaxURLs, MaxDomains, MaxBrowserTabs,  \* ScrapeConfig
  MaxIds,       \* bound on the ids of one URL in use at the same time
  MaxLosses     \* bound on robots.txt requests that fail

ASSUME ScraperAssumption ==
  /\ IsFiniteSet(Calls) /\ IsFiniteSet(Urls)
  /\ Wants \in [Calls -> Seq(Urls)]
  /\ DOMAIN HostOf = Urls /\ LeadsTo \in [Urls -> SUBSET Urls]
  /\ Disallowed \subseteq Urls /\ UseCache \subseteq Calls /\ Patient \subseteq Calls
  /\ {MaxURLs, MaxDomains, MaxBrowserTabs, MaxIds} \subseteq Nat \ {0}
  /\ MaxLosses \in Nat

VARIABLES
  call,      \* call[c]: "new", "running" or "returned"
  ended,     \* ended[c]: the context of the call is done
  group,     \* group[g]: the statement a goroutine is at, and what it holds
  results,   \* results[c]: the places of the list with an outcome appended
  entry,     \* robots cache per host: "none", "busy", "rules" or "nil"
  losses,    \* history: the hosts whose robots.txt could not be read
  tabs,      \* taken browserSlots
  row,       \* scrape_cache per URL: [id, etag, fresh] or NoRow
  doomed,    \* rows the cleanup job has selected: <<url, id>>
  fetched    \* history: <<URL of the loop, URL requested for it>>, of requests
             \* for a disallowed URL

table == <<row, doomed>>
robots == <<entry, losses>>
vars == <<call, ended, group, results, robots, tabs, table, fetched>>

Hosts == {HostOf[u] : u \in Urls} \ {NoHost}
NoRow == [id |-> 0, etag |-> FALSE, fresh |-> FALSE]
Rows == [id : 0 .. MaxIds, etag : BOOLEAN, fresh : BOOLEAN]
IsRow(r) == r.id # 0

\* A URL is known by its place in the caller's list; the cap comes before the
\* grouping, which drops what has no host.
Capped(c) == {n \in DOMAIN Wants[c] : n <= MaxURLs}
groupByHost(c, h) == {n \in Capped(c) : HostOf[Wants[c][n]] = h}
Groups == {g \in Calls \X Hosts : groupByHost(g[1], g[2]) # {}}
GroupsOf(c) == {g \in Groups : g[1] = c}

\* place: of its last URL, 0 before the first; copy: the row looked up; etag: of
\* the response.
AtStart == [at |-> "start", place |-> 0, copy |-> NoRow, etag |-> FALSE]

Init ==
  /\ call = [c \in Calls |-> "new"]
  /\ ended = [c \in Calls |-> FALSE]
  /\ group = [g \in Groups |-> AtStart]
  /\ results = [c \in Calls |-> {}]
  /\ entry = [h \in Hosts |-> "none"] /\ losses = {}
  /\ tabs = 0
  /\ row = [u \in Urls |-> NoRow]
  /\ doomed = {}
  /\ fetched = {}

At(g, pc) == call[g[1]] = "running" /\ group[g].at = pc
Url(g) == Wants[g[1]][group[g].place]
\* The URLs of its list that the loop has before it.
Later(g) == {n \in groupByHost(g[1], g[2]) : n > group[g].place}
Ended(g) == ended[g[1]]
\* The http.Client follows redirects, and a tab its page; only the URL that
\* the loop is at was held against the rules.
Request(g) ==
  \E led \in SUBSET LeadsTo[Url(g)] :
    fetched' = fetched \cup {<<Url(g), u>> : u \in ({Url(g)} \cup led) \cap Disallowed}
Goto(g, state) == group' = [group EXCEPT ![g] = state]
\* Groups of the call that hold a place in its sem channel.
Placed(c) == {g \in GroupsOf(c) : group[g].at \notin {"start", "over"}}

\* The goroutine appends its outcome and turns to its next URL.
Report(g) ==
  /\ results' = [results EXCEPT ![g[1]] = @ \cup {group[g].place}]
  /\ Goto(g, [AtStart EXCEPT !.at = "next", !.place = group[g].place])

-----------------------------------------------------------------------------
(***************************************************************************)
(* Scrape: the call, its context and its groups.                           *)
(***************************************************************************)
Scrape(c) ==
  /\ call[c] = "new"
  /\ call' = [call EXCEPT ![c] = "running"]
  /\ UNCHANGED <<ended, group, results, robots, tabs, table, fetched>>

EndContext(c) ==
  /\ c \notin Patient /\ call[c] = "running" /\ ~ended[c]
  /\ ended' = [ended EXCEPT ![c] = TRUE]
  /\ UNCHANGED <<call, group, results, robots, tabs, table, fetched>>

\* wg.Wait is over; runScrape then enqueues the distill jobs.
Return(c) ==
  /\ call[c] = "running"
  /\ \A g \in GroupsOf(c) : group[g].at = "over"
  /\ call' = [call EXCEPT ![c] = "returned"]
  /\ UNCHANGED <<ended, group, results, robots, tabs, table, fetched>>

\* select: a place in sem, or the end of the context.
Enter(g) ==
  /\ At(g, "start")
  /\ \/ /\ Cardinality(Placed(g[1])) < MaxDomains
        /\ Goto(g, [group[g] EXCEPT !.at = "next"])
     \/ /\ Ended(g)
        /\ Goto(g, [group[g] EXCEPT !.at = "over"])
  /\ UNCHANGED <<call, ended, results, robots, tabs, table, fetched>>

\* The loop ends with its list or, before a URL or in the delay, its context.
Leave(g) ==
  /\ At(g, "next")
  /\ Ended(g) \/ Later(g) = {}
  /\ Goto(g, [group[g] EXCEPT !.at = "over"])
  /\ UNCHANGED <<call, ended, results, robots, tabs, table, fetched>>

\* LookupScrapeCache: a fresh row ends in a touch, a stale one is revalidated.
\* An error, the end of the context among others, counts as no row.
Lookup(g) ==
  /\ At(g, "next")
  /\ \E n \in Later(g), ok \in {FALSE, ~Ended(g)} :
       LET r == row[Wants[g[1]][n]]
           hit == g[1] \in UseCache /\ IsRow(r) /\ ok
       IN /\ \A k \in Later(g) : n <= k
          /\ Goto(g, [AtStart EXCEPT !.at = IF hit /\ r.fresh THEN "touch" ELSE "robots",
                                    !.place = n, !.copy = IF hit THEN r ELSE NoRow])
  /\ UNCHANGED <<call, ended, results, robots, tabs, table, fetched>>

\* Mutant: the touch goes by URL and brings the row back from the copy.
MutTouch(g) ==
  /\ At(g, "touch")
  /\ row' = [row EXCEPT ![Url(g)] = [group[g].copy EXCEPT !.fresh = TRUE]]
  /\ Report(g)
  /\ UNCHANGED <<call, ended, robots, tabs, doomed, fetched>>

\* touchScrapeCache by id, for a hit and for a 304; its error is dropped.
Touch(g) ==
  /\ At(g, "touch")
  /\ \/ UNCHANGED row
     \/ /\ row[Url(g)].id = group[g].copy.id /\ ~Ended(g)
        /\ row' = [row EXCEPT ![Url(g)].fresh = TRUE]
  /\ Report(g)
  /\ UNCHANGED <<call, ended, robots, tabs, doomed, fetched>>

-----------------------------------------------------------------------------
(***************************************************************************)
(* robotsCache: the first group fetches, the others wait inside once.Do,   *)
(* which does not look at their contexts.                                  *)
(***************************************************************************)
RobotsClaim(g) ==
  /\ At(g, "robots") /\ entry[g[2]] = "none"
  /\ entry' = [entry EXCEPT ![g[2]] = "busy"]
  /\ Goto(g, [group[g] EXCEPT !.at = "robotsFetch"])
  /\ UNCHANGED <<call, ended, results, losses, tabs, table, fetched>>

\* Mutant: a request that fails returns before it tells those who wait.
MutRobotsFetch(g) ==
  /\ At(g, "robotsFetch")
  /\ \/ /\ ~Ended(g)
        /\ entry' = [entry EXCEPT ![g[2]] = "rules"]
        /\ UNCHANGED losses
     \/ /\ Ended(g) \/ Cardinality(losses) < MaxLosses
        /\ losses' = losses \cup {g[2]}
        /\ UNCHANGED entry
  /\ Goto(g, [group[g] EXCEPT !.at = "robots"])
  /\ UNCHANGED <<call, ended, results, tabs, table, fetched>>

\* A request that fails, or whose caller goes away, leaves "allow" for ever.
RobotsFetch(g) ==
  /\ At(g, "robotsFetch")
  /\ \/ /\ ~Ended(g)
        /\ entry' = [entry EXCEPT ![g[2]] = "rules"]
        /\ UNCHANGED losses
     \/ /\ Ended(g) \/ Cardinality(losses) < MaxLosses
        /\ entry' = [entry EXCEPT ![g[2]] = "nil"]
        /\ losses' = losses \cup {g[2]}
  /\ Goto(g, [group[g] EXCEPT !.at = "robots"])
  /\ UNCHANGED <<call, ended, results, tabs, table, fetched>>

\* Mutant: a group that finds the entry does not wait for its fetch.
MutAllowed(g) ==
  /\ At(g, "robots") /\ entry[g[2]] # "none"
  /\ IF entry[g[2]] = "rules" /\ Url(g) \in Disallowed
     THEN Goto(g, [group[g] EXCEPT !.at = "save", !.copy = NoRow])
     ELSE Goto(g, [group[g] EXCEPT !.at = "fetch"])
  /\ UNCHANGED <<call, ended, results, robots, tabs, table, fetched>>

\* Allowed, and the crawl-delay, in which the end of the context is an outcome.
Allowed(g) ==
  /\ At(g, "robots") /\ entry[g[2]] \in {"rules", "nil"}
  /\ \/ /\ entry[g[2]] = "rules" /\ Url(g) \in Disallowed
        /\ Goto(g, [group[g] EXCEPT !.at = "save", !.copy = NoRow])
        /\ UNCHANGED results
     \/ /\ entry[g[2]] = "nil" \/ Url(g) \notin Disallowed
        /\ Goto(g, [group[g] EXCEPT !.at = "fetch"])
        /\ UNCHANGED results
     \/ /\ entry[g[2]] = "rules" /\ Url(g) \notin Disallowed /\ Ended(g)
        /\ Report(g)
  /\ UNCHANGED <<call, ended, robots, tabs, table, fetched>>

-----------------------------------------------------------------------------
(***************************************************************************)
(* The fetch, over HTTP and in a browser tab.                              *)
(***************************************************************************)
\* fetchHTTP: a 304 when the copy had an ETag; else what came, failures of
\* any kind included, is saved, and HTML with little text goes to a tab first.
Fetch(g) ==
  /\ At(g, "fetch")
  /\ \/ /\ ~Ended(g) /\ group[g].copy.etag
        /\ Goto(g, [group[g] EXCEPT !.at = "touch"])
     \/ \E etag \in BOOLEAN, next \in {"save", "slot"} :
          /\ Ended(g) => ~etag /\ next = "save"
          /\ Goto(g, [group[g] EXCEPT !.at = next, !.etag = etag, !.copy = NoRow])
  /\ IF Ended(g) THEN UNCHANGED fetched ELSE Request(g)
  /\ UNCHANGED <<call, ended, results, robots, tabs, table>>

\* Mutant: one slot too many.
MutTakeSlot(g) ==
  /\ At(g, "slot")
  /\ tabs <= MaxBrowserTabs
  /\ tabs' = tabs + 1
  /\ Goto(g, [group[g] EXCEPT !.at = "open"])
  /\ UNCHANGED <<call, ended, results, robots, table, fetched>>

\* browserSlots, or the end of the context: then the thin HTML is saved.
TakeSlot(g) ==
  /\ At(g, "slot")
  /\ \/ /\ tabs < MaxBrowserTabs
        /\ tabs' = tabs + 1
        /\ Goto(g, [group[g] EXCEPT !.at = "open"])
     \/ /\ Ended(g)
        /\ Goto(g, [group[g] EXCEPT !.at = "save"])
        /\ UNCHANGED tabs
  /\ UNCHANGED <<call, ended, results, robots, table, fetched>>

\* Mutant: an error of newTab returns before the slot is given back.
MutNewTab(g) ==
  /\ At(g, "open")
  /\ \E next \in {"tab", "save"} : Goto(g, [group[g] EXCEPT !.at = next])
  /\ UNCHANGED <<call, ended, results, robots, tabs, table, fetched>>

\* newTab, with the slot held: no deadline bounds it, and as the tab belongs to
\* the browser's context, the end of the call does not either.
NewTab(g) ==
  /\ At(g, "open")
  /\ \/ /\ Goto(g, [group[g] EXCEPT !.at = "tab"])
        /\ UNCHANGED tabs
     \/ /\ Goto(g, [group[g] EXCEPT !.at = "save"])
        /\ tabs' = tabs - 1
  /\ UNCHANGED <<call, ended, results, robots, table, fetched>>

\* What the tab brings within its timeout or, on an error, the thin HTML is saved.
Tab(g) ==
  /\ At(g, "tab")
  /\ tabs' = tabs - 1
  /\ Request(g)
  /\ Goto(g, [group[g] EXCEPT !.at = "save"])
  /\ UNCHANGED <<call, ended, results, robots, table>>

-----------------------------------------------------------------------------
(***************************************************************************)
(* SaveScrape: UPDATE by URL and, if that met no row, INSERT.              *)
(***************************************************************************)
Fetched(g, id) == [id |-> id, etag |-> group[g].etag, fresh |-> TRUE]

\* Mutant: a statement that errs ends the goroutine and not only the URL.
MutSaveUpdate(g) ==
  /\ At(g, "save")
  /\ \/ /\ Ended(g) \/ ~IsRow(row[Url(g)])
        /\ Goto(g, [group[g] EXCEPT !.at = IF Ended(g) THEN "over" ELSE "insert"])
        /\ UNCHANGED <<row, results>>
     \/ /\ ~Ended(g) /\ IsRow(row[Url(g)])
        /\ row' = [row EXCEPT ![Url(g)] = Fetched(g, @.id)]
        /\ Goto(g, [group[g] EXCEPT !.at = "over"])
        /\ UNCHANGED results
  /\ UNCHANGED <<call, ended, robots, tabs, doomed, fetched>>

\* A statement that errs, or a SELECT of the id that finds the row deleted just
\* after the UPDATE, is an outcome too.
SaveUpdate(g) ==
  /\ At(g, "save")
  /\ \/ /\ Report(g)
        /\ UNCHANGED row
     \/ /\ ~Ended(g) /\ IsRow(row[Url(g)])
        /\ row' = [row EXCEPT ![Url(g)] = Fetched(g, @.id)]
        /\ Report(g)
     \/ /\ ~Ended(g) /\ ~IsRow(row[Url(g)])
        /\ Goto(g, [group[g] EXCEPT !.at = "insert"])
        /\ UNCHANGED <<row, results>>
  /\ UNCHANGED <<call, ended, robots, tabs, doomed, fetched>>

\* Ids are not reused while a copy or the cleanup job still knows them.
FreeIds(u) ==
  {n \in 1 .. MaxIds : <<u, n>> \notin doomed /\ \A g \in Groups : group[g].copy.id # n}

\* url is UNIQUE: a second INSERT errs, as one after the context's end does.
SaveInsert(g) ==
  /\ At(g, "insert")
  /\ \/ UNCHANGED row
     \/ /\ ~Ended(g) /\ ~IsRow(row[Url(g)])
        /\ \E id \in FreeIds(Url(g)) :
             /\ \A k \in FreeIds(Url(g)) : id <= k
             /\ row' = [row EXCEPT ![Url(g)] = Fetched(g, id)]
  /\ Report(g)
  /\ UNCHANGED <<call, ended, robots, tabs, doomed, fetched>>

-----------------------------------------------------------------------------
(***************************************************************************)
(* Windows that pass, and deleteExpired.                                   *)
(***************************************************************************)
Expire(u) ==
  /\ row[u].fresh
  /\ row' = [row EXCEPT ![u].fresh = FALSE]
  /\ UNCHANGED <<call, ended, group, results, robots, tabs, doomed, fetched>>

CleanupSelect ==
  /\ doomed = {}
  /\ doomed' = {<<u, row[u].id>> : u \in {v \in Urls : IsRow(row[v]) /\ ~row[v].fresh}}
  /\ UNCHANGED <<call, ended, group, results, robots, tabs, row, fetched>>

CleanupDelete(u) ==
  /\ \E d \in doomed :
       /\ d[1] = u
       /\ doomed' = doomed \ {d}
       /\ row' = IF row[u].id = d[2] THEN [row EXCEPT ![u] = NoRow] ELSE row
  /\ UNCHANGED <<call, ended, group, results, robots, tabs, fetched>>

-----------------------------------------------------------------------------
\* The steps of a goroutine that are its own, or that a timeout bounds.
GroupStep(g) ==
  \/ Enter(g) \/ Leave(g) \/ Lookup(g) \/ Touch(g)
  \/ RobotsClaim(g) \/ RobotsFetch(g) \/ Allowed(g)
  \/ Fetch(g) \/ TakeSlot(g) \/ Tab(g)
  \/ SaveUpdate(g) \/ SaveInsert(g)

Next ==
  \/ \E c \in Calls : Scrape(c) \/ EndContext(c) \/ Return(c)
  \/ \E g \in Groups : GroupStep(g) \/ NewTab(g)
  \/ \E u \in Urls : Expire(u) \/ CleanupDelete(u)
  \/ CleanupSelect

Spec == Init /\ [][Next]_vars

\* Goroutines run: requests and what a tab does once it is open have timeouts
\* (http_timeout), statements come back, and a select whose channel has room is
\* served.  Of newTab nothing is assumed.
Fairness ==
  /\ \A g \in Groups : WF_vars(GroupStep(g))
  /\ \A c \in Calls : WF_vars(Return(c))

FairSpec == Spec /\ Fairness

-----------------------------------------------------------------------------
TypeOK ==
  /\ call \in [Calls -> {"new", "running", "returned"}]
  /\ ended \in [Calls -> BOOLEAN]
  /\ group \in [Groups ->
       [at : {"start", "next", "touch", "robots", "robotsFetch", "fetch", "slot", "open", "tab",
              "save", "insert", "over"},
        place : 0 .. MaxURLs, copy : Rows, etag : BOOLEAN]]
  /\ \A c \in Calls : results[c] \subseteq Capped(c)
  /\ entry \in [Hosts -> {"none", "busy", "rules", "nil"}]
  /\ losses \subseteq Hosts /\ fetched \subseteq Urls \X Disallowed
  /\ tabs \in 0 .. MaxBrowserTabs
  /\ row \in [Urls -> Rows]
  /\ doomed \subseteq Urls \X (1 .. MaxIds)

\* Every slot that is taken belongs to a tab that opens or is open, whichever
\* way the fallbacks of all the calls end: none leaks, and there are never more than
\* max_browser_tabs; and no call works on more than max_domains hosts.
SlotsBalanced ==
  /\ tabs = Cardinality({g \in Groups : At(g, "open") \/ At(g, "tab")})
  /\ tabs <= MaxBrowserTabs
  /\ \A c \in Calls : Cardinality(Placed(c)) <= MaxDomains

\* What a disallowed URL is requested for is a URL of the list that its robots.txt
\* allows, from where a redirect or a script led there (nobody looks at the rules
\* of the target: scraper.go:47-55, 334), or whose robots.txt could not be read
\* (robots.go).  A disallowed URL itself is never asked for while its rules can
\* be read: a group that meets another's fetch of them waits for the answer,
\* whatever becomes of the call that makes the fetch.
RobotsRespected ==
  \A f \in fetched : f[1] \in Disallowed => HostOf[f[1]] \in losses

\* A call that ran to its end has an outcome for every URL of its capped list
\* that names a host: failures, refusals and rows deleted under it are outcomes,
\* not gaps.
EveryUrlAnswered ==
  \A c \in Calls : (call[c] = "returned" /\ ~ended[c]) =>
    results[c] = {n \in Capped(c) : HostOf[Wants[c][n]] # NoHost}

\* A row comes into the cache only through a fetch or a refusal: a touch on
\* its way with the copy of a row that cleanup deleted does not bring it back.
OnlySavesCreate ==
  [][\A u \in Urls : (~IsRow(row[u]) /\ IsRow(row'[u])) =>
       \E g \in Groups : At(g, "insert") /\ Url(g) = u]_vars

\* No call runs for ever, provided that Chrome leaves no newTab without an answer:
\* nobody waits for good for a place, a slot or another group's robots.txt.  A
\* newTab that hangs (browser.go:70-95 has no deadline) holds its call and its
\* slot for ever, and with the slots all calls that need one and do not end.
TabsOpen == \A g \in Groups : []<>~At(g, "open")
CallsReturn == TabsOpen => \A c \in Calls : []<>(call[c] # "running")
=============================================================================
