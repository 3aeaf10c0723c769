---------------------------- MODULE ScraperProofs ----------------------------
(***************************************************************************)
(* What holds of Scraper for any number of calls, URLs and hosts, any      *)
(* limits and any robots.txt, with cleanup, lost requests and contexts     *)
(* that end at any time: the types, the balance of tabs and places, the    *)
(* robots rules, that every URL is answered, and that only a save brings a *)
(* row into the cache.                                                     *)
(***************************************************************************)
EXTENDS Scraper, FiniteSetTheorems, TLAPS

State == [at : {"start", "next", "touch", "robots", "robotsFetch", "fetch", "slot", "open",
                "tab", "save", "insert", "over"},
          place : 0 .. MaxURLs, copy : Rows, etag : BOOLEAN]

\* The statements between taking up a URL and its outcome.
Working ==
  {"touch", "robots", "robotsFetch", "fetch", "slot", "open", "tab", "save", "insert"}

\* Those that follow the robots check and come before the save.
Fetching == {"fetch", "slot", "open", "tab"}

WithSlot == {"open", "tab"}
InTab == {g \in Groups : At(g, "open") \/ At(g, "tab")}

Works(g) == GroupStep(g) \/ NewTab(g)

\* The part of TypeOK that is inductive by itself: that tabs stays within its
\* bounds is a matter of SlotsBalanced.
Types ==
  /\ call \in [Calls -> {"new", "running", "returned"}]
  /\ ended \in [Calls -> BOOLEAN]
  /\ group \in [Groups -> State]
  /\ entry \in [Hosts -> {"none", "busy", "rules", "nil"}]
  /\ losses \subseteq Hosts
  /\ tabs \in Int
  /\ row \in [Urls -> Rows]
  /\ doomed \subseteq Urls \X (1 .. MaxIds)

\* What a group has done with the list of its host, by where it is.
GroupOK(g) ==
  LET x == group[g] IN
  /\ call[g[1]] = "new" => x.at = "start"
  /\ call[g[1]] = "returned" => x.at = "over"
  /\ x.at = "start" => x.place = 0
  /\ x.at \in Working => x.place \in groupByHost(g[1], g[2])
  /\ \A n \in groupByHost(g[1], g[2]) :
       n < x.place \/ (n = x.place /\ x.at \notin Working) => n \in results[g[1]]
  /\ x.at = "over" => ended[g[1]] \/ Later(g) = {}

Lists ==
  /\ results \in [Calls -> SUBSET Nat]
  /\ \A c \in Calls : \A n \in results[c] : n \in Capped(c) /\ HostOf[Wants[c][n]] # NoHost
  /\ \A g \in Groups : GroupOK(g)

\* A group fetches a disallowed URL only without rules; it got none only if the
\* request for them was lost.
Robots ==
  /\ \A h \in Hosts : entry[h] = "nil" => h \in losses
  /\ \A g \in Groups : group[g].at \in Fetching /\ Url(g) \in Disallowed => g[2] \in losses
  /\ fetched \subseteq Urls \X Disallowed
  /\ RobotsRespected

Inv == Types /\ Lists /\ Robots /\ SlotsBalanced

-----------------------------------------------------------------------------
(***************************************************************************)
(* The constants.                                                          *)
(***************************************************************************)
LEMMA Numbers ==
  /\ MaxURLs \in Nat \ {0} /\ MaxDomains \in Nat \ {0} /\ MaxBrowserTabs \in Nat \ {0}
  /\ MaxIds \in Nat \ {0} /\ MaxLosses \in Nat
BY ScraperAssumption

LEMMA Places ==
  ASSUME NEW g \in Groups
  PROVE  /\ g = <<g[1], g[2]>> /\ g[1] \in Calls /\ g[2] \in Hosts
         /\ groupByHost(g[1], g[2]) \subseteq 1 .. MaxURLs
         /\ \A n \in groupByHost(g[1], g[2]) :
              /\ n \in Capped(g[1]) /\ n \in Nat
              /\ Wants[g[1]][n] \in Urls /\ HostOf[Wants[g[1]][n]] = g[2] /\ g[2] # NoHost
<1>1. g = <<g[1], g[2]>> /\ g[1] \in Calls /\ g[2] \in Hosts
  BY DEF Groups
<1>2. Wants[g[1]] \in Seq(Urls)
  BY <1>1, ScraperAssumption
<1>3. ASSUME NEW n \in DOMAIN Wants[g[1]] PROVE n \in Nat \ {0} /\ Wants[g[1]][n] \in Urls
  BY <1>2, <1>3
<1> QED
  BY <1>1, <1>3, Numbers DEF groupByHost, Capped, Hosts

LEMMA GroupsFinite == IsFiniteSet(Groups)
<1> DEFINE D == {u \in Urls : HostOf[u] # NoHost}
           f == [u \in D |-> HostOf[u]]
<1>1. IsFiniteSet(Urls) /\ IsFiniteSet(Calls)
  BY ScraperAssumption
<1>2. IsFiniteSet(D)
  BY <1>1, FS_Subset
<1>3. f \in Surjection(D, Hosts)
  BY DEF Surjection, Hosts
<1>4. IsFiniteSet(Hosts)
  BY <1>2, <1>3, FS_Surjection
<1>5. IsFiniteSet(Calls \X Hosts)
  BY <1>1, <1>4, FS_Product
<1> QED
  BY <1>5, FS_Subset DEF Groups

-----------------------------------------------------------------------------
(***************************************************************************)
(* What a step of a group changes: its own state, from one place of the    *)
(* loop to another, and a tab, a row or an entry of the robots cache.      *)
(***************************************************************************)
GroupMoves(g, s) ==
  LET x == group[g] IN
  /\ s \in State /\ group' = [group EXCEPT ![g] = s]
  /\ \/ /\ x.at = "start" /\ s.at = "next" /\ s.place = x.place /\ results' = results
        /\ Cardinality(Placed(g[1])) < MaxDomains
     \/ /\ x.at = "start" /\ s.at = "over" /\ s.place = x.place /\ results' = results
        /\ Ended(g)
     \/ /\ x.at = "next" /\ s.at = "over" /\ s.place = x.place /\ results' = results
        /\ Ended(g) \/ Later(g) = {}
     \/ /\ x.at = "next" /\ s.at \in {"touch", "robots"} /\ results' = results
        /\ s.place \in Later(g) /\ \A k \in Later(g) : s.place <= k
     \/ /\ x.at \in Working /\ s.at \in Working /\ s.place = x.place /\ results' = results
     \/ /\ x.at \in Working /\ s.at = "next" /\ s.place = x.place
        /\ results' = [results EXCEPT ![g[1]] = @ \cup {x.place}]

TabMoves(g, s) ==
  \/ s.at \in WithSlot /\ group[g].at = "slot" /\ tabs < MaxBrowserTabs /\ tabs' = tabs + 1
  \/ s.at \notin WithSlot /\ group[g].at \in WithSlot /\ tabs' = tabs - 1
  \/ (s.at \in WithSlot <=> group[g].at \in WithSlot) /\ tabs' = tabs

RobotsMove(g, s) ==
  /\ \/ UNCHANGED robots
     \/ entry' = [entry EXCEPT ![g[2]] = "busy"] /\ losses' = losses
     \/ entry' = [entry EXCEPT ![g[2]] = "rules"] /\ losses' = losses
     \/ entry' = [entry EXCEPT ![g[2]] = "nil"] /\ losses' = losses \cup {g[2]}
  /\ s.at = "fetch" =>
       /\ group[g].at = "robots" /\ UNCHANGED robots
       /\ entry[g[2]] = "nil" \/ Url(g) \notin Disallowed
  /\ s.at \in Fetching \ {"fetch"} => group[g].at \in Fetching
  /\ \/ fetched' = fetched
     \/ /\ group[g].at \in Fetching
        /\ \E us \in SUBSET Disallowed : fetched' = fetched \cup {<<Url(g), u>> : u \in us}

RowMoves(g) ==
  \/ row' = row
  \/ \E r \in Rows : /\ row' = [row EXCEPT ![Url(g)] = r]
                     /\ IsRow(r) => IsRow(row[Url(g)]) \/ At(g, "insert")

\* What is requested for a URL is recorded with it.
LEMMA Requested ==
  ASSUME NEW g, Request(g)
  PROVE  \E us \in SUBSET Disallowed : fetched' = fetched \cup {<<Url(g), u>> : u \in us}
<1>1. PICK led \in SUBSET LeadsTo[Url(g)] :
        fetched' = fetched \cup {<<Url(g), u>> : u \in ({Url(g)} \cup led) \cap Disallowed}
  BY DEF Request
<1> DEFINE us == ({Url(g)} \cup led) \cap Disallowed
<1>2. us \in SUBSET Disallowed
  OBVIOUS
<1> QED
  BY <1>1, <1>2

LEMMA GroupFrame ==
  ASSUME Types, NEW g \in Groups, GroupOK(g), Works(g)
  PROVE  /\ UNCHANGED <<call, ended, doomed>> /\ call[g[1]] = "running"
         /\ \E s \in State : GroupMoves(g, s) /\ TabMoves(g, s) /\ RobotsMove(g, s)
         /\ RowMoves(g)
<1> DEFINE x == group[g]
<1>1. /\ x \in State /\ tabs \in Int /\ NoRow \in Rows /\ AtStart \in State
      /\ row \in [Urls -> Rows] /\ MaxURLs \in Nat
  BY Numbers DEF Types, State, AtStart, NoRow, Rows
<1>2. ASSUME NEW pc \in {"touch", "robots", "robotsFetch", "fetch", "slot", "open", "tab", "save",
                       "insert"}
      PROVE  pc \in Working
  BY DEF Working
<1>3. CASE Enter(g)
  <2>1. CASE Goto(g, [x EXCEPT !.at = "next"]) /\ Cardinality(Placed(g[1])) < MaxDomains
    <3> DEFINE s == [x EXCEPT !.at = "next"]
    <3>1. s \in State /\ s.at = "next" /\ s.place = x.place /\ x.at = "start"
      BY <1>1, <1>3 DEF State, Enter, At
    <3>2. group' = [group EXCEPT ![g] = s]
      BY <2>1 DEF Goto
    <3> HIDE DEF s
    <3> QED
      BY <1>3, <2>1, <3>1, <3>2 DEF Enter, At, GroupMoves, TabMoves, RobotsMove, RowMoves, table, Fetching, WithSlot
  <2>2. CASE Goto(g, [x EXCEPT !.at = "over"]) /\ Ended(g)
    <3> DEFINE s == [x EXCEPT !.at = "over"]
    <3>1. s \in State /\ s.at = "over" /\ s.place = x.place /\ x.at = "start"
      BY <1>1, <1>3 DEF State, Enter, At
    <3>2. group' = [group EXCEPT ![g] = s]
      BY <2>2 DEF Goto
    <3> HIDE DEF s
    <3> QED
      BY <1>3, <2>2, <3>1, <3>2 DEF Enter, At, GroupMoves, TabMoves, RobotsMove, RowMoves, table, Fetching, WithSlot
  <2> QED
    BY <1>3, <2>1, <2>2 DEF Enter
<1>4. CASE Leave(g)
  <2> DEFINE s == [x EXCEPT !.at = "over"]
  <2>1. s \in State /\ s.at = "over" /\ s.place = x.place /\ x.at = "next"
    BY <1>1, <1>4 DEF State, Leave, At
  <2>2. group' = [group EXCEPT ![g] = s]
    BY <1>4 DEF Leave, Goto
  <2> HIDE DEF s
  <2> QED
    BY <1>4, <2>1, <2>2 DEF Leave, At, GroupMoves, TabMoves, RobotsMove, RowMoves, table, Fetching, WithSlot
<1>5. CASE Lookup(g)
  <2>1. PICK n \in Later(g), pc \in {"touch", "robots"}, c \in Rows :
          /\ \A k \in Later(g) : n <= k
          /\ Goto(g, [AtStart EXCEPT !.at = pc, !.place = n, !.copy = c])
    <3>1. PICK n \in Later(g), ok \in {FALSE, ~Ended(g)} :
            LET r == row[Wants[g[1]][n]]
                hit == g[1] \in UseCache /\ IsRow(r) /\ ok
            IN /\ \A k \in Later(g) : n <= k
               /\ Goto(g, [AtStart EXCEPT !.at = IF hit /\ r.fresh THEN "touch" ELSE "robots",
                                         !.place = n, !.copy = IF hit THEN r ELSE NoRow])
      BY <1>5 DEF Lookup
    <3>2. row[Wants[g[1]][n]] \in Rows
      BY <1>1, Places DEF Later
    <3> QED
      BY <1>1, <3>1, <3>2
  <2> DEFINE s == [AtStart EXCEPT !.at = pc, !.place = n, !.copy = c]
  <2>2. n \in 0 .. MaxURLs
    BY Places, Numbers DEF Later
  <2>3. s \in State /\ s.at \in {"touch", "robots"} /\ s.place = n
    BY <1>1, <2>1, <2>2 DEF State, AtStart
  <2>4. group' = [group EXCEPT ![g] = s]
    BY <2>1 DEF Goto
  <2> HIDE DEF s
  <2> QED
    BY <1>5, <2>1, <2>3, <2>4 DEF Lookup, At, GroupMoves, TabMoves, RobotsMove, RowMoves, table, Fetching, WithSlot
\* A working group that goes on with its URL.
<1>6. ASSUME NEW pc \in Working, NEW c \in Rows, NEW e \in BOOLEAN,
             x.at \in Working, results' = results,
             Goto(g, [x EXCEPT !.at = pc, !.copy = c, !.etag = e])
      PROVE  \E s \in State : GroupMoves(g, s) /\ s.at = pc
  <2> DEFINE s == [x EXCEPT !.at = pc, !.copy = c, !.etag = e]
  <2>1. s \in State /\ s.at = pc /\ s.place = x.place
    BY <1>1 DEF State, Working
  <2>2. group' = [group EXCEPT ![g] = s]
    BY <1>6 DEF Goto
  <2> HIDE DEF s
  <2> QED
    BY <1>6, <2>1, <2>2 DEF GroupMoves
<1>7. ASSUME x.at \in Working, Report(g)
      PROVE  \E s \in State : GroupMoves(g, s) /\ s.at = "next"
  <2> DEFINE s == [AtStart EXCEPT !.at = "next", !.place = x.place]
  <2>1. s \in State /\ s.at = "next" /\ s.place = x.place
    BY <1>1 DEF State, AtStart
  <2>2. group' = [group EXCEPT ![g] = s]
    BY <1>7 DEF Report, Goto
  <2> HIDE DEF s
  <2> QED
    BY <1>7, <2>1, <2>2 DEF GroupMoves, Report
<1>8. ASSUME NEW pc \in Working, x.at \in Working, results' = results,
             Goto(g, [x EXCEPT !.at = pc])
      PROVE  \E s \in State : GroupMoves(g, s) /\ s.at = pc
  <2>1. x.copy \in Rows /\ x.etag \in BOOLEAN
    BY <1>1 DEF State
  <2>2. [x EXCEPT !.at = pc] = [x EXCEPT !.at = pc, !.copy = x.copy, !.etag = x.etag]
    BY <1>1 DEF State
  <2> QED
    BY <1>6, <1>8, <2>1, <2>2
<1>9. ASSUME NEW pc \in Working, NEW c \in Rows, x.at \in Working, results' = results,
             Goto(g, [x EXCEPT !.at = pc, !.copy = c])
      PROVE  \E s \in State : GroupMoves(g, s) /\ s.at = pc
  <2>1. x.etag \in BOOLEAN
    BY <1>1 DEF State
  <2>2. [x EXCEPT !.at = pc, !.copy = c] = [x EXCEPT !.at = pc, !.copy = c, !.etag = x.etag]
    BY <1>1 DEF State
  <2> QED
    BY <1>6, <1>9, <2>1, <2>2
<1>10. ASSUME At(g, "touch") \/ At(g, "save") \/ At(g, "insert") \/ At(g, "robots") PROVE Url(g) \in Urls
  BY <1>10, Places DEF At, Url, GroupOK, Working
<1>11. ASSUME NEW r \in Rows, NEW b \in BOOLEAN PROVE [r EXCEPT !.fresh = b] \in Rows
  BY DEF Rows
<1>12. CASE Touch(g)
  <2>1. PICK s \in State : GroupMoves(g, s) /\ s.at = "next"
    BY <1>2, <1>7, <1>12 DEF Touch, At
  <2>2. RowMoves(g)
    <3>1. CASE row' = row
      BY <3>1 DEF RowMoves
    <3>2. CASE /\ row[Url(g)].id = x.copy.id
               /\ row' = [row EXCEPT ![Url(g)].fresh = TRUE]
      <4> DEFINE r == [row[Url(g)] EXCEPT !.fresh = TRUE]
      <4>1. r \in Rows /\ IsRow(row[Url(g)]) = IsRow(r)
        BY <1>1, <1>10, <1>11, <1>12 DEF Touch, Rows, IsRow
      <4> QED
        BY <3>2, <4>1 DEF RowMoves
    <3> QED
      BY <1>12, <3>1, <3>2 DEF Touch
  <2> QED
    BY <1>12, <2>1, <2>2 DEF Touch, At, TabMoves, RobotsMove, Fetching, WithSlot
<1>13. CASE RobotsClaim(g)
  <2>1. PICK s \in State : GroupMoves(g, s) /\ s.at = "robotsFetch"
    BY <1>2, <1>8, <1>13 DEF RobotsClaim, At
  <2> QED
    BY <1>13, <2>1 DEF RobotsClaim, At, TabMoves, RobotsMove, RowMoves, table, Fetching, WithSlot
<1>14. CASE RobotsFetch(g)
  <2>1. PICK s \in State : GroupMoves(g, s) /\ s.at = "robots"
    BY <1>2, <1>8, <1>14 DEF RobotsFetch, At
  <2> QED
    BY <1>14, <2>1 DEF RobotsFetch, At, TabMoves, RobotsMove, RowMoves, table, Fetching, WithSlot
<1>15. CASE Allowed(g)
  <2>1. x.at = "robots" /\ x.at \in Working
    BY <1>15 DEF Allowed, At, Working
  <2>2. CASE Goto(g, [x EXCEPT !.at = "save", !.copy = NoRow]) /\ results' = results
    <3>1. PICK s \in State : GroupMoves(g, s) /\ s.at = "save"
      BY <1>1, <1>2, <1>9, <2>1, <2>2
    <3> QED
      BY <1>15, <2>1, <3>1 DEF Allowed, At, TabMoves, RobotsMove, RowMoves, table, Fetching, WithSlot
  <2>3. CASE /\ entry[g[2]] = "nil" \/ Url(g) \notin Disallowed
             /\ Goto(g, [x EXCEPT !.at = "fetch"]) /\ results' = results
    <3>1. PICK s \in State : GroupMoves(g, s) /\ s.at = "fetch"
      BY <1>2, <1>8, <2>1, <2>3
    <3> QED
      BY <1>15, <2>1, <2>3, <3>1 DEF Allowed, At, TabMoves, RobotsMove, RowMoves, table, Fetching, WithSlot
  <2>4. CASE Report(g)
    <3>1. PICK s \in State : GroupMoves(g, s) /\ s.at = "next"
      BY <1>7, <2>1, <2>4
    <3> QED
      BY <1>15, <2>1, <3>1 DEF Allowed, At, TabMoves, RobotsMove, RowMoves, table, Fetching, WithSlot
  <2> QED
    BY <1>15, <2>2, <2>3, <2>4 DEF Allowed
<1>16. CASE Fetch(g)
  <2>1. x.at = "fetch" /\ x.at \in Working
    BY <1>16 DEF Fetch, At, Working
  <2>2. PICK pc \in {"touch", "save", "slot"}, s \in State : GroupMoves(g, s) /\ s.at = pc
    <3>1. CASE Goto(g, [x EXCEPT !.at = "touch"])
      BY <1>2, <1>8, <1>16, <2>1, <3>1 DEF Fetch
    <3>2. ASSUME NEW e \in BOOLEAN, NEW pc \in {"save", "slot"},
                 Goto(g, [x EXCEPT !.at = pc, !.etag = e, !.copy = NoRow])
          PROVE  \E s \in State : GroupMoves(g, s) /\ s.at = pc
      <4>1. [x EXCEPT !.at = pc, !.etag = e, !.copy = NoRow]
              = [x EXCEPT !.at = pc, !.copy = NoRow, !.etag = e]
        BY <1>1 DEF State
      <4> QED
        BY <1>1, <1>2, <1>6, <1>16, <2>1, <3>2, <4>1 DEF Fetch
    <3> QED
      BY <1>16, <3>1, <3>2 DEF Fetch
  <2>3. \/ fetched' = fetched
        \/ \E us \in SUBSET Disallowed : fetched' = fetched \cup {<<Url(g), u>> : u \in us}
    BY <1>16, Requested DEF Fetch
  <2> QED
    BY <1>16, <2>1, <2>2, <2>3 DEF Fetch, At, TabMoves, RobotsMove, RowMoves, table, Fetching, WithSlot
<1>17. CASE TakeSlot(g)
  <2>1. x.at = "slot" /\ x.at \in Working
    BY <1>17 DEF TakeSlot, At, Working
  <2>2. CASE tabs < MaxBrowserTabs /\ tabs' = tabs + 1 /\ Goto(g, [x EXCEPT !.at = "open"])
    <3>1. PICK s \in State : GroupMoves(g, s) /\ s.at = "open"
      BY <1>2, <1>8, <1>17, <2>1, <2>2 DEF TakeSlot
    <3> QED
      BY <1>17, <2>1, <2>2, <3>1 DEF TakeSlot, At, TabMoves, RobotsMove, RowMoves, table, Fetching, WithSlot
  <2>3. CASE tabs' = tabs /\ Goto(g, [x EXCEPT !.at = "save"])
    <3>1. PICK s \in State : GroupMoves(g, s) /\ s.at = "save"
      BY <1>2, <1>8, <1>17, <2>1, <2>3 DEF TakeSlot
    <3> QED
      BY <1>17, <2>1, <2>3, <3>1 DEF TakeSlot, At, TabMoves, RobotsMove, RowMoves, table, Fetching, WithSlot
  <2> QED
    BY <1>17, <2>2, <2>3 DEF TakeSlot
<1>18. CASE NewTab(g)
  <2>1. x.at = "open" /\ x.at \in Working
    BY <1>18 DEF NewTab, At, Working
  <2>2. CASE tabs' = tabs /\ Goto(g, [x EXCEPT !.at = "tab"])
    <3>1. PICK s \in State : GroupMoves(g, s) /\ s.at = "tab"
      BY <1>2, <1>8, <1>18, <2>1, <2>2 DEF NewTab
    <3> QED
      BY <1>18, <2>1, <2>2, <3>1 DEF NewTab, At, TabMoves, RobotsMove, RowMoves, table, Fetching, WithSlot
  <2>3. CASE tabs' = tabs - 1 /\ Goto(g, [x EXCEPT !.at = "save"])
    <3>1. PICK s \in State : GroupMoves(g, s) /\ s.at = "save"
      BY <1>2, <1>8, <1>18, <2>1, <2>3 DEF NewTab
    <3> QED
      BY <1>18, <2>1, <2>3, <3>1 DEF NewTab, At, TabMoves, RobotsMove, RowMoves, table, Fetching, WithSlot
  <2> QED
    BY <1>18, <2>2, <2>3 DEF NewTab
<1>19. CASE Tab(g)
  <2>1. PICK s \in State : GroupMoves(g, s) /\ s.at = "save"
    BY <1>2, <1>8, <1>19 DEF Tab, At
  <2>2. \E us \in SUBSET Disallowed : fetched' = fetched \cup {<<Url(g), u>> : u \in us}
    BY <1>19, Requested DEF Tab
  <2> QED
    BY <1>19, <2>1, <2>2 DEF Tab, At, TabMoves, RobotsMove, RowMoves, table, Fetching, WithSlot
<1>20. ASSUME NEW id \in 0 .. MaxIds PROVE Fetched(g, id) \in Rows
  BY <1>1, <1>20 DEF Fetched, Rows, State
<1>21. CASE SaveUpdate(g)
  <2>1. x.at = "save" /\ x.at \in Working
    BY <1>21 DEF SaveUpdate, At, Working
  <2>2. CASE Report(g)
    <3>1. PICK s \in State : GroupMoves(g, s) /\ s.at = "next"
      BY <1>7, <2>1, <2>2
    <3>2. RowMoves(g)
      <4>1. CASE row' = row
        BY <4>1 DEF RowMoves
      <4>2. CASE IsRow(row[Url(g)]) /\ row' = [row EXCEPT ![Url(g)] = Fetched(g, @.id)]
        <5>1. row[Url(g)].id \in 0 .. MaxIds
          BY <1>1, <1>10, <1>21 DEF SaveUpdate, Rows
        <5> DEFINE r == Fetched(g, row[Url(g)].id)
        <5>2. r \in Rows
          BY <1>20, <5>1
        <5>3. row' = [row EXCEPT ![Url(g)] = r]
          BY <4>2
        <5> HIDE DEF r
        <5> QED
          BY <4>2, <5>2, <5>3 DEF RowMoves
      <4> QED
        BY <1>21, <2>1, <3>1, <4>1, <4>2 DEF SaveUpdate, RowMoves
    <3> QED
      BY <1>21, <2>1, <3>1, <3>2 DEF SaveUpdate, At, TabMoves, RobotsMove, Fetching, WithSlot
  <2>3. CASE Goto(g, [x EXCEPT !.at = "insert"]) /\ UNCHANGED <<row, results>>
    <3>1. PICK s \in State : GroupMoves(g, s) /\ s.at = "insert"
      BY <1>2, <1>8, <2>1, <2>3
    <3> QED
      BY <1>21, <2>1, <2>3, <3>1 DEF SaveUpdate, At, TabMoves, RobotsMove, RowMoves, table, Fetching, WithSlot
  <2> QED
    BY <1>21, <2>2, <2>3 DEF SaveUpdate
<1>22. CASE SaveInsert(g)
  <2>1. PICK s \in State : GroupMoves(g, s) /\ s.at = "next"
    BY <1>2, <1>7, <1>22 DEF SaveInsert, At
  <2>2. RowMoves(g)
    <3>1. ASSUME NEW id \in FreeIds(Url(g)), row' = [row EXCEPT ![Url(g)] = Fetched(g, id)]
          PROVE  RowMoves(g)
      <4>1. Fetched(g, id) \in Rows
        BY <1>20, Numbers DEF FreeIds
      <4> QED
        BY <1>22, <3>1, <4>1 DEF RowMoves, SaveInsert
    <3> QED
      BY <1>22, <3>1 DEF SaveInsert, RowMoves
  <2> QED
    BY <1>22, <2>1, <2>2 DEF SaveInsert, At, TabMoves, RobotsMove, Fetching, WithSlot
<1> QED
  BY <1>3, <1>4, <1>5, <1>12, <1>13, <1>14, <1>15, <1>16, <1>17, <1>18, <1>19, <1>21, <1>22
     DEF Works, GroupStep

\* Windows that pass and the cleanup job touch rows only, and make none.
TableMoves ==
  /\ UNCHANGED <<call, ended, group, results, robots, tabs, fetched>>
  /\ row' \in [Urls -> Rows] /\ doomed' \subseteq Urls \X (1 .. MaxIds)
  /\ \A u \in Urls : IsRow(row'[u]) => IsRow(row[u])

LEMMA TableFrame ==
  ASSUME Types, CleanupSelect \/ \E u \in Urls : Expire(u) \/ CleanupDelete(u)
  PROVE  TableMoves
<1>1. row \in [Urls -> Rows] /\ NoRow \in Rows /\ ~IsRow(NoRow) /\ doomed \subseteq Urls \X (1 .. MaxIds)
  BY Numbers DEF Types, NoRow, Rows, IsRow
<1>2. ASSUME NEW u \in Urls, Expire(u) PROVE TableMoves
  <2> DEFINE r == [row[u] EXCEPT !.fresh = FALSE]
  <2>1. r \in Rows /\ IsRow(r) = IsRow(row[u])
    BY <1>1 DEF Rows, IsRow
  <2>2. row' = [row EXCEPT ![u] = r] /\ doomed' = doomed
    BY <1>2 DEF Expire
  <2> HIDE DEF r
  <2>3. row' \in [Urls -> Rows] /\ \A v \in Urls : IsRow(row'[v]) => IsRow(row[v])
    BY <1>1, <2>1, <2>2
  <2> QED
    BY <1>1, <1>2, <2>2, <2>3 DEF Expire, TableMoves
<1>3. ASSUME NEW u \in Urls, CleanupDelete(u) PROVE TableMoves
  <2>1. row' = row \/ row' = [row EXCEPT ![u] = NoRow]
    BY <1>3 DEF CleanupDelete
  <2>2. row' \in [Urls -> Rows] /\ \A v \in Urls : IsRow(row'[v]) => IsRow(row[v])
    BY <1>1, <2>1
  <2> QED
    BY <1>1, <1>3, <2>2 DEF CleanupDelete, TableMoves
<1>4. CASE CleanupSelect
  <2>1. doomed' \subseteq Urls \X (1 .. MaxIds)
    <3>1. \A u \in Urls : IsRow(row[u]) => row[u].id \in 1 .. MaxIds
      BY <1>1, Numbers DEF Rows, IsRow
    <3> QED
      BY <1>4, <3>1 DEF CleanupSelect
  <2> QED
    BY <1>1, <1>4, <2>1 DEF CleanupSelect, TableMoves
<1> QED
  BY <1>2, <1>3, <1>4

LEMMA Moves ==
  ASSUME Types, [Next]_vars
  PROVE  \/ UNCHANGED vars
         \/ \E c \in Calls : Scrape(c) \/ EndContext(c) \/ Return(c)
         \/ \E g \in Groups : Works(g)
         \/ TableMoves
<1>1. ASSUME NEW u \in Urls, Expire(u) \/ CleanupDelete(u) PROVE TableMoves
  BY <1>1, TableFrame
<1>2. CleanupSelect => TableMoves
  BY TableFrame
<1> QED
  BY <1>1, <1>2 DEF Next, Works

-----------------------------------------------------------------------------
(***************************************************************************)
(* Each part of the invariant, step by step.                               *)
(***************************************************************************)
LEMMA TypesStep ==
  ASSUME Types, Lists, [Next]_vars
  PROVE  Types'
<1>1. CASE UNCHANGED vars
  BY <1>1 DEF vars, robots, table, Types
<1>2. ASSUME NEW c \in Calls, Scrape(c) PROVE Types'
  BY <1>2 DEF Scrape, robots, table, Types
<1>3. ASSUME NEW c \in Calls, EndContext(c) PROVE Types'
  BY <1>3 DEF EndContext, robots, table, Types
<1>4. ASSUME NEW c \in Calls, Return(c) PROVE Types'
  BY <1>4 DEF Return, robots, table, Types
<1>5. ASSUME NEW g \in Groups, Works(g) PROVE Types'
  <2>1. GroupOK(g)
    BY DEF Lists
  <2>2. PICK s \in State : GroupMoves(g, s) /\ TabMoves(g, s) /\ RobotsMove(g, s)
    BY <1>5, <2>1, GroupFrame
  <2>3. UNCHANGED <<call, ended, doomed>> /\ RowMoves(g)
    BY <1>5, <2>1, GroupFrame
  <2>4. g[2] \in Hosts
    BY Places
  <2>5. group' \in [Groups -> State]
    BY <2>2 DEF Types, GroupMoves
  <2>6. entry' \in [Hosts -> {"none", "busy", "rules", "nil"}] /\ losses' \subseteq Hosts
    BY <2>2, <2>4 DEF Types, RobotsMove, robots
  <2>7. tabs' \in Int
    BY <2>2 DEF Types, TabMoves
  <2>8. row' \in [Urls -> Rows]
    BY <2>3 DEF Types, RowMoves
  <2> QED
    BY <2>3, <2>5, <2>6, <2>7, <2>8 DEF Types
<1>6. CASE TableMoves
  BY <1>6 DEF TableMoves, robots, Types
<1> QED
  BY <1>1, <1>2, <1>3, <1>4, <1>5, <1>6, Moves

LEMMA ListsStep ==
  ASSUME Types, Lists, [Next]_vars
  PROVE  Lists'
<1>1. CASE UNCHANGED <<call, ended, group, results>>
  BY <1>1 DEF Lists, GroupOK, Later
<1>2. ASSUME NEW c \in Calls, Scrape(c) PROVE Lists'
  <2>1. UNCHANGED <<ended, group, results>> /\ call' = [call EXCEPT ![c] = "running"]
    BY <1>2 DEF Scrape
  <2>2. ASSUME NEW g \in Groups PROVE GroupOK(g)'
    <3>1. GroupOK(g) /\ (call'[g[1]] = call[g[1]] \/ call'[g[1]] = "running")
      BY <2>1, Places DEF Lists, Types
    <3> QED
      BY <2>1, <3>1 DEF GroupOK, Later
  <2> QED
    BY <2>1, <2>2 DEF Lists
<1>3. ASSUME NEW c \in Calls, EndContext(c) PROVE Lists'
  <2>1. UNCHANGED <<call, group, results>> /\ ended' = [ended EXCEPT ![c] = TRUE]
    BY <1>3 DEF EndContext
  <2>2. ASSUME NEW g \in Groups PROVE GroupOK(g)'
    <3>1. GroupOK(g) /\ (ended[g[1]] => ended'[g[1]])
      BY <2>1, Places DEF Lists, Types
    <3> QED
      BY <2>1, <3>1 DEF GroupOK, Later
  <2> QED
    BY <2>1, <2>2 DEF Lists
<1>4. ASSUME NEW c \in Calls, Return(c) PROVE Lists'
  <2>1. /\ UNCHANGED <<ended, group, results>> /\ call' = [call EXCEPT ![c] = "returned"]
        /\ call[c] = "running" /\ \A g \in GroupsOf(c) : group[g].at = "over"
    BY <1>4 DEF Return
  <2>2. ASSUME NEW g \in Groups PROVE GroupOK(g)'
    <3>1. GroupOK(g) /\ (call'[g[1]] = call[g[1]] \/ (call'[g[1]] = "returned" /\ group[g].at = "over"))
      BY <2>1, Places DEF Lists, Types, GroupsOf
    <3> QED
      BY <2>1, <3>1 DEF GroupOK, Later
  <2> QED
    BY <2>1, <2>2 DEF Lists
<1>5. ASSUME NEW g \in Groups, Works(g) PROVE Lists'
  <2>1. GroupOK(g) /\ results \in [Calls -> SUBSET Nat] /\ group \in [Groups -> State]
    BY DEF Lists, Types
  <2>2. PICK s \in State : GroupMoves(g, s)
    BY <1>5, <2>1, GroupFrame
  <2>3. UNCHANGED <<call, ended>> /\ call[g[1]] = "running"
    BY <1>5, <2>1, GroupFrame
  <2> DEFINE x == group[g]
             L == groupByHost(g[1], g[2])
  <2>4. /\ g[1] \in Calls /\ L \subseteq Nat
        /\ \A n \in L : n \in Capped(g[1]) /\ HostOf[Wants[g[1]][n]] # NoHost
    BY Places
  <2>5. /\ x.place \in Nat /\ s.place \in Nat /\ group'[g] = s
        /\ \A h \in Groups : h # g => group'[h] = group[h]
    BY <2>1, <2>2, Numbers DEF GroupMoves, State
  <2>6. x.at \in Working => x.place \in L
    BY <2>1 DEF GroupOK
  <2>7. \/ results' = results
        \/ x.place \in L /\ results' = [results EXCEPT ![g[1]] = @ \cup {x.place}]
    BY <2>2, <2>6 DEF GroupMoves
  <2>8. /\ results' \in [Calls -> SUBSET Nat]
        /\ \A c \in Calls : /\ results[c] \subseteq results'[c]
                            /\ \A n \in results'[c] : n \in results[c] \/ (c = g[1] /\ n \in L)
    BY <2>1, <2>4, <2>7
  <2>9. ASSUME NEW c \in Calls, NEW n \in results'[c]
        PROVE  n \in Capped(c) /\ HostOf[Wants[c][n]] # NoHost
    BY <2>4, <2>8, <2>9 DEF Lists
  <2>10. ASSUME NEW h \in Groups, h # g PROVE GroupOK(h)'
    <3>1. GroupOK(h) /\ h[1] \in Calls
      BY Places DEF Lists
    <3> QED
      BY <2>3, <2>5, <2>8, <2>10, <3>1 DEF GroupOK, Later
  <2>11. GroupOK(g)'
    <3>1. Later(g) = {n \in L : n > x.place} /\ Later(g)' = {n \in L : n > s.place}
      BY <2>5 DEF Later
    <3>2. ASSUME NEW n \in L, n < s.place \/ (n = s.place /\ s.at \notin Working)
          PROVE  n \in results'[g[1]]
      <4>1. n \in Nat
        BY <2>4
      <4>2. n < x.place \/ (n = x.place /\ x.at \notin Working) => n \in results[g[1]]
        BY <2>1 DEF GroupOK
      <4>3. CASE s.place = x.place /\ results' = results /\ (x.at \in Working => s.at \in Working)
        BY <2>8, <3>2, <4>2, <4>3
      <4>4. CASE /\ x.at = "next" /\ s.at \in Working /\ s.place \in Later(g)
                 /\ \A k \in Later(g) : s.place <= k
        BY <2>4, <2>5, <2>8, <3>1, <3>2, <4>1, <4>2, <4>4 DEF Working
      <4>5. CASE s.place = x.place /\ results' = [results EXCEPT ![g[1]] = @ \cup {x.place}]
        BY <2>1, <2>4, <2>5, <3>2, <4>1, <4>2, <4>5
      <4> QED
        BY <2>2, <4>3, <4>4, <4>5 DEF GroupMoves, Working
    <3>3. s.at \in Working => s.place \in L
      BY <2>2, <2>6, <3>1 DEF GroupMoves, Working
    <3>4. s.at # "start" /\ (s.at = "over" => ended[g[1]] \/ Later(g)' = {})
      BY <2>2, <2>1, <3>1 DEF GroupMoves, GroupOK, Working, Ended
    <3> QED
      BY <2>3, <2>5, <3>2, <3>3, <3>4 DEF GroupOK
  <2> QED
    BY <2>8, <2>9, <2>10, <2>11 DEF Lists
<1>6. CASE TableMoves
  BY <1>1, <1>6 DEF TableMoves
<1> QED
  BY <1>1, <1>2, <1>3, <1>4, <1>5, <1>6, Moves DEF vars

LEMMA RobotsStep ==
  ASSUME Types, Lists, Robots, [Next]_vars
  PROVE  Robots'
<1>1. CASE UNCHANGED <<group, robots, fetched>>
  BY <1>1 DEF Robots, RobotsRespected, robots, Url
<1>2. ASSUME NEW g \in Groups, Works(g) PROVE Robots'
  <2>1. GroupOK(g) /\ group \in [Groups -> State] /\ entry \in [Hosts -> {"none", "busy", "rules", "nil"}]
    BY DEF Lists, Types
  <2>2. PICK s \in State : GroupMoves(g, s) /\ RobotsMove(g, s)
    BY <1>2, <2>1, GroupFrame
  <2>3. group'[g] = s /\ \A h \in Groups : h # g => group'[h] = group[h]
    BY <2>1, <2>2 DEF GroupMoves
  <2>4. /\ losses \subseteq losses'
        /\ \A h \in Hosts : entry'[h] = "nil" => h \in losses'
    BY <2>1, <2>2 DEF Robots, RobotsMove, robots
  <2>5. ASSUME NEW h \in Groups, group'[h].at \in Fetching, Url(h)' \in Disallowed
        PROVE  h[2] \in losses'
    <3>1. CASE h = g
      <4>1. s.place = group[g].place
        BY <2>2, <2>3, <2>5, <3>1 DEF GroupMoves, Working, Fetching
      <4>2. Url(g) \in Disallowed
        BY <2>3, <2>5, <3>1, <4>1 DEF Url
      <4>3. CASE s.at = "fetch"
        <5>1. entry[g[2]] = "nil" /\ g[2] \in Hosts
          BY <2>2, <4>2, <4>3, Places DEF RobotsMove
        <5> QED
          BY <2>4, <3>1, <5>1 DEF Robots
      <4>4. CASE group[g].at \in Fetching
        BY <2>4, <3>1, <4>2, <4>4 DEF Robots
      <4> QED
        BY <2>2, <2>3, <2>5, <3>1, <4>3, <4>4 DEF RobotsMove
    <3>2. CASE h # g
      BY <2>3, <2>4, <2>5, <3>2 DEF Robots, Url
    <3> QED
      BY <3>1, <3>2
  <2>6. ASSUME NEW f \in fetched'
        PROVE  f \in Urls \X Disallowed /\ (f[1] \in Disallowed => HostOf[f[1]] \in losses')
    <3>1. CASE f \in fetched
      BY <2>4, <3>1 DEF Robots, RobotsRespected
    <3>2. CASE f \notin fetched
      <4>1. PICK us \in SUBSET Disallowed : fetched' = fetched \cup {<<Url(g), u>> : u \in us}
        BY <2>2, <2>6, <3>2 DEF RobotsMove
      <4>2. PICK u \in Disallowed : f = <<Url(g), u>>
        BY <2>6, <3>2, <4>1
      <4>3. group[g].at \in Fetching
        BY <2>2, <2>6, <3>2 DEF RobotsMove
      <4>4. group[g].place \in groupByHost(g[1], g[2])
        BY <2>1, <4>3 DEF GroupOK, Working, Fetching
      <4>5. Url(g) \in Urls /\ HostOf[Url(g)] = g[2]
        BY <4>4, Places DEF Url
      <4>6. f \in Urls \X Disallowed /\ f[1] = Url(g)
        BY <4>2, <4>5
      <4> QED
        BY <2>4, <4>3, <4>5, <4>6 DEF Robots
    <3> QED
      BY <3>1, <3>2
  <2> QED
    BY <2>4, <2>5, <2>6 DEF Robots, RobotsRespected
<1>3. ASSUME NEW c \in Calls, Scrape(c) \/ EndContext(c) \/ Return(c) PROVE Robots'
  BY <1>1, <1>3 DEF Scrape, EndContext, Return
<1> QED
  BY <1>1, <1>2, <1>3, Moves DEF vars, TableMoves

\* A group takes its slot and its place when it gets to its tab and its list.
LEMMA SlotsStep ==
  ASSUME Types, Lists, SlotsBalanced, [Next]_vars
  PROVE  SlotsBalanced'
<1>1. /\ tabs = Cardinality(InTab) /\ tabs <= MaxBrowserTabs
      /\ \A c \in Calls : Cardinality(Placed(c)) <= MaxDomains
  BY DEF SlotsBalanced, InTab
<1>2. /\ IsFiniteSet(InTab) /\ Cardinality(InTab) \in Nat
      /\ \A c \in Calls : IsFiniteSet(Placed(c)) /\ Cardinality(Placed(c)) \in Nat
  <2>1. InTab \subseteq Groups /\ \A c \in Calls : Placed(c) \subseteq Groups
    BY DEF InTab, Placed, GroupsOf
  <2> QED
    BY <2>1, GroupsFinite, FS_Subset, FS_CardinalityType
<1>3. ASSUME tabs' = Cardinality(InTab'), tabs' <= MaxBrowserTabs,
             \A c \in Calls : Cardinality(Placed(c)') <= MaxDomains
      PROVE  SlotsBalanced'
  BY <1>3 DEF SlotsBalanced, InTab
<1>4. CASE UNCHANGED <<call, group, tabs>>
  BY <1>1, <1>3, <1>4 DEF InTab, At, Placed
<1>5. ASSUME NEW c \in Calls, Scrape(c) \/ EndContext(c) \/ Return(c) PROVE SlotsBalanced'
  <2>1. UNCHANGED <<group, tabs>>
    BY <1>5 DEF Scrape, EndContext, Return
  <2>2. ASSUME NEW g \in Groups, NEW pc \in WithSlot PROVE At(g, pc)' <=> At(g, pc)
    <3>1. g[1] \in Calls /\ GroupOK(g) /\ call \in [Calls -> {"new", "running", "returned"}]
      BY Places DEF Lists, Types
    <3>2. \/ call' = call
          \/ call[c] = "new" /\ call' = [call EXCEPT ![c] = "running"]
          \/ call' = [call EXCEPT ![c] = "returned"] /\ \A h \in GroupsOf(c) : group[h].at = "over"
      BY <1>5 DEF Scrape, EndContext, Return
    <3> QED
      BY <2>1, <2>2, <3>1, <3>2 DEF At, GroupOK, GroupsOf, WithSlot
  <2>3. InTab' = InTab /\ \A d \in Calls : Placed(d)' = Placed(d)
    BY <2>1, <2>2 DEF InTab, Placed, WithSlot
  <2> QED
    BY <1>1, <1>3, <2>1, <2>3
<1>6. ASSUME NEW g \in Groups, Works(g) PROVE SlotsBalanced'
  <2>1. GroupOK(g) /\ group \in [Groups -> State] /\ g[1] \in Calls
    BY Places DEF Lists, Types
  <2>2. PICK s \in State : GroupMoves(g, s) /\ TabMoves(g, s)
    BY <1>6, <2>1, GroupFrame
  <2>3. call' = call /\ call[g[1]] = "running"
    BY <1>6, <2>1, GroupFrame
  <2>4. group'[g] = s /\ \A h \in Groups : h # g => group'[h] = group[h]
    BY <2>1, <2>2 DEF GroupMoves
  <2>5. tabs' = Cardinality(InTab') /\ tabs' <= MaxBrowserTabs
    <3>1. g \in InTab <=> group[g].at \in WithSlot
      BY <2>3 DEF InTab, At, WithSlot
    <3>2. CASE s.at \in WithSlot /\ group[g].at = "slot" /\ tabs < MaxBrowserTabs /\ tabs' = tabs + 1
      <4>1. InTab' = InTab \cup {g}
        BY <2>3, <2>4, <3>2 DEF InTab, At, WithSlot
      <4>2. Cardinality(InTab') = Cardinality(InTab) + 1
        BY <1>2, <3>1, <3>2, <4>1, FS_AddElement DEF WithSlot
      <4> QED
        BY <1>1, <1>2, <3>2, <4>2, Numbers
    <3>3. CASE s.at \notin WithSlot /\ group[g].at \in WithSlot /\ tabs' = tabs - 1
      <4>1. InTab' = InTab \ {g}
        BY <2>3, <2>4, <3>3 DEF InTab, At, WithSlot
      <4>2. Cardinality(InTab') = Cardinality(InTab) - 1
        BY <1>2, <3>1, <3>3, <4>1, FS_RemoveElement
      <4> QED
        BY <1>1, <1>2, <3>3, <4>2, Numbers
    <3>4. CASE (s.at \in WithSlot <=> group[g].at \in WithSlot) /\ tabs' = tabs
      <4>1. InTab' = InTab
        BY <2>3, <2>4, <3>4 DEF InTab, At, WithSlot
      <4> QED
        BY <1>1, <3>4, <4>1
    <3> QED
      BY <2>2, <3>2, <3>3, <3>4 DEF TabMoves
  <2>6. ASSUME NEW c \in Calls PROVE Cardinality(Placed(c)') <= MaxDomains
    <3>1. CASE c # g[1]
      <4>1. Placed(c)' = Placed(c)
        BY <2>4, <3>1 DEF Placed, GroupsOf
      <4> QED
        BY <1>1, <4>1
    <3>2. CASE c = g[1]
      <4>1. g \in Placed(c) <=> group[g].at \notin {"start", "over"}
        BY <3>2 DEF Placed, GroupsOf
      <4>2. CASE group[g].at = "start" /\ s.at = "next" /\ Cardinality(Placed(c)) < MaxDomains
        <5>1. Placed(c)' = Placed(c) \cup {g}
          BY <2>4, <3>2, <4>2 DEF Placed, GroupsOf
        <5>2. Cardinality(Placed(c)') = Cardinality(Placed(c)) + 1
          BY <1>2, <4>1, <4>2, <5>1, FS_AddElement
        <5> QED
          BY <1>2, <4>2, <5>2, Numbers
      <4>3. CASE s.at = "over"
        <5>1. Placed(c)' = Placed(c) \ {g}
          BY <2>4, <3>2, <4>3 DEF Placed, GroupsOf
        <5>2. Placed(c)' \subseteq Placed(c)
          BY <5>1
        <5> QED
          BY <1>1, <1>2, <5>2, FS_Subset, FS_CardinalityType, Numbers
      <4>4. CASE group[g].at \notin {"start", "over"} /\ s.at \notin {"start", "over"}
        <5>1. Placed(c)' = Placed(c)
          BY <2>4, <3>2, <4>4 DEF Placed, GroupsOf
        <5> QED
          BY <1>1, <5>1
      <4> QED
        BY <2>2, <3>2, <4>2, <4>3, <4>4 DEF GroupMoves, Working
    <3> QED
      BY <3>1, <3>2
  <2> QED
    BY <1>3, <2>5, <2>6
<1> QED
  BY <1>4, <1>5, <1>6, Moves DEF vars, TableMoves

-----------------------------------------------------------------------------
(***************************************************************************)
(* The theorems.                                                           *)
(***************************************************************************)
LEMMA InvInit == Init => Inv
<1> SUFFICES ASSUME Init PROVE Inv
  OBVIOUS
<1>1. NoRow \in Rows /\ AtStart \in State /\ AtStart.at = "start" /\ AtStart.place = 0
  BY Numbers DEF NoRow, Rows, AtStart, State
<1>2. \A g \in Groups : group[g] = AtStart /\ g[1] \in Calls
  BY Places DEF Init
<1>3. Types
  BY <1>1 DEF Init, Types
<1>4. Lists
  <2>1. ASSUME NEW g \in Groups PROVE GroupOK(g)
    <3>1. \A n \in groupByHost(g[1], g[2]) : n \in 1 .. MaxURLs
      BY Places
    <3>2. call[g[1]] = "new"
      BY <1>2 DEF Init
    <3> QED
      BY <1>1, <1>2, <3>1, <3>2, Numbers DEF GroupOK, Working
  <2> QED
    BY <2>1 DEF Init, Lists
<1>5. Robots
  BY <1>1, <1>2 DEF Init, Robots, RobotsRespected, Fetching
<1>6. SlotsBalanced
  <2>1. InTab = {} /\ \A c \in Calls : Placed(c) = {}
    BY <1>1, <1>2 DEF InTab, At, Placed, GroupsOf
  <2> QED
    <3>1. Cardinality(InTab) = 0
      BY <2>1, FS_EmptySet
    <3>2. \A c \in Calls : Cardinality(Placed(c)) = 0
      BY <2>1, FS_EmptySet
    <3> QED
      BY <3>1, <3>2, Numbers DEF Init, SlotsBalanced, InTab
<1> QED
  BY <1>3, <1>4, <1>5, <1>6 DEF Inv

LEMMA InvAlways == Spec => []Inv
<1>1. Inv /\ [Next]_vars => Inv'
  BY TypesStep, ListsStep, RobotsStep, SlotsStep DEF Inv
<1> QED
  BY <1>1, InvInit, PTL DEF Spec

\* Every reachable state is well typed: in particular the channel of browser
\* slots never holds less than none or more than its capacity.
THEOREM ScraperTypeCorrect == Spec => []TypeOK
<1>1. Inv => TypeOK
  <2> SUFFICES ASSUME Inv PROVE TypeOK
    OBVIOUS
  <2>1. Types /\ Lists /\ Robots /\ SlotsBalanced
    BY DEF Inv
  <2>2. Cardinality(InTab) \in Nat
    BY GroupsFinite, FS_Subset, FS_CardinalityType DEF InTab
  <2>3. tabs \in 0 .. MaxBrowserTabs
    BY <2>1, <2>2, Numbers DEF SlotsBalanced, InTab
  <2>4. \A c \in Calls : results[c] \subseteq Capped(c)
    BY <2>1 DEF Lists
  <2> QED
    BY <2>1, <2>3, <2>4 DEF Types, Robots, TypeOK, State
<1> QED
  BY <1>1, InvAlways, PTL

\* No way out of a fallback leaks a browser slot or takes one too many, and no
\* call works on more hosts than max_domains, whichever calls end and when.
THEOREM ScraperSlotsBalanced == Spec => []SlotsBalanced
<1>1. Inv => SlotsBalanced
  BY DEF Inv
<1> QED
  BY <1>1, InvAlways, PTL

\* robotsCache lets a disallowed URL through only where the one request for its
\* host's robots.txt was lost, however many calls meet on the host.  Where the
\* redirects and scripts of a URL that passed lead is not its business.
THEOREM ScraperObeysRobots == Spec => []RobotsRespected
<1>1. Inv => RobotsRespected
  BY DEF Inv, Robots
<1> QED
  BY <1>1, InvAlways, PTL

\* A call that returns before its context ends has one outcome for every URL of
\* its capped list that names a host.
THEOREM ScraperAnswers == Spec => []EveryUrlAnswered
<1>1. Inv => EveryUrlAnswered
  <2> SUFFICES ASSUME Inv, NEW c \in Calls, call[c] = "returned", ~ended[c],
                      NEW n \in Capped(c), HostOf[Wants[c][n]] # NoHost
               PROVE  n \in results[c]
    BY DEF EveryUrlAnswered, Inv, Lists
  <2> DEFINE g == <<c, HostOf[Wants[c][n]]>>
  <2>1. Wants[c][n] \in Urls /\ n \in groupByHost(g[1], g[2])
    <3>1. Wants[c] \in Seq(Urls) /\ n \in DOMAIN Wants[c]
      BY ScraperAssumption DEF Capped
    <3> QED
      BY <3>1 DEF groupByHost
  <2>2. g \in Groups /\ g[1] = c
    BY <2>1 DEF Groups, Hosts
  <2> HIDE DEF g
  <2>3. GroupOK(g) /\ group[g] \in State /\ n \in Nat
    BY <2>1, <2>2, Places DEF Inv, Lists, Types
  <2>4. group[g].at = "over" /\ Later(g) = {}
    BY <2>2, <2>3 DEF GroupOK
  <2>5. ~(n > group[g].place) /\ group[g].place \in Nat
    BY <2>1, <2>3, <2>4, Numbers DEF Later, State
  <2> QED
    BY <2>1, <2>2, <2>3, <2>4, <2>5 DEF GroupOK, Working
<1> QED
  BY <1>1, InvAlways, PTL

\* Only the INSERT of a save brings a row into scrape_cache: a touch that is on
\* its way while cleanup deletes the row does not.
THEOREM ScraperOnlySavesCreate == Spec => OnlySavesCreate
<1> DEFINE Creates == \A u \in Urls : (~IsRow(row[u]) /\ IsRow(row'[u])) =>
                        \E g \in Groups : At(g, "insert") /\ Url(g) = u
<1>1. Inv /\ [Next]_vars => [Creates]_vars
  <2> SUFFICES ASSUME Inv, [Next]_vars PROVE Creates \/ UNCHANGED vars
    OBVIOUS
  <2>1. ASSUME NEW g \in Groups, Works(g) PROVE Creates
    <3>1. RowMoves(g) /\ row \in [Urls -> Rows]
      BY <2>1, GroupFrame DEF Inv, Lists, Types
    <3> QED
      BY <3>1, <2>1 DEF RowMoves
  <2>2. ASSUME NEW c \in Calls, Scrape(c) \/ EndContext(c) \/ Return(c) PROVE Creates
    BY <2>2 DEF Scrape, EndContext, Return, table
  <2>3. CASE TableMoves
    BY <2>3 DEF TableMoves
  <2> QED
    BY <2>1, <2>2, <2>3, Moves DEF Inv
<1> QED
  BY <1>1, InvAlways, PTL DEF Spec, OnlySavesCreate
==============================================================================
