---------------------------- MODULE SearchCursor ----------------------------
(***************************************************************************)
(* Code search (scanning/discovery.py: search_iocs) by the hunts that      *)
(* share one database.  GitHub serves the same results for a query on      *)
(* every run, so a cursor kept per query (table search_term_cursor) lets   *)
(* each hunt walk a few pages deeper than the last.  What a hunt finds     *)
(* stays in its memory until Tier-1 saves it, long after the cursor moved. *)
(*                                                                         *)
(* A page is requested by search_code (github/client.py), which paces      *)
(* itself and retries a throttled request, from _search_one_page, which    *)
(* retries once more.                                                      *)
(***************************************************************************)
EXTENDS Naturals, FiniteSets, Sequences

CONSTANTS
  Terms,         \* the queries of a run, in the order of their searching
  Repos,         \* what a search may return
  Results,       \* Results[q][p]: suspicious repos on page p of query q
  LastPage,      \* LastPage[q]: its first page that is not full
  MaxPage,       \* pages GitHub serves: _MAX_RESULTS // per_term
  PagesPerRun,   \* pages walked per query and run (_SEARCH_PAGES)
  Attempts,      \* requests search_code makes before it gives up (4)
  Rounds,        \* calls of search_code by _search_one_page (2)
  Base,          \* the interval between searches, in seconds
  Ceiling,       \* what a throttled client slows down to at most (60)
  Limit,         \* --limit: candidates a run keeps
  Hunts,         \* hunts that may be alive at the same time
  MaxCrashes     \* how many of them may die

Pages == 1..MaxPage

Queries == {Terms[i] : i \in 1..Len(Terms)}

ASSUME SearchAssumption ==
  /\ MaxPage \in Nat \ {0}
  /\ Terms \in Seq(Queries)
  /\ Results \in [Queries -> [Pages -> SUBSET Repos]]
  /\ LastPage \in [Queries -> Nat \ {0}]
  /\ \A q \in Queries, p \in Pages : p > LastPage[q] => Results[q][p] = {}
  /\ PagesPerRun \in Nat \ {0}
  /\ Attempts \in Nat \ {0}
  /\ Rounds \in Nat \ {0}
  /\ Base \in Nat /\ Ceiling \in Nat /\ Base <= Ceiling
  /\ Limit \in Nat \ {0}
  /\ MaxCrashes \in Nat

VARIABLES
  cursor,        \* cursor[q]: the next page, and whether all were walked
  tracked,       \* repos in repo_findings
  pc,            \* where each hunt is
  known,         \* its snapshot of the repos already tracked
  todo,          \* the query of Terms it comes to next
  walk,          \* the query it is walking: [query, start, page, short]
  retry,         \* how often the page was asked for: [round, attempt]
  interval,      \* seconds its client leaves between two searches
  found,         \* candidates in its memory
  cut,           \* repos dropped by --limit
  lost,          \* repos in the memory of a hunt that died
  crashes

walking == <<todo, walk, retry, interval>>
gone    == <<cut, lost, crashes>>
vars    == <<cursor, tracked, pc, known, walking, found, gone>>

NoWalk == [query |-> "none", start |-> 1, page |-> 1, short |-> FALSE]

FirstTry == [round |-> 1, attempt |-> 1]

TypeOK ==
  /\ cursor \in [Queries -> [next : 1..(MaxPage + 1), exhausted : BOOLEAN]]
  /\ tracked \in SUBSET Repos
  /\ pc \in [Hunts -> {"idle", "search", "screen"}]
  /\ known \in [Hunts -> SUBSET Repos]
  /\ todo \in [Hunts -> 1..(Len(Terms) + 1)]
  /\ walk \in [Hunts -> {NoWalk} \cup [query : Queries, start : Pages,
                                       page : 1..(MaxPage + 1), short : BOOLEAN]]
  /\ retry \in [Hunts -> [round : 1..Rounds, attempt : 1..Attempts]]
  /\ interval \in [Hunts -> Nat]
  /\ found \in [Hunts -> SUBSET Repos]
  /\ cut \in SUBSET Repos
  /\ lost \in SUBSET Repos
  /\ crashes \in Nat

Init ==
  /\ cursor = [q \in Queries |-> [next |-> 1, exhausted |-> FALSE]]
  /\ tracked = {}
  /\ pc = [h \in Hunts |-> "idle"]
  /\ known = [h \in Hunts |-> {}]
  /\ todo = [h \in Hunts |-> 1]
  /\ walk = [h \in Hunts |-> NoWalk]
  /\ retry = [h \in Hunts |-> FirstTry]
  /\ interval = [h \in Hunts |-> Base]
  /\ found = [h \in Hunts |-> {}]
  /\ cut = {}
  /\ lost = {}
  /\ crashes = 0

-----------------------------------------------------------------------------
StartRun(h) ==
  /\ pc[h] = "idle"
  /\ pc' = [pc EXCEPT ![h] = "search"]
  /\ known' = [known EXCEPT ![h] = tracked]
  /\ UNCHANGED <<cursor, tracked, todo, walk, retry, interval, found, gone>>

Between(h) == pc[h] = "search" /\ walk[h] = NoWalk

Comes(h, q) == todo[h] <= Len(Terms) /\ Terms[todo[h]] = q

\* next_search_page answers 0 for a query walked to its end.
SkipQuery(h, q) ==
  /\ Between(h)
  /\ Comes(h, q)
  /\ cursor[q].exhausted
  /\ todo' = [todo EXCEPT ![h] = @ + 1]
  /\ UNCHANGED <<cursor, tracked, pc, known, walk, retry, interval, found, gone>>

BeginQuery(h, q) ==
  /\ Between(h)
  /\ Comes(h, q)
  /\ ~cursor[q].exhausted
  /\ todo' = [todo EXCEPT ![h] = @ + 1]
  /\ walk' = [walk EXCEPT ![h] = [query |-> q, start |-> cursor[q].next,
                                  page |-> cursor[q].next, short |-> FALSE]]
  /\ UNCHANGED <<cursor, tracked, pc, known, retry, interval, found, gone>>

Walked(w) == w.short \/ w.page > MaxPage \/ w.page >= w.start + PagesPerRun

Requesting(h) == walk[h] # NoWalk /\ ~Walked(walk[h])

\* Mutant: nothing keeps the relaxed interval above the base.
RelaxedBelow(i) == (9 * i) \div 10

\* A clean search relaxes the interval (seconds, rounded down).
Relaxed(i) == IF (9 * i) \div 10 < Base THEN Base ELSE (9 * i) \div 10

\* A throttled one stretches it.
Stretched(i) == IF (3 * i) \div 2 + 3 > Ceiling THEN Ceiling ELSE (3 * i) \div 2 + 3

\* Repos of the snapshot are skipped; a page that is not full is the last.
PageAnswered(h, p) ==
  /\ Requesting(h)
  /\ walk[h].page = p
  /\ LET q == walk[h].query IN
     /\ found' = [found EXCEPT ![h] = @ \cup (Results[q][p] \ known[h])]
     /\ walk' = [walk EXCEPT ![h] = [query |-> q, start |-> @.start, page |-> p + 1,
                                     short |-> p >= LastPage[q]]]
  /\ retry' = [retry EXCEPT ![h] = FirstTry]
  /\ interval' = [interval EXCEPT ![h] = Relaxed(@)]
  /\ UNCHANGED <<cursor, tracked, pc, known, todo, gone>>

\* The query is given up for this run; its cursor stays where it was.
Abandon(h) ==
  /\ walk' = [walk EXCEPT ![h] = NoWalk]
  /\ retry' = [retry EXCEPT ![h] = FirstTry]

\* Mutants: the attempts are counted from nought; a throttled page is asked for
\* until it is answered.
RetryOnceMore(h) ==
  \/ /\ retry[h].attempt <= Attempts
     /\ retry' = [retry EXCEPT ![h].attempt = @ + 1]
     /\ UNCHANGED walk
  \/ /\ retry[h].attempt > Attempts
     /\ Abandon(h)

RetryForEver(h) ==
  /\ retry' = [retry EXCEPT ![h].attempt = IF @ < Attempts THEN @ + 1 ELSE 1]
  /\ UNCHANGED walk

\* 403 or 429 with a rate limit: another attempt of search_code, then another
\* call of it, then the page has failed.
Retry(h) ==
  \/ /\ retry[h].attempt < Attempts
     /\ retry' = [retry EXCEPT ![h] = [round |-> @.round, attempt |-> @.attempt + 1]]
     /\ UNCHANGED walk
  \/ /\ retry[h].attempt = Attempts
     /\ retry[h].round < Rounds
     /\ retry' = [retry EXCEPT ![h] = [round |-> @.round + 1, attempt |-> 1]]
     /\ UNCHANGED walk
  \/ /\ retry[h] = [round |-> Rounds, attempt |-> Attempts]
     /\ Abandon(h)

Throttled(h) ==
  /\ Requesting(h)
  /\ Retry(h)
  /\ interval' = [interval EXCEPT ![h] = Stretched(@)]
  /\ UNCHANGED <<cursor, tracked, pc, known, todo, found, gone>>

\* Mutant: a page that fails is passed over.
PageFailsAndIsPassed(h) ==
  /\ Requesting(h)
  /\ walk' = [walk EXCEPT ![h].page = @ + 1]
  /\ retry' = [retry EXCEPT ![h] = FirstTry]
  /\ UNCHANGED <<cursor, tracked, pc, known, todo, interval, found, gone>>

\* Any other error, a real "forbidden" included: no retry.
PageFails(h) ==
  /\ Requesting(h)
  /\ Abandon(h)
  /\ UNCHANGED <<cursor, tracked, pc, known, todo, interval, found, gone>>

\* Mutant: the page the walk started from is stored as the next one.
AdvanceNowhere(h) ==
  /\ walk[h] # NoWalk
  /\ Walked(walk[h])
  /\ cursor' = [cursor EXCEPT ![walk[h].query].next = walk[h].start]
  /\ walk' = [walk EXCEPT ![h] = NoWalk]
  /\ UNCHANGED <<tracked, pc, known, todo, retry, interval, found, gone>>

\* advance_search_page overwrites the row, whoever wrote it last.
AdvanceCursor(h) ==
  /\ walk[h] # NoWalk
  /\ Walked(walk[h])
  /\ cursor' = [cursor EXCEPT ![walk[h].query] =
                  [next      |-> walk[h].page,
                   exhausted |-> walk[h].short \/ walk[h].page > MaxPage]]
  /\ walk' = [walk EXCEPT ![h] = NoWalk]
  /\ UNCHANGED <<tracked, pc, known, todo, retry, interval, found, gone>>

\* The candidates beyond --limit are dropped, the weaker ones first.
EndSearch(h) ==
  /\ Between(h)
  /\ todo[h] > Len(Terms)
  /\ pc' = [pc EXCEPT ![h] = "screen"]
  /\ \E kept \in SUBSET found[h] :
       /\ \/ kept = found[h] /\ Cardinality(kept) <= Limit
          \/ Cardinality(found[h]) > Limit /\ Cardinality(kept) = Limit
       /\ found' = [found EXCEPT ![h] = kept]
       /\ cut' = cut \cup (found[h] \ kept)
  /\ todo' = [todo EXCEPT ![h] = 1]
  /\ interval' = [interval EXCEPT ![h] = Base]
  /\ UNCHANGED <<cursor, tracked, known, walk, retry, lost, crashes>>

\* Tier-1 saves every candidate it has screened.
Tier1(h, r) ==
  /\ pc[h] = "screen"
  /\ r \in found[h]
  /\ tracked' = tracked \cup {r}
  /\ found' = [found EXCEPT ![h] = @ \ {r}]
  /\ UNCHANGED <<cursor, pc, known, walking, gone>>

Leave(h) ==
  /\ pc' = [pc EXCEPT ![h] = "idle"]
  /\ known' = [known EXCEPT ![h] = {}]

FinishRun(h) ==
  /\ pc[h] = "screen"
  /\ found[h] = {}
  /\ Leave(h)
  /\ UNCHANGED <<cursor, tracked, walking, found, gone>>

Crash(h) ==
  /\ pc[h] # "idle"
  /\ crashes < MaxCrashes
  /\ crashes' = crashes + 1
  /\ Leave(h)
  /\ todo' = [todo EXCEPT ![h] = 1]
  /\ Abandon(h)
  /\ interval' = [interval EXCEPT ![h] = Base]
  /\ lost' = lost \cup found[h]
  /\ found' = [found EXCEPT ![h] = {}]
  /\ UNCHANGED <<cursor, tracked, cut>>

Request(h) ==
  \/ \E p \in Pages : PageAnswered(h, p)
  \/ Throttled(h)
  \/ PageFails(h)

Progress(h) ==
  \/ StartRun(h)
  \/ \E q \in Queries : SkipQuery(h, q) \/ BeginQuery(h, q)
  \/ Request(h)
  \/ AdvanceCursor(h)
  \/ EndSearch(h)
  \/ \E r \in Repos : Tier1(h, r)
  \/ FinishRun(h)

Next == \E h \in Hunts : Progress(h) \/ Crash(h)

Spec == Init /\ [][Next]_vars

(***************************************************************************)
(* Hunts are run again and again and go on while they live.  Of GitHub     *)
(* nothing is assumed: it may throttle every request.                      *)
(***************************************************************************)
Fairness == \A h \in Hunts : WF_vars(Progress(h))

FairSpec == Spec /\ Fairness

-----------------------------------------------------------------------------
Behind(q) == IF cursor[q].exhausted THEN Pages ELSE 1..(cursor[q].next - 1)

InMemory == UNION {found[h] : h \in Hunts}

\* A cursor only passes what somebody has seen: every repo on the pages behind
\* it is tracked, in the memory of a hunt, or was given up with a name: cut by
\* --limit or lost with a hunt that died.  Overlapping hunts that move the
\* same cursor back and forth leave no page unread between them.
PassedIsAccountedFor ==
  \A q \in Queries, p \in Pages :
    p \in Behind(q) => Results[q][p] \subseteq tracked \cup InMemory \cup cut \cup lost

\* The pacing of search_code never falls below the interval asked for and never
\* grows beyond its ceiling, over any mix of throttled and clean searches.
PaceWithinBounds == \A h \in Hunts : interval[h] \in Base..Ceiling

\* The two nested retry loops come to an end, also when GitHub throttles every
\* single request.
SearchEnds == \A h \in Hunts : pc[h] = "search" ~> pc[h] # "search"

\* GitHub answers a page asked for often enough, whichever hunt asks.
GitHubAnswers == \A p \in Pages : SF_vars(\E h \in Hunts : PageAnswered(h, p))

\* search_iocs: "successive hunts advance into new pages instead of re-flipping
\* the same stones".  If GitHub answers, every query is walked to its last page
\* in the end, though pages fail, hunts die, and the slower of two hunts puts
\* the cursor back.
EveryQueryWalked == GitHubAnswers => \A q \in Queries : <>cursor[q].exhausted

=============================================================================
