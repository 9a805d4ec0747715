---------------------------- MODULE SearchProofs ----------------------------
(***************************************************************************)
(* The cursor of code search passes nothing unseen, for any number of      *)
(* overlapping hunts, queries and pages, and the pacing stays in bounds.   *)
(***************************************************************************)
EXTENDS SearchCursor, TLAPS

\* What somebody has seen: no step takes anything out of it.
SeenRepos == tracked \cup InMemory \cup cut \cup lost

\* A query not yet exhausted has a page left to walk.
CursorInReach == \A q \in Queries : ~cursor[q].exhausted => cursor[q].next \in Pages

KnownIsTracked == \A h \in Hunts : known[h] \subseteq tracked

\* Of the query it walks, a hunt has all pages before the present one behind
\* it, read by itself or by those who moved the cursor to where it began.
WalkedIsSeen ==
  \A h \in Hunts : walk[h] # NoWalk =>
    \A p \in Pages : p < walk[h].page => Results[walk[h].query][p] \subseteq SeenRepos

ShortIsLast ==
  \A h \in Hunts : walk[h] # NoWalk /\ walk[h].short => walk[h].page > LastPage[walk[h].query]

SearchInv ==
  /\ TypeOK
  /\ CursorInReach
  /\ KnownIsTracked
  /\ WalkedIsSeen
  /\ ShortIsLast
  /\ PassedIsAccountedFor

-----------------------------------------------------------------------------
(***************************************************************************)
(* Type correctness and pacing.                                            *)
(***************************************************************************)

\* Stretching and relaxing keep an interval of search_code a number and, if
\* it was within its bounds, within them.
LEMMA PaceOfOneSearch ==
  ASSUME NEW i \in Nat
  PROVE  /\ Relaxed(i) \in Nat
         /\ Stretched(i) \in Nat
         /\ i \in Base..Ceiling => Relaxed(i) \in Base..Ceiling /\ Stretched(i) \in Base..Ceiling
<1>1. /\ (9 * i) \div 10 \in Nat
      /\ (9 * i) \div 10 <= i
  OBVIOUS
<1>2. /\ (3 * i) \div 2 + 3 \in Nat
      /\ (3 * i) \div 2 + 3 >= i
  OBVIOUS
<1>3. Base \in Nat /\ Ceiling \in Nat /\ Base <= Ceiling
  BY SearchAssumption
<1> QED
  BY <1>1, <1>2, <1>3 DEF Relaxed, Stretched

\* A walk that goes on is that of a query on one of its pages.
LEMMA WalkType ==
  ASSUME TypeOK, NEW h \in Hunts, walk[h] # NoWalk
  PROVE  walk[h] \in [query : Queries, start : Pages, page : 1..(MaxPage + 1), short : BOOLEAN]
BY DEF TypeOK

\* After a throttled request the two retry counters are still in their ranges.
LEMMA RetryCounts ==
  ASSUME TypeOK, NEW h \in Hunts, Retry(h)
  PROVE  \E again \in [round : 1..Rounds, attempt : 1..Attempts] :
           retry' = [retry EXCEPT ![h] = again]
<1>1. /\ retry[h] \in [round : 1..Rounds, attempt : 1..Attempts]
      /\ retry[h].round \in 1..Rounds /\ retry[h].attempt \in 1..Attempts
  BY DEF TypeOK
<1>2. Rounds \in Nat \ {0} /\ Attempts \in Nat \ {0}
  BY SearchAssumption
<1>3. CASE /\ retry[h].attempt < Attempts
           /\ retry' = [retry EXCEPT ![h] = [round |-> @.round, attempt |-> @.attempt + 1]]
  <2>1. retry[h].attempt + 1 \in 1..Attempts
    BY <1>1, <1>2, <1>3
  <2>2. [round |-> retry[h].round, attempt |-> retry[h].attempt + 1]
          \in [round : 1..Rounds, attempt : 1..Attempts]
    BY <1>1, <2>1
  <2> QED
    BY <1>3, <2>2
<1>4. CASE /\ retry[h].round < Rounds
           /\ retry' = [retry EXCEPT ![h] = [round |-> @.round + 1, attempt |-> 1]]
  <2>1. retry[h].round + 1 \in 1..Rounds /\ 1 \in 1..Attempts
    BY <1>1, <1>2, <1>4
  <2>2. [round |-> retry[h].round + 1, attempt |-> 1]
          \in [round : 1..Rounds, attempt : 1..Attempts]
    BY <2>1
  <2> QED
    BY <1>4, <2>2
<1>5. CASE Abandon(h)
  <2>1. FirstTry \in [round : 1..Rounds, attempt : 1..Attempts]
    BY <1>2 DEF FirstTry
  <2> QED
    BY <1>5, <2>1 DEF Abandon
<1> QED
  BY <1>3, <1>4, <1>5 DEF Retry

LEMMA TypeInit == Init => TypeOK /\ CursorInReach
<1> SUFFICES ASSUME Init PROVE TypeOK /\ CursorInReach
  OBVIOUS
<1>1. 1 \in Pages /\ 1 \in 1..(MaxPage + 1)
  BY SearchAssumption DEF Pages
<1>2. FirstTry \in [round : 1..Rounds, attempt : 1..Attempts]
  BY SearchAssumption DEF FirstTry
<1>3. Len(Terms) \in Nat
  BY SearchAssumption
<1> QED
  BY <1>1, <1>2, <1>3, SearchAssumption DEF Init, TypeOK, CursorInReach

LEMMA TypeStep == TypeOK /\ CursorInReach /\ [Next]_vars => TypeOK' /\ CursorInReach'
<1> SUFFICES ASSUME TypeOK, CursorInReach, [Next]_vars
             PROVE  TypeOK' /\ CursorInReach'
  OBVIOUS
<1> USE DEF TypeOK, CursorInReach, walking, gone
<1>1. /\ MaxPage \in Nat /\ Rounds \in Nat \ {0} /\ Attempts \in Nat \ {0}
      /\ Len(Terms) \in Nat /\ Base \in Nat
      /\ FirstTry \in [round : 1..Rounds, attempt : 1..Attempts]
      /\ NoWalk \in {NoWalk}
  BY SearchAssumption DEF FirstTry
<1>2. ASSUME NEW h \in Hunts, StartRun(h) PROVE TypeOK' /\ CursorInReach'
  BY <1>2 DEF StartRun
<1>3. ASSUME NEW h \in Hunts, NEW q \in Queries, SkipQuery(h, q)
      PROVE  TypeOK' /\ CursorInReach'
  <2>1. todo[h] + 1 \in 1..(Len(Terms) + 1)
    BY <1>1, <1>3 DEF SkipQuery, Comes
  <2> QED
    BY <1>3, <2>1 DEF SkipQuery
<1>4. ASSUME NEW h \in Hunts, NEW q \in Queries, BeginQuery(h, q)
      PROVE  TypeOK' /\ CursorInReach'
  <2>1. todo[h] + 1 \in 1..(Len(Terms) + 1)
    BY <1>1, <1>4 DEF BeginQuery, Comes
  <2>2. cursor[q].next \in Pages /\ cursor[q].next \in 1..(MaxPage + 1)
    BY <1>4 DEF BeginQuery
  <2> QED
    BY <1>4, <2>1, <2>2 DEF BeginQuery
<1>5. ASSUME NEW h \in Hunts, NEW p \in Pages, PageAnswered(h, p)
      PROVE  TypeOK' /\ CursorInReach'
  <2>1. walk[h] \in [query : Queries, start : Pages, page : 1..(MaxPage + 1), short : BOOLEAN]
    BY <1>5, WalkType DEF PageAnswered, Requesting
  <2>2. p + 1 \in 1..(MaxPage + 1) /\ (p >= LastPage[walk[h].query]) \in BOOLEAN
    BY <1>1 DEF Pages
  <2>3. walk' \in [Hunts -> {NoWalk} \cup [query : Queries, start : Pages,
                                       page : 1..(MaxPage + 1), short : BOOLEAN]]
    BY <1>5, <2>1, <2>2 DEF PageAnswered
  <2>4. Results[walk[h].query][p] \subseteq Repos
    BY <2>1, SearchAssumption
  <2>5. Relaxed(interval[h]) \in Nat
    BY PaceOfOneSearch
  <2> QED
    BY <1>1, <1>5, <2>3, <2>4, <2>5 DEF PageAnswered
<1>6. ASSUME NEW h \in Hunts, Throttled(h) PROVE TypeOK' /\ CursorInReach'
  <2>1. walk' = walk \/ walk' = [walk EXCEPT ![h] = NoWalk]
    BY <1>6 DEF Throttled, Retry, Abandon
  <2>2. walk' \in [Hunts -> {NoWalk} \cup [query : Queries, start : Pages,
                                       page : 1..(MaxPage + 1), short : BOOLEAN]]
    BY <2>1
  <2>3. PICK again \in [round : 1..Rounds, attempt : 1..Attempts] :
          retry' = [retry EXCEPT ![h] = again]
    BY <1>1, <1>6, RetryCounts DEF Throttled
  <2>4. retry' \in [Hunts -> [round : 1..Rounds, attempt : 1..Attempts]]
    BY <2>3
  <2>5. Stretched(interval[h]) \in Nat
    BY PaceOfOneSearch
  <2>6. interval' \in [Hunts -> Nat]
    BY <1>6, <2>5 DEF Throttled
  <2> QED
    BY <1>6, <2>2, <2>4, <2>6 DEF Throttled
<1>7. ASSUME NEW h \in Hunts, PageFails(h) PROVE TypeOK' /\ CursorInReach'
  BY <1>1, <1>7 DEF PageFails, Abandon
<1>8. ASSUME NEW h \in Hunts, AdvanceCursor(h) PROVE TypeOK' /\ CursorInReach'
  <2>1. walk[h] \in [query : Queries, start : Pages, page : 1..(MaxPage + 1), short : BOOLEAN]
    BY <1>8, WalkType DEF AdvanceCursor
  <2> DEFINE row == [next      |-> walk[h].page,
                     exhausted |-> walk[h].short \/ walk[h].page > MaxPage]
  <2> DEFINE last == walk[h].short \/ walk[h].page > MaxPage
  <2>a. walk[h].page \in 1..(MaxPage + 1) /\ last \in BOOLEAN
    BY <1>1, <2>1
  <2>b. ~last => walk[h].page \in Pages
    BY <1>1, <2>a DEF Pages
  <2>2. /\ row \in [next : 1..(MaxPage + 1), exhausted : BOOLEAN]
        /\ ~row.exhausted => row.next \in Pages
    <3> HIDE DEF last
    <3>1. row = [next |-> walk[h].page, exhausted |-> last]
      BY DEF last
    <3> QED
      BY <3>1, <2>a, <2>b
  <2>3. cursor' = [cursor EXCEPT ![walk[h].query] = row]
    BY <1>8 DEF AdvanceCursor
  <2> HIDE DEF row
  <2>4. CursorInReach'
    BY <2>1, <2>2, <2>3
  <2>5. TypeOK'
    BY <1>1, <1>8, <2>1, <2>2, <2>3 DEF AdvanceCursor
  <2> QED
    BY <2>4, <2>5
<1>9. ASSUME NEW h \in Hunts, EndSearch(h) PROVE TypeOK' /\ CursorInReach'
  <2>1. 1 \in 1..(Len(Terms) + 1)
    BY <1>1
  <2>2. PICK kept \in SUBSET found[h] :
          /\ found' = [found EXCEPT ![h] = kept]
          /\ cut' = cut \cup (found[h] \ kept)
    BY <1>9 DEF EndSearch
  <2>3. found' \in [Hunts -> SUBSET Repos] /\ cut' \in SUBSET Repos
    BY <2>2
  <2>4. todo' \in [Hunts -> 1..(Len(Terms) + 1)] /\ interval' \in [Hunts -> Nat]
    BY <1>1, <1>9, <2>1 DEF EndSearch
  <2> QED
    BY <1>9, <2>3, <2>4 DEF EndSearch
<1>10. ASSUME NEW h \in Hunts, NEW r \in Repos, Tier1(h, r)
       PROVE  TypeOK' /\ CursorInReach'
  BY <1>10 DEF Tier1
<1>11. ASSUME NEW h \in Hunts, FinishRun(h) PROVE TypeOK' /\ CursorInReach'
  BY <1>11 DEF FinishRun, Leave
<1>12. ASSUME NEW h \in Hunts, Crash(h) PROVE TypeOK' /\ CursorInReach'
  <2>1. 1 \in 1..(Len(Terms) + 1)
    BY <1>1
  <2>2. todo' \in [Hunts -> 1..(Len(Terms) + 1)] /\ interval' \in [Hunts -> Nat]
    BY <1>1, <1>12, <2>1 DEF Crash
  <2>3. /\ retry' \in [Hunts -> [round : 1..Rounds, attempt : 1..Attempts]]
        /\ walk' \in [Hunts -> {NoWalk} \cup [query : Queries, start : Pages,
                                       page : 1..(MaxPage + 1), short : BOOLEAN]]
    BY <1>1, <1>12 DEF Crash, Abandon
  <2>4. /\ pc' \in [Hunts -> {"idle", "search", "screen"}]
        /\ known' \in [Hunts -> SUBSET Repos]
    BY <1>12 DEF Crash, Leave
  <2>5. found' \in [Hunts -> SUBSET Repos] /\ lost' \in SUBSET Repos
    BY <1>12 DEF Crash
  <2>6. crashes' \in Nat /\ UNCHANGED <<cursor, tracked, cut>>
    BY <1>12 DEF Crash
  <2> QED
    BY <2>2, <2>3, <2>4, <2>5, <2>6
<1>13. CASE UNCHANGED vars
  BY <1>13 DEF vars
<1> QED
  BY <1>2, <1>3, <1>4, <1>5, <1>6, <1>7, <1>8, <1>9, <1>10, <1>11, <1>12, <1>13
     DEF Next, Progress, Request

\* Every reachable state of the search is well typed; in particular no cursor
\* leaves the pages GitHub serves (advance_search_page).
THEOREM SearchTypeCorrect == Spec => []TypeOK
<1>1. Init => TypeOK /\ CursorInReach
  BY TypeInit
<1>2. TypeOK /\ CursorInReach /\ [Next]_vars => TypeOK' /\ CursorInReach'
  BY TypeStep
<1> QED
  BY <1>1, <1>2, PTL DEF Spec

-----------------------------------------------------------------------------
(***************************************************************************)
(* Pacing.                                                                 *)
(***************************************************************************)

\* search_code: neither throttling nor relaxing ever takes the interval of a
\* client out of the bounds it was given, in any mix of outcomes.
THEOREM PaceIsBounded == Spec => []PaceWithinBounds
<1> DEFINE Inv == TypeOK /\ CursorInReach /\ PaceWithinBounds
<1>1. Init => Inv
  <2> SUFFICES ASSUME Init PROVE PaceWithinBounds
    BY TypeInit
  <2> QED
    BY SearchAssumption DEF Init, PaceWithinBounds
<1>2. Inv /\ [Next]_vars => Inv'
  <2> SUFFICES ASSUME Inv, [Next]_vars PROVE PaceWithinBounds'
    BY TypeStep
  <2>1. interval \in [Hunts -> Base..Ceiling]
    BY DEF TypeOK, PaceWithinBounds
  <2>2. \A i \in Base..Ceiling : {Base, Relaxed(i), Stretched(i)} \subseteq Base..Ceiling
    <3> SUFFICES ASSUME NEW i \in Base..Ceiling
                 PROVE  {Base, Relaxed(i), Stretched(i)} \subseteq Base..Ceiling
      OBVIOUS
    <3>1. i \in Nat /\ Base \in Base..Ceiling
      BY SearchAssumption
    <3>2. Relaxed(i) \in Base..Ceiling /\ Stretched(i) \in Base..Ceiling
      BY <3>1, PaceOfOneSearch
    <3> QED
      BY <3>1, <3>2
  <2>3. \/ UNCHANGED interval
        \/ \E h \in Hunts : \E i \in {Base, Relaxed(interval[h]), Stretched(interval[h])} :
             interval' = [interval EXCEPT ![h] = i]
    BY DEF Next, Progress, Request, vars, walking, StartRun, SkipQuery, BeginQuery,
           PageAnswered, Throttled, PageFails, AdvanceCursor, EndSearch, Tier1, FinishRun,
           Crash
  <2>4. interval' \in [Hunts -> Base..Ceiling]
    <3>1. CASE UNCHANGED interval
      BY <2>1, <3>1
    <3>2. ASSUME NEW h \in Hunts,
                 NEW i \in {Base, Relaxed(interval[h]), Stretched(interval[h])},
                 interval' = [interval EXCEPT ![h] = i]
          PROVE  interval' \in [Hunts -> Base..Ceiling]
      <4>1. i \in Base..Ceiling
        BY <2>1, <2>2
      <4> QED
        BY <2>1, <3>2, <4>1
    <3> QED
      BY <2>3, <3>1, <3>2
  <2> QED
    BY <2>4 DEF PaceWithinBounds
<1> QED
  BY <1>1, <1>2, PTL DEF Spec

-----------------------------------------------------------------------------
(***************************************************************************)
(* Nothing is passed unseen.                                               *)
(***************************************************************************)

\* What has been seen stays accounted for: a candidate only ever moves from
\* the memory of a hunt to the table, to what --limit cut, or to what died.
LEMMA SeenStays == TypeOK /\ [Next]_vars => SeenRepos \subseteq SeenRepos'
<1> SUFFICES ASSUME TypeOK, [Next]_vars, NEW r \in SeenRepos PROVE r \in SeenRepos'
  OBVIOUS
<1>1. found \in [Hunts -> SUBSET Repos]
  BY DEF TypeOK
<1>2. r \in tracked \/ r \in cut \/ r \in lost \/ \E g \in Hunts : r \in found[g]
  BY DEF SeenRepos, InMemory
<1>3. SUFFICES r \in tracked' \/ r \in cut' \/ r \in lost' \/ \E g \in Hunts : r \in found'[g]
  BY DEF SeenRepos, InMemory
<1>4. tracked \subseteq tracked' /\ cut \subseteq cut' /\ lost \subseteq lost'
  BY DEF Next, Progress, Request, vars, walking, gone, StartRun, SkipQuery, BeginQuery,
         PageAnswered, Throttled, PageFails, AdvanceCursor, EndSearch, Tier1, FinishRun, Crash
<1>5. SUFFICES ASSUME NEW g \in Hunts, r \in found[g]
               PROVE  \/ r \in tracked' \/ r \in cut' \/ r \in lost'
                      \/ r \in found'[g]
  BY <1>2, <1>4
<1>6. CASE UNCHANGED found
  BY <1>5, <1>6
<1>7. ASSUME NEW h \in Hunts, NEW p \in Pages, PageAnswered(h, p)
      PROVE  r \in found'[g]
  BY <1>1, <1>5, <1>7 DEF PageAnswered
<1>8. ASSUME NEW h \in Hunts, EndSearch(h) PROVE r \in cut' \/ r \in found'[g]
  BY <1>1, <1>5, <1>8 DEF EndSearch
<1>9. ASSUME NEW h \in Hunts, NEW q \in Repos, Tier1(h, q)
      PROVE  r \in tracked' \/ r \in found'[g]
  BY <1>1, <1>5, <1>9 DEF Tier1
<1>10. ASSUME NEW h \in Hunts, Crash(h) PROVE r \in lost' \/ r \in found'[g]
  BY <1>1, <1>5, <1>10 DEF Crash
<1> QED
  BY <1>6, <1>7, <1>8, <1>9, <1>10
     DEF Next, Progress, Request, vars, walking, gone, StartRun, SkipQuery, BeginQuery,
         Throttled, PageFails, AdvanceCursor, FinishRun

LEMMA KnownStep == TypeOK /\ KnownIsTracked /\ [Next]_vars => KnownIsTracked'
<1> SUFFICES ASSUME TypeOK, KnownIsTracked, [Next]_vars, NEW g \in Hunts
             PROVE  known'[g] \subseteq tracked'
  BY DEF KnownIsTracked
<1>1. known \in [Hunts -> SUBSET Repos] /\ known[g] \subseteq tracked
  BY DEF TypeOK, KnownIsTracked
<1>2. tracked \subseteq tracked'
  BY DEF Next, Progress, Request, vars, walking, gone, StartRun, SkipQuery, BeginQuery,
         PageAnswered, Throttled, PageFails, AdvanceCursor, EndSearch, Tier1, FinishRun, Crash
<1>3. \/ UNCHANGED known
      \/ \E h \in Hunts : known' = [known EXCEPT ![h] = tracked]
      \/ \E h \in Hunts : known' = [known EXCEPT ![h] = {}]
  BY DEF Next, Progress, Request, vars, walking, gone, StartRun, SkipQuery, BeginQuery,
         PageAnswered, Throttled, PageFails, AdvanceCursor, EndSearch, Tier1, FinishRun,
         Crash, Leave
<1> QED
  BY <1>1, <1>2, <1>3

\* What holds of a walk holds of it after any step of any hunt.
LEMMA WalkStep ==
  ASSUME SearchInv, [Next]_vars
  PROVE  WalkedIsSeen' /\ ShortIsLast'
<1> USE DEF SearchInv
<1>1. SUFFICES ASSUME NEW g \in Hunts, walk'[g] # NoWalk
               PROVE  /\ \A p \in Pages :
                           p < walk'[g].page => Results[walk'[g].query][p] \subseteq SeenRepos'
                      /\ walk'[g].short => walk'[g].page > LastPage[walk'[g].query]
  BY DEF WalkedIsSeen, ShortIsLast
<1>2. walk \in [Hunts -> {NoWalk} \cup [query : Queries, start : Pages,
                                       page : 1..(MaxPage + 1), short : BOOLEAN]]
  BY DEF TypeOK
<1>3. SeenRepos \subseteq SeenRepos'
  BY SeenStays
<1>4. CASE walk'[g] = walk[g]
  BY <1>1, <1>3, <1>4 DEF WalkedIsSeen, ShortIsLast
<1>5. ASSUME NEW q \in Queries, BeginQuery(g, q)
      PROVE  /\ \A p \in Pages :
                  p < walk'[g].page => Results[walk'[g].query][p] \subseteq SeenRepos'
             /\ walk'[g].short => walk'[g].page > LastPage[walk'[g].query]
  <2>1. /\ walk'[g].query = q /\ walk'[g].page = cursor[q].next /\ walk'[g].short = FALSE
        /\ ~cursor[q].exhausted
    BY <1>2, <1>5 DEF BeginQuery
  <2>2. cursor[q].next \in 1..(MaxPage + 1) /\ MaxPage \in Nat
    BY SearchAssumption DEF TypeOK
  <2>3. \A p \in Pages : p < cursor[q].next => p \in Behind(q)
    BY <2>1, <2>2 DEF Behind, Pages
  <2>4. \A p \in Behind(q) \cap Pages : Results[q][p] \subseteq SeenRepos
    BY DEF PassedIsAccountedFor, SeenRepos
  <2> QED
    BY <1>3, <2>1, <2>3, <2>4
<1>6. ASSUME NEW n \in Pages, PageAnswered(g, n)
      PROVE  /\ \A p \in Pages :
                  p < walk'[g].page => Results[walk'[g].query][p] \subseteq SeenRepos'
             /\ walk'[g].short => walk'[g].page > LastPage[walk'[g].query]
  <2> DEFINE q == walk[g].query
  <2>1. walk[g] # NoWalk /\ walk[g].page = n
    BY <1>6 DEF PageAnswered, Requesting
  <2>2. q \in Queries /\ LastPage[q] \in Nat /\ n \in Nat
    BY <2>1, <1>2, SearchAssumption DEF Pages
  <2>3. walk'[g].query = q /\ walk'[g].page = n + 1 /\ walk'[g].short = (n >= LastPage[q])
    BY <1>2, <1>6 DEF PageAnswered
  <2>4. Results[q][n] \subseteq SeenRepos'
    <3>1. Results[q][n] \ known[g] \subseteq found'[g]
      BY <1>6 DEF PageAnswered, TypeOK
    <3>2. known[g] \subseteq tracked'
      BY <1>6 DEF PageAnswered, KnownIsTracked
    <3> QED
      BY <3>1, <3>2 DEF SeenRepos, InMemory
  <2>5. \A p \in Pages : p < n => Results[q][p] \subseteq SeenRepos
    BY <2>1 DEF WalkedIsSeen
  <2>6. \A p \in Pages : p < n + 1 => p < n \/ p = n
    BY <2>2 DEF Pages
  <2>7. n >= LastPage[q] => n + 1 > LastPage[q]
    BY <2>2
  <2> HIDE DEF q
  <2>8. \A p \in Pages : p < n + 1 => Results[q][p] \subseteq SeenRepos'
    BY <1>3, <2>4, <2>5, <2>6
  <2> QED
    BY <2>3, <2>7, <2>8
<1>7. \/ walk'[g] \in {walk[g], NoWalk}
      \/ \E q \in Queries : BeginQuery(g, q)
      \/ \E n \in Pages : PageAnswered(g, n)
  <2>1. \/ UNCHANGED walk
        \/ \E h \in Hunts : walk' = [walk EXCEPT ![h] = NoWalk]
        \/ \E h \in Hunts, q \in Queries : BeginQuery(h, q)
        \/ \E h \in Hunts, n \in Pages : PageAnswered(h, n)
    BY DEF Next, Progress, Request, vars, walking, StartRun, SkipQuery, Throttled, Retry,
           Abandon, PageFails, AdvanceCursor, EndSearch, Tier1, FinishRun, Crash
  <2>2. ASSUME NEW h \in Hunts, NEW q \in Queries, BeginQuery(h, q), h # g
        PROVE  walk'[g] = walk[g]
    BY <1>2, <2>2 DEF BeginQuery
  <2>3. ASSUME NEW h \in Hunts, NEW n \in Pages, PageAnswered(h, n), h # g
        PROVE  walk'[g] = walk[g]
    BY <1>2, <2>3 DEF PageAnswered
  <2> QED
    BY <1>2, <2>1, <2>2, <2>3
<1> QED
  BY <1>1, <1>4, <1>5, <1>6, <1>7

\* advance_search_page stores what its hunt walked; the page it stores has
\* nothing unseen before it.
LEMMA PassedStep ==
  ASSUME SearchInv, [Next]_vars
  PROVE  PassedIsAccountedFor'
<1> USE DEF SearchInv
<1>1. SeenRepos \subseteq SeenRepos'
  BY SeenStays
<1>2. SUFFICES ASSUME NEW q \in Queries, NEW p \in Pages, p \in Behind(q)'
               PROVE  Results[q][p] \subseteq SeenRepos'
  BY DEF PassedIsAccountedFor, SeenRepos
<1>3. CASE cursor'[q] = cursor[q]
  <2>1. p \in Behind(q)
    BY <1>2, <1>3 DEF Behind
  <2>2. Results[q][p] \subseteq SeenRepos
    BY <2>1 DEF PassedIsAccountedFor, SeenRepos
  <2> QED
    BY <1>1, <2>2
<1>4. ASSUME NEW h \in Hunts, AdvanceCursor(h), cursor'[q] # cursor[q]
      PROVE  Results[q][p] \subseteq SeenRepos
  <2>1. walk[h] # NoWalk /\ walk[h].query = q
    BY <1>4 DEF AdvanceCursor, TypeOK
  <2>2. walk[h].page \in 1..(MaxPage + 1) /\ MaxPage \in Nat /\ LastPage[q] \in Nat
    BY <2>1, WalkType, SearchAssumption
  <2>3. /\ cursor'[q].next = walk[h].page
        /\ cursor'[q].exhausted = (walk[h].short \/ walk[h].page > MaxPage)
    BY <1>4, <2>1 DEF AdvanceCursor, TypeOK
  <2>4. p < walk[h].page => Results[q][p] \subseteq SeenRepos
    BY <2>1 DEF WalkedIsSeen
  <2>5. p \in Nat /\ p <= MaxPage
    BY <2>2 DEF Pages
  <2>6. CASE p < walk[h].page
    BY <2>4, <2>6
  <2>7. CASE ~(p < walk[h].page)
    <3>1. cursor'[q].exhausted
      BY <1>2, <2>2, <2>3, <2>5, <2>7 DEF Behind
    <3>2. walk[h].short
      <4>1. ~(walk[h].page > MaxPage)
        BY <2>2, <2>5, <2>7
      <4> QED
        BY <2>3, <3>1, <4>1
    <3>3. p > LastPage[q]
      BY <2>1, <2>2, <2>5, <2>7, <3>2 DEF ShortIsLast
    <3> QED
      BY <3>3, SearchAssumption
  <2> QED
    BY <2>6, <2>7
<1>5. cursor' = cursor \/ \E h \in Hunts : AdvanceCursor(h)
  BY DEF Next, Progress, Request, vars, walking, StartRun, SkipQuery, BeginQuery,
         PageAnswered, Throttled, PageFails, EndSearch, Tier1, FinishRun, Crash
<1> QED
  BY <1>1, <1>3, <1>4, <1>5

\* No repo of a page the cursor of its query has passed is unaccounted for:
\* it is tracked, in the memory of a hunt, or was cut or lost by name.
THEOREM CursorPassesNothing == Spec => []PassedIsAccountedFor
<1>1. Init => SearchInv
  <2> SUFFICES ASSUME Init PROVE SearchInv
    OBVIOUS
  <2>1. TypeOK /\ CursorInReach
    BY TypeInit
  <2>2. KnownIsTracked /\ WalkedIsSeen /\ ShortIsLast
    BY DEF Init, KnownIsTracked, WalkedIsSeen, ShortIsLast
  <2>3. \A q \in Queries : Behind(q) = {}
    BY DEF Init, Behind
  <2> QED
    BY <2>1, <2>2, <2>3 DEF SearchInv, PassedIsAccountedFor
<1>2. SearchInv /\ [Next]_vars => SearchInv'
  BY TypeStep, KnownStep, WalkStep, PassedStep DEF SearchInv
<1>3. SearchInv => PassedIsAccountedFor
  BY DEF SearchInv
<1> QED
  BY <1>1, <1>2, <1>3, PTL DEF Spec
=============================================================================
