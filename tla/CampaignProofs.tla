--------------------------- MODULE CampaignProofs ---------------------------
(***************************************************************************)
(* What holds of the learning loop for any repos, hunts, sources, settings *)
(* of the sandbox and number of crashes: an attribution is always traced   *)
(* to a source, what is confirmed is learned, and a download is left       *)
(* behind only by the failures that NothingLeftBehind names.               *)
(***************************************************************************)
EXTENDS Campaign, FiniteSetTheorems, TLAPS

\* A hunt that scans or mines is at a repo of its queue, and has IOCs left to
\* store only while it mines.
AtWork ==
  \A h \in Hunts :
    /\ pc[h] \in {"box", "host", "mine"} => at[h] \in Repos /\ todo[h][at[h]] # "absent"
    /\ left[h] # {} => pc[h] = "mine"

Typed == TypeOK /\ AtWork

-----------------------------------------------------------------------------
(***************************************************************************)
(* What the pure operators return.                                         *)
(***************************************************************************)
LEMMA Constants ==
  /\ Lines \in [Repos -> SUBSET Line]
  /\ Mentions \in [Repos -> SUBSET Hosts]
  /\ Named \in [Repos -> SUBSET (Actors \cup {"none"})]
  /\ Sandboxed \in [Hunts -> SUBSET BOOLEAN]
  /\ "none" \notin Repos
  /\ "none" \notin Actors
BY CampaignAssumption, ActorAssumption

\* A scan reports only lines of the repo it read.
LEMMA HitsAreLines ==
  ASSUME NEW lines, NEW files, NEW categories, NEW listed, NEW flagged
  PROVE  Analyze(lines, files, categories, listed, flagged).hits \subseteq lines
BY DEF Analyze, Hits, BashHits, ManifestHits, ContentHits

LEMMA MinesAreIocs == ASSUME NEW r \in Repos PROVE Mines(r) \subseteq Iocs
<1>1. \A l \in Lines[r] : l.stub \in Stubs \cup {"none"}
  BY Constants DEF Line
<1>2. MinedHosts(r) \subseteq Hosts
  BY Constants DEF MinedHosts
<1>3. MinedSignatures(r) \subseteq Iocs
  BY <1>1 DEF MinedSignatures, Iocs
<1> QED
  BY <1>2, <1>3 DEF Mines, Iocs

Rows == [status : {"none", "screened", "confirmed", "rejected"},
         actor  : Actors \cup {"none"},
         hits   : SUBSET Line]

\* A saved row keeps its shape.
LEMMA UpsertTypes ==
  ASSUME NEW old \in Rows,
         NEW status \in {"screened", "confirmed", "rejected"},
         NEW actor \in Actors \cup {"none"},
         NEW hits \in SUBSET Line
  PROVE  Upsert(old, status, actor, hits) \in Rows
BY DEF Upsert, Rows

LEMMA SaveTypes ==
  ASSUME Typed, NEW h \in Hunts, NEW r \in Repos, todo[h][r] # "absent",
         NEW status \in {"screened", "confirmed", "rejected"},
         NEW hits \in SUBSET Line,
         Save(h, r, status, hits)
  PROVE  row' \in [Repos -> Rows]
<1>1. row[r] \in Rows /\ todo[h][r] \in Actors \cup {"none"}
  BY DEF Typed, TypeOK, Rows
<1>2. Upsert(row[r], status, todo[h][r], hits) \in Rows
  BY <1>1, UpsertTypes
<1> QED
  BY <1>2 DEF Save, Typed, TypeOK, Rows

\* A hunt that moves, leaving the others where they are.
LEMMA AtWorkStep ==
  ASSUME AtWork, NEW h \in Hunts,
         \A g \in Hunts \ {h} : /\ pc'[g] = pc[g] /\ at'[g] = at[g]
                                /\ todo'[g] = todo[g] /\ left'[g] = left[g],
         pc'[h] \in {"box", "host", "mine"} =>
           at'[h] \in Repos /\ todo'[h][at'[h]] # "absent",
         left'[h] # {} => pc'[h] = "mine"
  PROVE  AtWork'
BY DEF AtWork

\* What a scan concludes is saved as a row, mined, or forgotten.
LEMMA ConcludeTypes ==
  ASSUME Typed, NEW h \in Hunts, pc[h] \in {"box", "host"}, NEW result, NEW intel,
         result.hits \subseteq Line,
         Conclude(h, at[h], result, intel)
  PROVE  /\ row' \in [Repos -> Rows]
         /\ pc' \in [Hunts -> {"idle", "track", "tier2", "box", "host", "mine",
                               "correlate", "stamp"}]
         /\ todo' \in [Hunts -> [Repos -> Actors \cup {"none", "absent"}]]
         /\ at' \in [Hunts -> Repos \cup {"none"}]
         /\ left' \in [Hunts -> SUBSET Iocs]
         /\ AtWork'
<1>1. at[h] \in Repos /\ todo[h][at[h]] # "absent"
  BY DEF Typed, AtWork
<1>2. row \in [Repos -> Rows] /\ {} \in SUBSET Line
  BY DEF Typed, TypeOK, Rows
<1>3. row' \in [Repos -> Rows]
  BY <1>1, <1>2, SaveTypes DEF Conclude
<1>4. CASE BackToQueue(h, at[h]) /\ left' = left
  <2>1. AtWork'
    BY <1>4, AtWorkStep DEF BackToQueue, Drop, GoTo, Typed, TypeOK, AtWork
  <2> QED
    BY <1>1, <1>3, <1>4, <2>1 DEF BackToQueue, Drop, GoTo, Typed, TypeOK
<1>5. CASE /\ left' = [left EXCEPT ![h] = Mines(at[h])]
           /\ GoTo(h, "mine")
           /\ UNCHANGED <<todo, at>>
  <2>1. AtWork'
    BY <1>1, <1>5, AtWorkStep DEF GoTo, Typed, TypeOK, AtWork
  <2> QED
    BY <1>1, <1>3, <1>5, <2>1, MinesAreIocs DEF GoTo, Typed, TypeOK
<1> QED
  BY <1>4, <1>5 DEF Conclude

-----------------------------------------------------------------------------
LEMMA TypedInit == Init => Typed
BY Constants DEF Init, Typed, TypeOK, AtWork, NoRow, Nothing

LEMMA TypedDiscovery ==
  ASSUME Typed, NEW h \in Hunts, Discovery(h)
  PROVE  Typed'
<1>1. CASE Start(h)
  <2>1. AtWork'
    BY <1>1, AtWorkStep DEF Start, GoTo, Typed, TypeOK, AtWork
  <2> QED
    BY <1>1, <2>1 DEF Start, GoTo, Typed, TypeOK, trees
<1>2. ASSUME NEW r \in Repos, Track(h, r) PROVE Typed'
  <2>1. PICK actor \in Named[r] :
          /\ row' = [row EXCEPT ![r] = Upsert(@, "screened", actor, {})]
          /\ todo' = [todo EXCEPT ![h][r] = actor]
    BY <1>2 DEF Track
  <2>2. actor \in Actors \cup {"none"}
    BY Constants
  <2>3. row' \in [Repos -> Rows]
    <3>1. row[r] \in Rows
      BY DEF Typed, TypeOK, Rows
    <3> QED
      BY <2>1, <2>2, <3>1, UpsertTypes DEF Typed, TypeOK, Rows
  <2>4. todo' \in [Hunts -> [Repos -> Actors \cup {"none", "absent"}]]
    BY <2>1, <2>2 DEF Typed, TypeOK
  <2>5. AtWork'
    BY <1>2, <2>1, AtWorkStep DEF Track, Typed, TypeOK, AtWork
  <2> QED
    BY <1>2, <2>3, <2>4, <2>5 DEF Track, Typed, TypeOK, trees, Rows
<1>3. CASE EndTracking(h)
  <2>1. AtWork'
    BY <1>3, AtWorkStep DEF EndTracking, GoTo, Typed, TypeOK, AtWork
  <2>2. PICK wanted \in Sandboxed[h], up \in BOOLEAN :
          /\ wants' = [wants EXCEPT ![h] = wanted]
          /\ docker' = [docker EXCEPT ![h] = wanted /\ up]
    BY <1>3 DEF EndTracking
  <2>3. wanted \in BOOLEAN /\ (wanted /\ up) \in BOOLEAN
    BY Constants
  <2>4. wants' \in [Hunts -> BOOLEAN]
    BY <2>2, <2>3 DEF Typed, TypeOK
  <2>5. docker' \in [Hunts -> BOOLEAN]
    <3> DEFINE both == wanted /\ up
    <3>1. both \in BOOLEAN /\ docker' = [docker EXCEPT ![h] = both]
      BY <2>2, <2>3
    <3> HIDE DEF both
    <3> QED
      BY <3>1 DEF Typed, TypeOK
  <2> QED
    BY <1>3, <2>1, <2>4, <2>5 DEF EndTracking, GoTo, Typed, TypeOK, trees
<1> QED
  BY <1>1, <1>2, <1>3 DEF Discovery

LEMMA TypedScan ==
  ASSUME Typed, NEW h \in Hunts,
         \/ \E r \in Repos :
              Gate(h, r) \/ Unscanned(h, r) \/ StartContainer(h, r) \/ Clone(h, r)
         \/ ScanTimesOut(h) \/ ContainerFails(h) \/ ContainerAnswers(h)
         \/ HostScanFails(h) \/ HostScan(h)
  PROVE  Typed'
<1>1. ASSUME NEW r \in Repos, Gate(h, r) PROVE Typed'
  <2>1. PICK status \in IntentVerdicts(r) : Save(h, r, status, {})
    BY <1>1 DEF Gate
  <2>2. status \in {"screened", "confirmed", "rejected"} /\ {} \in SUBSET Line
    BY DEF IntentVerdicts
  <2>3. row' \in [Repos -> Rows]
    BY <1>1, <2>1, <2>2, SaveTypes DEF Gate, Queued
  <2>4. AtWork'
    BY <1>1, AtWorkStep DEF Gate, Queued, Drop, Typed, TypeOK, AtWork
  <2> QED
    BY <1>1, <2>3, <2>4 DEF Gate, Drop, Typed, TypeOK, trees, Rows
<1>2. ASSUME NEW r \in Repos, Unscanned(h, r) PROVE Typed'
  <2>1. AtWork'
    BY <1>2, AtWorkStep DEF Unscanned, Scannable, Queued, Drop, Typed, TypeOK, AtWork
  <2> QED
    BY <1>2, <2>1 DEF Unscanned, Drop, Typed, TypeOK, trees
<1>3. ASSUME NEW r \in Repos, StartContainer(h, r) PROVE Typed'
  <2>1. AtWork'
    BY <1>3, AtWorkStep DEF StartContainer, Scannable, Queued, GoTo, Typed, TypeOK, AtWork
  <2> QED
    BY <1>3, <2>1 DEF StartContainer, GoTo, Typed, TypeOK
<1>4. ASSUME NEW r \in Repos, Clone(h, r) PROVE Typed'
  <2>1. CASE /\ clones' = clones \cup {<<h, r>>}
             /\ at' = [at EXCEPT ![h] = r]
             /\ GoTo(h, "host")
             /\ UNCHANGED todo
    <3>1. AtWork'
      BY <1>4, <2>1, AtWorkStep
      DEF Clone, Scannable, Queued, GoTo, Typed, TypeOK, AtWork
    <3> QED
      BY <1>4, <2>1, <3>1 DEF Clone, GoTo, Typed, TypeOK
  <2>2. CASE Drop(h, r) /\ UNCHANGED <<pc, at>>
    <3>1. AtWork'
      BY <1>4, <2>2, AtWorkStep
      DEF Clone, Scannable, Queued, Drop, Typed, TypeOK, AtWork
    <3>2. clones' \subseteq Hunts \X Repos /\ stuck' \subseteq Hunts \X Repos
      BY <1>4 DEF Clone, Typed, TypeOK
    <3> QED
      BY <1>4, <2>2, <3>1, <3>2 DEF Clone, Drop, Typed, TypeOK
  <2> QED
    BY <1>4, <2>1, <2>2 DEF Clone
<1>5. CASE ScanTimesOut(h)
  <2>1. at[h] \in Repos
    BY <1>5 DEF ScanTimesOut, Typed, AtWork
  <2>2. AtWork'
    BY <1>5, AtWorkStep DEF ScanTimesOut, BackToQueue, Drop, GoTo, Typed, TypeOK, AtWork
  <2> QED
    BY <1>5, <2>1, <2>2 DEF ScanTimesOut, Reaps, BackToQueue, Drop, GoTo, Typed, TypeOK
<1>6. CASE ContainerFails(h)
  <2>1. AtWork'
    BY <1>6, AtWorkStep DEF ContainerFails, BackToQueue, Drop, GoTo, Typed, TypeOK, AtWork
  <2>2. at[h] \in Repos
    BY <1>6 DEF ContainerFails, Typed, AtWork
  <2> QED
    BY <1>6, <2>1, <2>2 DEF ContainerFails, BackToQueue, Drop, GoTo, Typed, TypeOK
<1>7. CASE ContainerAnswers(h)
  <2>1. at[h] \in Repos
    BY <1>7 DEF ContainerAnswers, Typed, AtWork
  <2>2. BoxedResult(at[h]).hits \subseteq Line
    BY <2>1, Constants, HitsAreLines DEF BoxedResult
  <2> QED
    BY <1>7, <2>2, ConcludeTypes DEF ContainerAnswers, Typed, TypeOK, Rows
<1>8. CASE HostScanFails(h)
  <2>1. AtWork'
    BY <1>8, AtWorkStep DEF HostScanFails, BackToQueue, Drop, GoTo, Typed, TypeOK, AtWork
  <2>2. at[h] \in Repos
    BY <1>8 DEF HostScanFails, Typed, AtWork
  <2> QED
    BY <1>8, <2>1, <2>2 DEF HostScanFails, BackToQueue, Drop, GoTo, Typed, TypeOK
<1>9. CASE HostScan(h)
  <2>1. at[h] \in Repos
    BY <1>9 DEF HostScan, Typed, AtWork
  <2>2. \A g \in BOOLEAN : HostResult(at[h], g).hits \subseteq Line
    BY <2>1, Constants, HitsAreLines DEF HostResult
  <2> QED
    BY <1>9, <2>2, ConcludeTypes DEF HostScan, Typed, TypeOK, Rows
<1> QED
  BY <1>1, <1>2, <1>3, <1>4, <1>5, <1>6, <1>7, <1>8, <1>9

LEMMA TypedMining ==
  ASSUME Typed, NEW h \in Hunts,
         (\E v \in Iocs : Mine(h, v)) \/ EndMining(h) \/ EndTier2(h)
  PROVE  Typed'
<1>1. ASSUME NEW v \in Iocs, Mine(h, v) PROVE Typed'
  <2>1. at[h] \in Repos
    BY <1>1 DEF Mine, Typed, AtWork
  <2>2. AtWork'
    BY <1>1 DEF Mine, Typed, AtWork
  <2> QED
    BY <1>1, <2>1, <2>2 DEF Mine, Typed, TypeOK, trees
<1>2. CASE EndMining(h)
  <2>1. AtWork'
    BY <1>2, AtWorkStep DEF EndMining, BackToQueue, Drop, GoTo, Typed, TypeOK, AtWork
  <2> QED
    BY <1>2, <2>1 DEF EndMining, BackToQueue, Drop, GoTo, Typed, TypeOK, trees
<1>3. CASE EndTier2(h)
  <2>1. AtWork'
    BY <1>3, AtWorkStep DEF EndTier2, GoTo, Typed, TypeOK, AtWork
  <2> QED
    BY <1>3, <2>1 DEF EndTier2, Own, GoTo, Typed, TypeOK
<1> QED
  BY <1>1, <1>2, <1>3

LEMMA TypedCorrelation ==
  ASSUME Typed, NEW h \in Hunts, Correlation(h)
  PROVE  Typed'
<1>1. CASE Correlate(h)
  <2>1. AtWork'
    BY <1>1, AtWorkStep DEF Correlate, GoTo, Typed, TypeOK, AtWork
  <2>2. PICK first \in [Unnamed -> Actors] :
          stamps' = [stamps EXCEPT ![h] = {<<r, first[r]>> : r \in Unnamed}]
    BY <1>1 DEF Correlate
  <2>3. {<<r, first[r]>> : r \in Unnamed} \subseteq Repos \X Actors
    BY DEF Unnamed
  <2>4. stamps' \in [Hunts -> SUBSET (Repos \X Actors)]
    BY <2>2, <2>3 DEF Typed, TypeOK
  <2> QED
    BY <1>1, <2>1, <2>4 DEF Correlate, GoTo, Typed, TypeOK, trees
<1>2. ASSUME NEW s \in Repos \X Actors, Stamp(h, s) PROVE Typed'
  <2>1. AtWork'
    BY <1>2 DEF Stamp, Typed, AtWork
  <2>2. row' \in [Repos -> Rows]
    <3>1. PICK r \in Repos, a \in Actors : s = <<r, a>>
      OBVIOUS
    <3>2. row' = [row EXCEPT ![r] = [@ EXCEPT !.actor = a]]
      BY <1>2, <3>1 DEF Stamp
    <3>3. row \in [Repos -> Rows]
      BY DEF Typed, TypeOK, Rows
    <3>4. \A old \in Rows : [old EXCEPT !.actor = a] \in Rows
      BY DEF Rows
    <3> QED
      BY <3>2, <3>3, <3>4
  <2> QED
    BY <1>2, <2>1, <2>2 DEF Stamp, Typed, TypeOK, trees, Rows
<1>3. CASE Finish(h)
  <2>1. AtWork'
    BY <1>3, AtWorkStep DEF Finish, GoTo, Typed, TypeOK, AtWork
  <2> QED
    BY <1>3, <2>1 DEF Finish, GoTo, Typed, TypeOK, trees
<1> QED
  BY <1>1, <1>2, <1>3 DEF Correlation

LEMMA TypedOthers ==
  ASSUME Typed,
         \/ \E h \in Hunts : ScratchStays(h) \/ Die(h)
         \/ \E h \in Hunts, r \in Repos : ContainerExits(h, r)
         \/ \E r \in Repos : Reject(r)
         \/ UNCHANGED vars
  PROVE  Typed'
<1>1. ASSUME NEW h \in Hunts, Die(h) PROVE Typed'
  <2>1. AtWork'
    BY <1>1, AtWorkStep DEF Die, Aborts, GoTo, Typed, TypeOK, AtWork
  <2>2. untaught' \subseteq Repos
    BY <1>1 DEF Die, Typed, TypeOK, AtWork
  <2> QED
    BY <1>1, <2>1, <2>2 DEF Die, Aborts, Own, GoTo, Nothing, Typed, TypeOK
<1>5. ASSUME NEW h \in Hunts, ScratchStays(h) PROVE Typed'
  <2>1. AtWork'
    BY <1>5, AtWorkStep DEF ScratchStays, Aborts, GoTo, Typed, TypeOK, AtWork
  <2> QED
    BY <1>5, <2>1 DEF ScratchStays, Aborts, Own, GoTo, Typed, TypeOK
<1>2. ASSUME NEW h \in Hunts, NEW r \in Repos, ContainerExits(h, r) PROVE Typed'
  BY <1>2 DEF ContainerExits, local, Typed, TypeOK, AtWork
<1>3. ASSUME NEW r \in Repos, Reject(r) PROVE Typed'
  <2>1. row' \in [Repos -> Rows]
    <3>1. row \in [Repos -> Rows]
      BY DEF Typed, TypeOK, Rows
    <3>2. \A old \in Rows : [old EXCEPT !.status = "rejected"] \in Rows
      BY DEF Rows
    <3>3. row' = [row EXCEPT ![r] = [row[r] EXCEPT !.status = "rejected"]]
      BY <1>3 DEF Reject
    <3> QED
      BY <3>1, <3>2, <3>3
  <2> QED
    BY <1>3, <2>1 DEF Reject, local, trees, Typed, TypeOK, AtWork, Rows
<1>4. CASE UNCHANGED vars
  BY <1>4 DEF vars, local, trees, Typed, TypeOK, AtWork
<1> QED
  BY <1>1, <1>2, <1>3, <1>4, <1>5

LEMMA TypedStep == Typed /\ [Next]_vars => Typed'
<1> SUFFICES ASSUME Typed, [Next]_vars PROVE Typed'
  OBVIOUS
<1>1. ASSUME NEW h \in Hunts, Progress(h) PROVE Typed'
  BY <1>1, TypedDiscovery, TypedScan, TypedMining, TypedCorrelation DEF Progress, Tier2
<1> QED
  BY <1>1, TypedOthers DEF Next

LEMMA AlwaysTyped == Spec => []Typed
BY TypedInit, TypedStep, PTL DEF Spec

\* Every reachable state is well typed, whatever the repos, the hunts and the
\* number of crashes: in particular what the program learns is a host, a stub
\* or a dropper path, never the absence of one.
THEOREM CampaignTypeCorrect == Spec => []TypeOK
<1>1. Typed => TypeOK
  BY DEF Typed
<1> QED
  BY <1>1, AlwaysTyped, PTL

-----------------------------------------------------------------------------
(***************************************************************************)
(* Attribution.                                                            *)
(***************************************************************************)
Traced(r, actor) == \E q \in Kin(r) : actor \in Named[q]

\* A row keeps lines of its own repo, and an actor some source named.
RowsTraced ==
  \A r \in Repos :
    /\ row[r].hits \subseteq Lines[r]
    /\ row[r].actor # "none" => Traced(r, row[r].actor)

\* So does what a hunt has in hand ...
TodoNamed ==
  \A h \in Hunts, r \in Repos : todo[h][r] # "absent" => todo[h][r] \in Named[r]

\* ... and what a correlation is still to write, however old its snapshot.
StampsTraced == \A h \in Hunts : \A s \in stamps[h] : Traced(s[1], s[2])

TraceInv == Typed /\ RowsTraced /\ TodoNamed /\ StampsTraced

\* One loader per repo: kin of kin is kin.
LEMMA KinOfMember ==
  ASSUME NEW r \in Repos, NEW q \in Repos, Loaders(q) \cap Loaders(r) # {},
         NEW p \in Kin(q)
  PROVE  p \in Kin(r)
<1>1. PICK k \in Lines[q], l \in Lines[r] : k.stub = l.stub /\ k.stub # "none"
  BY DEF Loaders
<1>2. CASE p = q
  BY <1>2 DEF Kin
<1>3. CASE p \in Repos /\ Loaders(p) \cap Loaders(q) # {}
  <2>1. PICK m \in Lines[p], n \in Lines[q] : m.stub = n.stub /\ m.stub # "none"
    BY <1>3 DEF Loaders
  <2>2. n.stub = k.stub
    BY <1>1, <2>1, OneLoader
  <2>3. l.stub \in Loaders(p) /\ l.stub \in Loaders(r)
    BY <1>1, <2>1, <2>2 DEF Loaders
  <2> QED
    BY <1>3, <2>3 DEF Kin
<1> QED
  BY <1>2, <1>3 DEF Kin

\* An actor found on a member of the campaign is traced for every member.
LEMMA MemberTraced ==
  ASSUME RowsTraced, NEW r \in Repos, NEW actor \in ActorsOf(Members(r))
  PROVE  Traced(r, actor)
<1>1. PICK q \in Members(r) : row[q].actor = actor /\ actor # "none"
  BY DEF ActorsOf
<1>2. q \in Repos /\ PayloadKeys(row[q].hits) \cap PayloadKeys(row[r].hits) # {}
  BY DEF Members, SharesLoader
<1>3. PayloadKeys(row[q].hits) \subseteq Loaders(q) /\ PayloadKeys(row[r].hits) \subseteq Loaders(r)
  BY <1>2 DEF RowsTraced, PayloadKeys, Loaders
<1>4. Loaders(q) \cap Loaders(r) # {}
  BY <1>2, <1>3
<1>5. PICK p \in Kin(q) : actor \in Named[p]
  BY <1>1, <1>2 DEF RowsTraced, Traced
<1> QED
  BY <1>2, <1>4, <1>5, KinOfMember DEF Traced

\* A named actor is traced for the repo it was named for.
LEMMA SavedTraced ==
  ASSUME Typed, RowsTraced, NEW r \in Repos, NEW status, NEW actor \in Named[r],
         NEW hits \in SUBSET Lines[r],
         row' = [row EXCEPT ![r] = Upsert(@, status, actor, hits)]
  PROVE  RowsTraced'
<1>1. Traced(r, actor)
  BY DEF Traced, Kin
<1>2. row'[r] = Upsert(row[r], status, actor, hits)
  BY DEF Typed, TypeOK
<1>3. row'[r].hits \subseteq Lines[r] /\ (row'[r].actor # "none" => Traced(r, row'[r].actor))
  BY <1>1, <1>2 DEF Upsert, RowsTraced
<1>4. \A q \in Repos \ {r} : row'[q] = row[q]
  BY DEF Typed, TypeOK
<1> QED
  BY <1>3, <1>4, SMTT(30) DEF RowsTraced, Traced, Kin, Loaders

LEMMA ConcludeTraced ==
  ASSUME TraceInv, NEW h \in Hunts, pc[h] \in {"box", "host"}, NEW result, NEW intel,
         result.hits \subseteq Lines[at[h]],
         Conclude(h, at[h], result, intel)
  PROVE  RowsTraced' /\ TodoNamed'
<1>1. at[h] \in Repos /\ todo[h][at[h]] # "absent" /\ todo[h][at[h]] \in Named[at[h]]
  BY DEF TraceInv, Typed, AtWork, TodoNamed
<1>2. \A status, hits : hits \in SUBSET Lines[at[h]] /\ Save(h, at[h], status, hits) => RowsTraced'
  BY <1>1, SavedTraced DEF Save, TraceInv
<1>3. RowsTraced'
  <2>1. CASE row' = row
    BY <2>1 DEF TraceInv, RowsTraced, Traced, Kin, Loaders
  <2>2. CASE Save(h, at[h], "screened", {}) \/ Save(h, at[h], "confirmed", result.hits)
    BY <1>2, <2>2
  <2> QED
    BY <2>1, <2>2 DEF Conclude
<1>4. TodoNamed'
  <2>1. CASE todo' = todo
    BY <2>1 DEF TraceInv, TodoNamed
  <2>2. CASE Drop(h, at[h])
    BY <1>1, <2>2 DEF Drop, TraceInv, TodoNamed, Typed, TypeOK
  <2> QED
    BY <2>1, <2>2 DEF Conclude, BackToQueue
<1> QED
  BY <1>3, <1>4

LEMMA TraceInit == Init => TraceInv
<1> SUFFICES ASSUME Init PROVE RowsTraced /\ TodoNamed /\ StampsTraced
  BY TypedInit DEF TraceInv
<1> QED
  BY DEF Init, NoRow, Nothing, RowsTraced, TodoNamed, StampsTraced

\* Every action that writes a row.
LEMMA RowsStep ==
  ASSUME TraceInv, Next
  PROVE  RowsTraced'
<1>a. ASSUME row' = row PROVE RowsTraced'
  BY <1>a DEF TraceInv, RowsTraced, Traced, Kin, Loaders
<1>1. ASSUME NEW h \in Hunts, NEW r \in Repos, Track(h, r) PROVE RowsTraced'
  <2>1. PICK actor \in Named[r] : row' = [row EXCEPT ![r] = Upsert(@, "screened", actor, {})]
    BY <1>1 DEF Track
  <2>2. {} \in SUBSET Lines[r]
    OBVIOUS
  <2> QED
    BY <2>1, <2>2, SavedTraced DEF TraceInv
<1>2. ASSUME NEW h \in Hunts, NEW r \in Repos, Gate(h, r) PROVE RowsTraced'
  <2>1. todo[h][r] \in Named[r]
    BY <1>2 DEF Gate, Queued, TraceInv, TodoNamed
  <2>2. PICK status : row' = [row EXCEPT ![r] = Upsert(@, status, todo[h][r], {})]
    BY <1>2 DEF Gate, Save
  <2>3. {} \in SUBSET Lines[r]
    OBVIOUS
  <2> QED
    BY <2>1, <2>2, <2>3, SavedTraced DEF TraceInv
<1>3. ASSUME NEW h \in Hunts, ContainerAnswers(h) PROVE RowsTraced'
  <2>1. BoxedResult(at[h]).hits \subseteq Lines[at[h]]
    BY HitsAreLines DEF BoxedResult
  <2> QED
    BY <1>3, <2>1, ConcludeTraced DEF ContainerAnswers
<1>4. ASSUME NEW h \in Hunts, HostScan(h) PROVE RowsTraced'
  <2>1. \A g \in BOOLEAN : HostResult(at[h], g).hits \subseteq Lines[at[h]]
    BY HitsAreLines DEF HostResult
  <2> QED
    BY <1>4, <2>1, ConcludeTraced DEF HostScan
<1>5. ASSUME NEW h \in Hunts, NEW s \in Repos \X Actors, Stamp(h, s) PROVE RowsTraced'
  <2>1. s[1] \in Repos /\ Traced(s[1], s[2])
    BY <1>5 DEF Stamp, TraceInv, StampsTraced
  <2>2. \A r \in Repos : row'[r].hits = row[r].hits
    BY <1>5 DEF Stamp, TraceInv, Typed, TypeOK
  <2>3. \A r \in Repos : row'[r].actor = row[r].actor \/ (r = s[1] /\ row'[r].actor = s[2])
    BY <1>5 DEF Stamp, TraceInv, Typed, TypeOK
  <2> QED
    BY <2>1, <2>2, <2>3 DEF TraceInv, RowsTraced, Traced, Kin, Loaders
<1>6. ASSUME NEW r \in Repos, Reject(r) PROVE RowsTraced'
  <2>1. \A q \in Repos : row'[q].hits = row[q].hits /\ row'[q].actor = row[q].actor
    BY <1>6 DEF Reject, TraceInv, Typed, TypeOK
  <2> QED
    BY <2>1 DEF TraceInv, RowsTraced, Traced, Kin, Loaders
<1>7. ASSUME NEW h \in Hunts, Progress(h) PROVE RowsTraced'
  <2>1. CASE Discovery(h)
    BY <2>1, <1>a, <1>1 DEF Discovery, Start, EndTracking
  <2>2. CASE Tier2(h)
    BY <2>2, <1>a, <1>2, <1>3, <1>4
    DEF Tier2, Unscanned, StartContainer, Clone, ScanTimesOut, ContainerFails,
        HostScanFails, Mine, EndMining, EndTier2
  <2>3. CASE Correlation(h)
    BY <2>3, <1>a, <1>5 DEF Correlation, Correlate, Finish
  <2> QED
    BY <1>7, <2>1, <2>2, <2>3 DEF Progress
<1> QED
  BY <1>a, <1>6, <1>7 DEF Next, ScratchStays, Die, ContainerExits

LEMMA TodoStep ==
  ASSUME TraceInv, Next
  PROVE  TodoNamed'
<1>a. ASSUME todo' = todo PROVE TodoNamed'
  BY <1>a DEF TraceInv, TodoNamed
<1>d. ASSUME NEW h \in Hunts, NEW r \in Repos, Drop(h, r) PROVE TodoNamed'
  BY <1>d DEF Drop, TraceInv, TodoNamed, Typed, TypeOK
<1>b. ASSUME NEW h \in Hunts, pc[h] \in {"box", "host", "mine"}, BackToQueue(h, at[h])
      PROVE  TodoNamed'
  BY <1>b, <1>d DEF BackToQueue, TraceInv, Typed, AtWork
<1>1. ASSUME NEW h \in Hunts, NEW r \in Repos, Track(h, r) PROVE TodoNamed'
  BY <1>1 DEF Track, TraceInv, TodoNamed, Typed, TypeOK
<1>2. ASSUME NEW h \in Hunts, ContainerAnswers(h) \/ HostScan(h) PROVE TodoNamed'
  BY <1>2, <1>a, <1>b DEF ContainerAnswers, HostScan, Conclude
<1>3. ASSUME NEW h \in Hunts, Progress(h) PROVE TodoNamed'
  <2>1. CASE Discovery(h)
    BY <2>1, <1>a, <1>1 DEF Discovery, Start, EndTracking
  <2>2. CASE Tier2(h)
    <3>1. ASSUME NEW r \in Repos,
                 Gate(h, r) \/ Unscanned(h, r) \/ StartContainer(h, r) \/ Clone(h, r)
          PROVE  TodoNamed'
      BY <3>1, <1>a, <1>d DEF Gate, Unscanned, StartContainer, Clone
    <3>2. CASE ScanTimesOut(h) \/ ContainerFails(h) \/ HostScanFails(h)
      BY <3>2, <1>b DEF ScanTimesOut, ContainerFails, HostScanFails
    <3>3. CASE (\E v \in Iocs : Mine(h, v)) \/ EndMining(h) \/ EndTier2(h)
      BY <3>3, <1>a, <1>b DEF Mine, EndMining, EndTier2
    <3> QED
      BY <2>2, <1>2, <3>1, <3>2, <3>3 DEF Tier2
  <2>3. CASE Correlation(h)
    BY <2>3, <1>a DEF Correlation, Correlate, Stamp, Finish
  <2> QED
    BY <1>3, <2>1, <2>2, <2>3 DEF Progress
<1>4. ASSUME NEW h \in Hunts, Die(h) PROVE TodoNamed'
  BY <1>4 DEF Die, Nothing, TraceInv, TodoNamed, Typed, TypeOK
<1> QED
  BY <1>a, <1>3, <1>4 DEF Next, ScratchStays, ContainerExits, Reject, local

LEMMA StampsStep ==
  ASSUME TraceInv, Next
  PROVE  StampsTraced'
<1>a. ASSUME stamps' = stamps PROVE StampsTraced'
  BY <1>a DEF TraceInv, StampsTraced, Traced, Kin, Loaders
<1>1. ASSUME NEW h \in Hunts, Correlate(h) PROVE StampsTraced'
  <2>1. PICK first \in [Unnamed -> Actors] :
          /\ \A r \in Unnamed : first[r] \in ActorsOf(Members(r))
          /\ stamps' = [stamps EXCEPT ![h] = {<<r, first[r]>> : r \in Unnamed}]
    BY <1>1 DEF Correlate
  <2>2. \A r \in Unnamed : Traced(r, first[r])
    BY <2>1, MemberTraced DEF TraceInv, Unnamed
  <2>3. \A g \in Hunts : \A s \in stamps'[g] : Traced(s[1], s[2])
    BY <2>1, <2>2 DEF TraceInv, StampsTraced, Typed, TypeOK
  <2> QED
    BY <2>3 DEF StampsTraced, Traced, Kin, Loaders
<1>2. ASSUME NEW h \in Hunts, NEW s, Stamp(h, s) PROVE StampsTraced'
  BY <1>2 DEF Stamp, TraceInv, StampsTraced, Traced, Kin, Loaders, Typed, TypeOK
<1>3. ASSUME NEW h \in Hunts, Progress(h) PROVE StampsTraced'
  <2>1. CASE Discovery(h)
    BY <2>1, <1>a DEF Discovery, Start, Track, EndTracking
  <2>2. CASE Tier2(h)
    BY <2>2, <1>a
    DEF Tier2, Gate, Unscanned, StartContainer, Clone, ScanTimesOut, ContainerFails,
        ContainerAnswers, HostScanFails, HostScan, Mine, EndMining, EndTier2
  <2>3. CASE Correlation(h)
    BY <2>3, <1>a, <1>1, <1>2 DEF Correlation, Finish
  <2> QED
    BY <1>3, <2>1, <2>2, <2>3 DEF Progress
<1>4. ASSUME NEW h \in Hunts, Die(h) PROVE StampsTraced'
  BY <1>4 DEF Die, TraceInv, StampsTraced, Traced, Kin, Loaders, Typed, TypeOK
<1> QED
  BY <1>a, <1>3, <1>4 DEF Next, ScratchStays, ContainerExits, Reject, local

LEMMA TraceStep == TraceInv /\ [Next]_vars => TraceInv'
<1> SUFFICES ASSUME TraceInv, [Next]_vars PROVE TraceInv'
  OBVIOUS
<1>1. Typed'
  BY TypedStep DEF TraceInv
<1>2. CASE Next
  BY <1>1, <1>2, RowsStep, TodoStep, StampsStep DEF TraceInv
<1>3. CASE UNCHANGED vars
  BY <1>1, <1>3
  DEF vars, local, TraceInv, RowsTraced, TodoNamed, StampsTraced, Traced, Kin, Loaders
<1> QED
  BY <1>2, <1>3

\* Whatever the sources say, however hunts overlap, and however old the
\* snapshot a correlation works from: an actor on a row was named by a source
\* for that repo or for one with the same loader.  The argument is that what
\* is copied between rows is copied along shared loaders, and that a repo has
\* one, so that kin of kin is kin.
THEOREM AttributionAlwaysTraced == Spec => []AttributionTraced
<1>1. TraceInv => AttributionTraced
  BY DEF TraceInv, RowsTraced, Traced, AttributionTraced
<1> QED
  BY <1>1, TraceInit, TraceStep, PTL DEF Spec

-----------------------------------------------------------------------------
(***************************************************************************)
(* Learning.                                                               *)
(***************************************************************************)

\* What a mining hunt no longer has to store has been learned.
MiningHonest ==
  \A h \in Hunts :
    pc[h] = "mine" => \A v \in Mines(at[h]) : v \in left[h] \/ learned[v] # "none"

LearnInv == Typed /\ ConfirmedIsLearned /\ MiningHonest

Known == ConfirmedIsLearned /\ MiningHonest

\* A step that confirms nothing, and in which no hunt begins or ends to mine.
LEMMA QuietStep ==
  ASSUME LearnInv, UNCHANGED <<learned, untaught>>,
         \A r \in Repos : Confirmed(r)' => Confirmed(r),
         \A h \in Hunts : pc[h] = "mine" \/ pc'[h] = "mine" =>
           pc[h] = pc'[h] /\ at[h] = at'[h] /\ left[h] = left'[h]
  PROVE  Known'
<1>1. \A r : Mines(r)' = Mines(r)
  BY DEF Mines, MinedHosts, MinedSignatures
<1>2. MiningHonest'
  BY <1>1 DEF LearnInv, MiningHonest
<1>3. ConfirmedIsLearned'
  BY <1>1 DEF LearnInv, ConfirmedIsLearned
<1> QED
  BY <1>2, <1>3 DEF Known

\* A repo saved as a lead or as rejected is not confirmed.
LEMMA LeadSaved ==
  ASSUME Typed, NEW r \in Repos, NEW status, status # "confirmed", NEW actor, NEW hits,
         row' = [row EXCEPT ![r] = Upsert(@, status, actor, hits)]
  PROVE  \A q \in Repos : Confirmed(q)' => Confirmed(q)
BY DEF Typed, TypeOK, Upsert, Confirmed

LEMMA ConcludeLearns ==
  ASSUME LearnInv, NEW h \in Hunts, pc[h] \in {"box", "host"}, NEW result, NEW intel,
         Conclude(h, at[h], result, intel), UNCHANGED <<learned, untaught>>
  PROVE  Known'
<1>1. at[h] \in Repos
  BY DEF LearnInv, Typed, AtWork
<1>2. CASE /\ BackToQueue(h, at[h]) /\ left' = left
           /\ row' = row \/ Save(h, at[h], "screened", {})
  <2>1. \A q \in Repos : Confirmed(q)' => Confirmed(q)
    BY <1>1, <1>2, LeadSaved, SMTT(30) DEF Save, Confirmed, LearnInv
  <2>2. \A g \in Hunts : pc[g] = "mine" \/ pc'[g] = "mine" =>
          pc[g] = pc'[g] /\ at[g] = at'[g] /\ left[g] = left'[g]
    BY <1>2 DEF BackToQueue, GoTo, LearnInv, Typed, TypeOK
  <2> QED
    BY <2>1, <2>2, QuietStep
<1>3. CASE /\ Save(h, at[h], "confirmed", result.hits)
           /\ left' = [left EXCEPT ![h] = Mines(at[h])]
           /\ GoTo(h, "mine")
           /\ UNCHANGED <<todo, at>>
  <2>1. \A r : Mines(r)' = Mines(r)
    BY DEF Mines, MinedHosts, MinedSignatures
  <2>2. \A g \in Hunts \ {h} : pc'[g] = pc[g] /\ left'[g] = left[g]
    BY <1>3 DEF GoTo, LearnInv, Typed, TypeOK
  <2>3. pc'[h] = "mine" /\ left'[h] = Mines(at[h]) /\ at' = at
    BY <1>3 DEF GoTo, LearnInv, Typed, TypeOK
  <2>4. MiningHonest'
    BY <2>1, <2>2, <2>3 DEF LearnInv, MiningHonest
  <2>5. \A q \in Repos : q # at[h] => (Confirmed(q)' => Confirmed(q))
    BY <1>1, <1>3 DEF Save, Confirmed, LearnInv, Typed, TypeOK
  <2>6. \A g \in Hunts : pc[g] = "mine" => pc'[g] = "mine"
    BY <2>2, <2>3
  <2>7. ConfirmedIsLearned'
    BY <2>1, <2>3, <2>5, <2>6 DEF LearnInv, ConfirmedIsLearned
  <2> QED
    BY <2>4, <2>7 DEF Known
<1> QED
  BY <1>2, <1>3 DEF Conclude

LEMMA MineLearns ==
  ASSUME LearnInv, NEW h \in Hunts, NEW v \in Iocs, Mine(h, v)
  PROVE  Known'
<1>1. at[h] \in Repos /\ at[h] # "none"
  BY Constants DEF Mine, LearnInv, Typed, AtWork
<1>2. learned'[v] # "none" /\ \A w \in Iocs : learned[w] # "none" => learned'[w] # "none"
  BY <1>1 DEF Mine, LearnInv, Typed, TypeOK
<1>3. \A r \in Repos : Mines(r) \subseteq Iocs
  BY MinesAreIocs
<1>4. \A r : Mines(r)' = Mines(r)
  BY DEF Mines, MinedHosts, MinedSignatures
<1>5. \A g \in Hunts : left[g] \subseteq left'[g] \cup {v}
  BY DEF Mine, LearnInv, Typed, TypeOK
<1>6. MiningHonest'
  <2> SUFFICES ASSUME NEW g \in Hunts, pc[g] = "mine", NEW w \in Mines(at[g])
               PROVE  w \in left'[g] \/ learned'[w] # "none"
    BY <1>4 DEF Mine, MiningHonest
  <2>1. at[g] \in Repos /\ w \in Iocs
    BY <1>3 DEF LearnInv, Typed, AtWork
  <2> QED
    BY <1>2, <1>5, <2>1 DEF LearnInv, MiningHonest
<1>7. ConfirmedIsLearned'
  BY <1>2, <1>3, <1>4 DEF Mine, LearnInv, ConfirmedIsLearned, Confirmed
<1> QED
  BY <1>6, <1>7 DEF Known

\* A hunt that stops mining has stored it all, or dies.
LEMMA MiningEnds ==
  ASSUME LearnInv, NEW h \in Hunts, EndMining(h) \/ Die(h)
  PROVE  Known'
<1>1. \A r : Mines(r)' = Mines(r)
  BY DEF Mines, MinedHosts, MinedSignatures
<1>2. /\ \A g \in Hunts \ {h} : pc'[g] = pc[g] /\ at'[g] = at[g] /\ left'[g] = left[g]
      /\ pc'[h] # "mine"
      /\ UNCHANGED <<row, learned>>
  BY DEF EndMining, Die, Aborts, BackToQueue, GoTo, LearnInv, Typed, TypeOK
<1>3. MiningHonest'
  BY <1>1, <1>2 DEF LearnInv, MiningHonest
<1>4. untaught \subseteq untaught' /\ (left[h] # {} => at[h] \in untaught')
  BY DEF EndMining, Die
<1>5. ConfirmedIsLearned'
  <2> SUFFICES ASSUME NEW r \in Repos, Confirmed(r), pc[h] = "mine", at[h] = r
               PROVE  r \in untaught' \/ \A v \in Mines(r) : learned[v] # "none"
    BY <1>1, <1>2, <1>4 DEF LearnInv, ConfirmedIsLearned, Confirmed
  <2> QED
    BY <1>4 DEF LearnInv, MiningHonest
<1> QED
  BY <1>3, <1>5 DEF Known

LEMMA LearnStep == LearnInv /\ [Next]_vars => LearnInv'
<1> SUFFICES ASSUME LearnInv, [Next]_vars PROVE Known'
  BY TypedStep DEF LearnInv, Known
<1>q. ASSUME UNCHANGED <<learned, untaught>>,
             \A r \in Repos : Confirmed(r)' => Confirmed(r),
             \A g \in Hunts : pc[g] = "mine" \/ pc'[g] = "mine" =>
               pc[g] = pc'[g] /\ at[g] = at'[g] /\ left[g] = left'[g]
      PROVE  Known'
  BY <1>q, QuietStep
<1>1. ASSUME NEW h \in Hunts, Discovery(h) PROVE Known'
  <2>1. CASE Start(h) \/ EndTracking(h)
    BY <1>q, <2>1 DEF Start, EndTracking, GoTo, trees, Confirmed, LearnInv, Typed, TypeOK
  <2>2. ASSUME NEW r \in Repos, Track(h, r) PROVE Known'
    <3>1. PICK actor : row' = [row EXCEPT ![r] = Upsert(@, "screened", actor, {})]
      BY <2>2 DEF Track
    <3>2. \A q \in Repos : Confirmed(q)' => Confirmed(q)
      BY <3>1, LeadSaved DEF LearnInv
    <3> QED
      BY <1>q, <2>2, <3>2 DEF Track
  <2> QED
    BY <1>1, <2>1, <2>2 DEF Discovery
<1>2. ASSUME NEW h \in Hunts, NEW r \in Repos,
             Gate(h, r) \/ Unscanned(h, r) \/ StartContainer(h, r) \/ Clone(h, r)
      PROVE  Known'
  <2>1. CASE Gate(h, r)
    <3>1. PICK status \in IntentVerdicts(r) : Save(h, r, status, {})
      BY <2>1 DEF Gate
    <3>2. status # "confirmed"
      BY DEF IntentVerdicts
    <3>3. \A q \in Repos : Confirmed(q)' => Confirmed(q)
      BY <3>1, <3>2, LeadSaved DEF Save, LearnInv
    <3> QED
      BY <1>q, <2>1, <3>3 DEF Gate
  <2>2. CASE Unscanned(h, r)
    BY <1>q, <2>2 DEF Unscanned, Confirmed
  <2>3. CASE StartContainer(h, r) \/ Clone(h, r)
    BY <1>q, <2>3
    DEF StartContainer, Clone, Scannable, Queued, GoTo, Confirmed, LearnInv, Typed, TypeOK
  <2> QED
    BY <1>2, <2>1, <2>2, <2>3
<1>3. ASSUME NEW h \in Hunts, ScanTimesOut(h) \/ ContainerFails(h) \/ HostScanFails(h)
      PROVE  Known'
  BY <1>q, <1>3
  DEF ScanTimesOut, ContainerFails, HostScanFails, BackToQueue, GoTo, Confirmed,
      LearnInv, Typed, TypeOK
<1>4. ASSUME NEW h \in Hunts, ContainerAnswers(h) \/ HostScan(h) PROVE Known'
  BY <1>4, ConcludeLearns DEF ContainerAnswers, HostScan
<1>5. ASSUME NEW h \in Hunts, (\E v \in Iocs : Mine(h, v)) \/ EndMining(h) PROVE Known'
  BY <1>5, MineLearns, MiningEnds
<1>6. ASSUME NEW h \in Hunts, EndTier2(h) \/ Correlate(h) \/ Finish(h) PROVE Known'
  BY <1>q, <1>6 DEF EndTier2, Correlate, Finish, GoTo, Confirmed, LearnInv, Typed, TypeOK
<1>7. ASSUME NEW h \in Hunts, NEW s \in Repos \X Actors, Stamp(h, s) PROVE Known'
  <2>1. \A q \in Repos : row'[q].status = row[q].status
    BY <1>7 DEF Stamp, LearnInv, Typed, TypeOK
  <2> QED
    BY <1>q, <1>7, <2>1 DEF Stamp, Confirmed
<1>8. ASSUME NEW h \in Hunts, Progress(h) PROVE Known'
  BY <1>1, <1>2, <1>3, <1>4, <1>5, <1>6, <1>7, <1>8 DEF Progress, Tier2, Correlation
<1>9. ASSUME NEW h \in Hunts, NEW r \in Repos, ContainerExits(h, r) PROVE Known'
  BY <1>q, <1>9 DEF ContainerExits, local, Confirmed
<1>10. ASSUME NEW r \in Repos, Reject(r) PROVE Known'
  <2>1. \A q \in Repos : row'[q].status \in {row[q].status, "rejected"}
    BY <1>10 DEF Reject, LearnInv, Typed, TypeOK
  <2> QED
    BY <1>q, <1>10, <2>1 DEF Reject, local, Confirmed
<1>11. CASE UNCHANGED vars
  BY <1>q, <1>11 DEF vars, local, Confirmed
<1>12. ASSUME NEW h \in Hunts, ScratchStays(h) PROVE Known'
  BY <1>q, <1>12 DEF ScratchStays, Aborts, GoTo, Confirmed, LearnInv, Typed, TypeOK
<1> QED
  BY <1>8, <1>9, <1>10, <1>11, <1>12, MiningEnds DEF Next

\* A confirmed repo's IOCs are learned, still being stored, or lost to the
\* death of the hunt that confirmed it: no overlap of hunts and no value two
\* repos share loses one.
THEOREM ConfirmedAlwaysLearned == Spec => []ConfirmedIsLearned
<1>1. Init => LearnInv
  <2> SUFFICES ASSUME Init PROVE ConfirmedIsLearned /\ MiningHonest
    BY TypedInit DEF LearnInv
  <2> QED
    BY DEF Init, NoRow, ConfirmedIsLearned, MiningHonest, Confirmed
<1>2. LearnInv => ConfirmedIsLearned
  BY DEF LearnInv
<1> QED
  BY <1>1, <1>2, LearnStep, PTL DEF Spec

-----------------------------------------------------------------------------
(***************************************************************************)
(* What a scan leaves behind.                                              *)
(***************************************************************************)

\* Who has Docker wants the sandbox, so that no tree of a hunt is on the host
\* while its container runs.
DockerWanted == \A h \in Hunts : docker[h] => wants[h]

TreesInv == Typed /\ DockerWanted /\ NothingLeftBehind

LEMMA DockerStep == TreesInv /\ [Next]_vars => DockerWanted'
<1> SUFFICES ASSUME TreesInv, [Next]_vars PROVE DockerWanted'
  OBVIOUS
<1>a. ASSUME UNCHANGED <<wants, docker>> PROVE DockerWanted'
  BY <1>a DEF TreesInv, DockerWanted
<1>b. ASSUME NEW h \in Hunts,
             wants' = [wants EXCEPT ![h] = FALSE], docker' = [docker EXCEPT ![h] = FALSE]
      PROVE  DockerWanted'
  BY <1>b DEF TreesInv, DockerWanted, Typed, TypeOK
<1>1. ASSUME NEW h \in Hunts, Discovery(h) PROVE DockerWanted'
  <2>1. CASE EndTracking(h)
    <3>1. PICK wanted \in Sandboxed[h], up \in BOOLEAN :
            /\ wants' = [wants EXCEPT ![h] = wanted]
            /\ docker' = [docker EXCEPT ![h] = wanted /\ up]
      BY <2>1 DEF EndTracking
    <3>2. wants'[h] = wanted /\ docker'[h] = (wanted /\ up)
      BY <3>1 DEF TreesInv, Typed, TypeOK
    <3>3. \A g \in Hunts \ {h} : wants'[g] = wants[g] /\ docker'[g] = docker[g]
      BY <3>1 DEF TreesInv, Typed, TypeOK
    <3> QED
      BY <3>2, <3>3 DEF TreesInv, DockerWanted
  <2> QED
    BY <1>1, <1>a, <2>1 DEF Discovery, Start, Track
<1>2. ASSUME NEW h \in Hunts, Tier2(h) PROVE DockerWanted'
  BY <1>2, <1>a
  DEF Tier2, Gate, Unscanned, StartContainer, Clone, ScanTimesOut, ContainerFails,
      ContainerAnswers, HostScanFails, HostScan, Mine, EndMining, EndTier2
<1>3. ASSUME NEW h \in Hunts, Correlation(h) PROVE DockerWanted'
  BY <1>3, <1>a, <1>b DEF Correlation, Correlate, Stamp, Finish
<1>4. ASSUME NEW h \in Hunts, ScratchStays(h) \/ Die(h) PROVE DockerWanted'
  BY <1>4, <1>b DEF ScratchStays, Die, Aborts
<1> QED
  BY <1>1, <1>2, <1>3, <1>4, <1>a DEF Next, Progress, ContainerExits, Reject, local, vars

\* Only what the hunt that moves has on the disk or running needs a look.
LEMMA OwnTrees ==
  ASSUME TreesInv, NEW h \in Hunts,
         \A g \in Hunts \ {h} : pc'[g] = pc[g] /\ at'[g] = at[g] /\ wants'[g] = wants[g],
         \A g \in Hunts \ {h}, r \in Repos :
           /\ <<g, r>> \in clones' => <<g, r>> \in clones
           /\ <<g, r>> \in stuck => <<g, r>> \in stuck'
           /\ <<g, r>> \in containers' => <<g, r>> \in containers
           /\ <<g, r>> \in astray => <<g, r>> \in astray',
         \A r \in Repos :
           /\ <<h, r>> \in clones' => CloneInUse(h, r)'
           /\ <<h, r>> \in containers' \ astray' => ContainerInUse(h, r)',
         husks' = {} \/ crashes' > 0
  PROVE  NothingLeftBehind'
<1>1. ASSUME NEW g \in Hunts, NEW r \in Repos
      PROVE  /\ <<g, r>> \in clones' => CloneInUse(g, r)'
             /\ <<g, r>> \in containers' \ astray' => ContainerInUse(g, r)'
  <2>1. CASE g = h
    BY <2>1
  <2>2. CASE g # h
    BY <2>2 DEF TreesInv, NothingLeftBehind, CloneInUse, ContainerInUse
  <2> QED
    BY <2>1, <2>2
<1> QED
  BY <1>1 DEF NothingLeftBehind

\* A step that moves no tree: of a hunt that stays where it is, that has no
\* Tier-2 under way, or that has mined a repo.
LEMMA TreesKept ==
  ASSUME TreesInv, UNCHANGED <<trees, crashes>>,
         \A g \in Hunts :
           \/ pc'[g] = pc[g] /\ at'[g] = at[g] /\ wants'[g] = wants[g]
           \/ pc[g] \notin {"tier2", "box", "host", "mine"}
           \/ pc[g] = "mine" /\ pc'[g] = "tier2" /\ wants'[g] = wants[g]
  PROVE  NothingLeftBehind'
BY DEF TreesInv, NothingLeftBehind, CloneInUse, ContainerInUse, trees

\* The container of h has come to its end or is left to itself.
LEMMA BoxLeft ==
  ASSUME TreesInv, NEW h \in Hunts, pc[h] = "box", UNCHANGED <<wants, clones, stuck, husks, crashes>>,
         \A g \in Hunts \ {h} : pc'[g] = pc[g] /\ at'[g] = at[g],
         \/ containers' = containers \ {<<h, at[h]>>} /\ astray' = astray
         \/ containers' = containers /\ astray' = astray \cup {<<h, at[h]>>}
  PROVE  NothingLeftBehind'
<1>1. \A r \in Repos : <<h, r>> \notin clones'
  BY DEF TreesInv, NothingLeftBehind, CloneInUse
<1>2. \A r \in Repos : <<h, r>> \notin containers' \ astray'
  BY DEF TreesInv, NothingLeftBehind, ContainerInUse
<1>3. husks' = {} \/ crashes' > 0
  BY DEF TreesInv, NothingLeftBehind
<1> QED
  BY <1>1, <1>2, <1>3, OwnTrees

\* The tree of h is gone or cannot be removed for now.
LEMMA HostLeft ==
  ASSUME TreesInv, NEW h \in Hunts, pc[h] = "host",
         UNCHANGED <<wants, containers, astray, husks, crashes>>,
         \A g \in Hunts \ {h} : pc'[g] = pc[g] /\ at'[g] = at[g],
         pc'[h] \in {"tier2", "mine"},
         \/ clones' = clones \ {<<h, at[h]>>} /\ stuck' = stuck
         \/ clones' = clones /\ stuck' = stuck \cup {<<h, at[h]>>}
  PROVE  NothingLeftBehind'
<1>1. \A r \in Repos : <<h, r>> \in clones' => <<h, r>> \in stuck' /\ ~wants[h]
  BY DEF TreesInv, NothingLeftBehind, CloneInUse
<1>2. \A r \in Repos : <<h, r>> \in clones' => CloneInUse(h, r)'
  BY <1>1 DEF CloneInUse
<1>3. \A r \in Repos : <<h, r>> \notin containers' \ astray'
  BY DEF TreesInv, NothingLeftBehind, ContainerInUse
<1>4. husks' = {} \/ crashes' > 0
  BY DEF TreesInv, NothingLeftBehind
<1> QED
  BY <1>2, <1>3, <1>4, OwnTrees

LEMMA ScanBegins ==
  ASSUME TreesInv, NEW h \in Hunts, NEW r \in Repos, StartContainer(h, r) \/ Clone(h, r)
  PROVE  NothingLeftBehind'
<1>0. /\ pc[h] = "tier2" /\ UNCHANGED <<wants, husks, crashes, astray>>
      /\ \A g \in Hunts \ {h} : pc'[g] = pc[g] /\ at'[g] = at[g]
  BY DEF StartContainer, Clone, Scannable, Queued, GoTo, TreesInv, Typed, TypeOK
<1>a. husks' = {} \/ crashes' > 0
  BY <1>0 DEF TreesInv, NothingLeftBehind
<1>b. \A q \in Repos : <<h, q>> \in clones => <<h, q>> \in stuck /\ ~wants[h]
  BY <1>0 DEF TreesInv, NothingLeftBehind, CloneInUse
<1>c. \A q \in Repos : <<h, q>> \notin containers \ astray
  BY <1>0 DEF TreesInv, NothingLeftBehind, ContainerInUse
<1>1. CASE StartContainer(h, r)
  <2>1. /\ pc'[h] = "box" /\ at'[h] = r /\ wants[h]
        /\ UNCHANGED <<clones, stuck>> /\ containers' = containers \cup {<<h, r>>}
    BY <1>1 DEF StartContainer, GoTo, TreesInv, DockerWanted, Typed, TypeOK
  <2>2. \A q \in Repos : <<h, q>> \notin clones'
    BY <1>b, <2>1
  <2>3. \A q \in Repos : <<h, q>> \in containers' \ astray' => ContainerInUse(h, q)'
    BY <1>0, <1>c, <2>1 DEF ContainerInUse
  <2> QED
    BY <1>0, <1>a, <2>1, <2>2, <2>3, OwnTrees
<1>2. CASE Clone(h, r)
  <2>1. ~wants[h] /\ UNCHANGED containers
    BY <1>2 DEF Clone, UsesHost
  <2>2. \A q \in Repos : <<h, q>> \notin containers' \ astray'
    BY <1>0, <1>c, <2>1
  <2>3. CASE /\ clones' = clones \cup {<<h, r>>} /\ stuck' = stuck
             /\ at' = [at EXCEPT ![h] = r] /\ GoTo(h, "host")
    <3>1. pc'[h] = "host" /\ at'[h] = r
      BY <2>3 DEF GoTo, TreesInv, Typed, TypeOK
    <3>2. \A q \in Repos : <<h, q>> \in clones' => CloneInUse(h, q)'
      BY <1>0, <1>b, <2>1, <2>3, <3>1 DEF CloneInUse
    <3> QED
      BY <1>0, <1>a, <2>1, <2>2, <2>3, <3>2, OwnTrees
  <2>4. CASE UNCHANGED <<pc, at, clones, stuck>>
    BY <1>0, <2>1, <2>4, TreesKept DEF trees
  <2>5. CASE /\ clones' = clones \cup {<<h, r>>} /\ stuck' = stuck \cup {<<h, r>>}
             /\ UNCHANGED <<pc, at>>
    <3>1. \A q \in Repos : <<h, q>> \in clones' => CloneInUse(h, q)'
      BY <1>0, <1>b, <2>1, <2>5 DEF CloneInUse
    <3> QED
      BY <1>0, <1>a, <2>1, <2>2, <2>5, <3>1, OwnTrees
  <2> QED
    BY <1>2, <2>3, <2>4, <2>5 DEF Clone
<1> QED
  BY <1>1, <1>2

\* The end of Tier-2, and of a run that is cut short, clears the scratch
\* directory or leaves it to its fate.
LEMMA ScratchLeft ==
  ASSUME TreesInv, NEW h \in Hunts, EndTier2(h) \/ ScratchStays(h) \/ Die(h)
  PROVE  NothingLeftBehind'
<1>1. /\ \A g \in Hunts \ {h} : pc'[g] = pc[g] /\ at'[g] = at[g] /\ wants'[g] = wants[g]
      /\ clones' = clones \ Own(h, clones) /\ stuck' = stuck \ Own(h, stuck)
      /\ containers' = containers
  BY DEF EndTier2, ScratchStays, Die, Aborts, GoTo, TreesInv, Typed, TypeOK
<1>2. husks' = {} \/ crashes' > 0
  BY DEF EndTier2, ScratchStays, Die, Aborts, TreesInv, NothingLeftBehind, Typed, TypeOK
<1>3. \A r \in Repos : <<h, r>> \notin clones'
  BY <1>1 DEF Own
<1>4. \A r \in Repos : <<h, r>> \notin containers' \ astray'
  <2>1. CASE Die(h)
    BY <1>1, <2>1 DEF Die, Own
  <2>2. CASE EndTier2(h) \/ ScratchStays(h)
    BY <2>2 DEF EndTier2, ScratchStays, TreesInv, NothingLeftBehind, ContainerInUse
  <2> QED
    BY <2>1, <2>2
<1>5. astray \subseteq astray'
  BY DEF EndTier2, ScratchStays, Die
<1>6. \A g \in Hunts \ {h}, r \in Repos :
        /\ <<g, r>> \in clones' => <<g, r>> \in clones
        /\ <<g, r>> \in stuck => <<g, r>> \in stuck'
  BY <1>1 DEF Own
<1> QED
  BY <1>1, <1>2, <1>3, <1>4, <1>5, <1>6, OwnTrees

LEMMA TreesStep == TreesInv /\ [Next]_vars => TreesInv'
<1> SUFFICES ASSUME TreesInv, [Next]_vars PROVE NothingLeftBehind'
  BY TypedStep, DockerStep DEF TreesInv
<1>1. ASSUME NEW h \in Hunts, Discovery(h) PROVE NothingLeftBehind'
  BY <1>1, TreesKept DEF Discovery, Start, Track, EndTracking, GoTo, TreesInv, Typed, TypeOK
<1>2. ASSUME NEW h \in Hunts, NEW r \in Repos, Gate(h, r) \/ Unscanned(h, r)
      PROVE  NothingLeftBehind'
  BY <1>2, TreesKept DEF Gate, Unscanned
<1>3. ASSUME NEW h \in Hunts, ScanTimesOut(h) \/ ContainerFails(h) \/ ContainerAnswers(h)
      PROVE  NothingLeftBehind'
  <2>1. /\ pc[h] = "box" /\ UNCHANGED <<wants, clones, stuck, husks, crashes>>
        /\ \/ containers' = containers \ {<<h, at[h]>>} /\ astray' = astray
           \/ containers' = containers /\ astray' = astray \cup {<<h, at[h]>>}
    BY <1>3 DEF ScanTimesOut, Reaps, ContainerFails, ContainerAnswers
  <2>2. \A g \in Hunts \ {h} : pc'[g] = pc[g] /\ at'[g] = at[g]
    BY <1>3
    DEF ScanTimesOut, ContainerFails, ContainerAnswers, Conclude, BackToQueue, GoTo,
        TreesInv, Typed, TypeOK
  <2> QED
    BY <2>1, <2>2, BoxLeft
<1>4. ASSUME NEW h \in Hunts, HostScanFails(h) \/ HostScan(h) PROVE NothingLeftBehind'
  <2>1. /\ pc[h] = "host" /\ UNCHANGED <<wants, containers, astray, husks, crashes>>
        /\ \/ clones' = clones \ {<<h, at[h]>>} /\ stuck' = stuck
           \/ clones' = clones /\ stuck' = stuck \cup {<<h, at[h]>>}
    BY <1>4 DEF HostScanFails, HostScan
  <2>2. /\ \A g \in Hunts \ {h} : pc'[g] = pc[g] /\ at'[g] = at[g]
        /\ pc'[h] \in {"tier2", "mine"}
    BY <1>4
    DEF HostScanFails, HostScan, Conclude, BackToQueue, GoTo, TreesInv, Typed, TypeOK
  <2> QED
    BY <2>1, <2>2, HostLeft
<1>5. ASSUME NEW h \in Hunts, (\E v \in Iocs : Mine(h, v)) \/ EndMining(h) \/ Correlation(h)
      PROVE  NothingLeftBehind'
  BY <1>5, TreesKept
  DEF Mine, EndMining, BackToQueue, Correlation, Correlate, Stamp, Finish, GoTo,
      TreesInv, Typed, TypeOK
<1>6. ASSUME NEW h \in Hunts, Progress(h) PROVE NothingLeftBehind'
  BY <1>1, <1>2, <1>3, <1>4, <1>5, <1>6, ScanBegins, ScratchLeft DEF Progress, Tier2
<1>7. ASSUME NEW h \in Hunts, NEW r \in Repos, ContainerExits(h, r) PROVE NothingLeftBehind'
  <2>1. /\ containers' = containers \ {<<h, r>>} /\ astray' = astray \ {<<h, r>>}
        /\ UNCHANGED <<clones, stuck, husks, crashes, pc, at, wants>>
    BY <1>7 DEF ContainerExits, local
  <2>2. containers' \ astray' \subseteq containers \ astray
    BY <2>1
  <2> QED
    BY <2>1, <2>2 DEF TreesInv, NothingLeftBehind, CloneInUse, ContainerInUse
<1>8. ASSUME NEW r \in Repos, Reject(r) PROVE NothingLeftBehind'
  BY <1>8, TreesKept DEF Reject, local
<1>9. CASE UNCHANGED vars
  BY <1>9, TreesKept DEF vars, local
<1> QED
  BY <1>6, <1>7, <1>8, <1>9, ScratchLeft DEF Next

\* No scan leaves a tree of a suspected repo on the host beyond Tier-2 unless
\* its run is cut short there, whichever removals fail on the way, and none is
\* on the host at all for a hunt that wanted the sandbox.  No container runs
\* unwatched but those of a run that died, of a removal that failed at its one
\* attempt, and of a client that failed, for which none is made.
THEOREM NothingIsLeftBehind == Spec => []NothingLeftBehind
<1>1. Init => TreesInv
  <2> SUFFICES ASSUME Init PROVE DockerWanted /\ NothingLeftBehind
    BY TypedInit DEF TreesInv
  <2> QED
    BY DEF Init, DockerWanted, NothingLeftBehind
<1>2. TreesInv => NothingLeftBehind
  BY DEF TreesInv
<1> QED
  BY <1>1, <1>2, TreesStep, PTL DEF Spec

-----------------------------------------------------------------------------
(***************************************************************************)
(* What is reported.                                                       *)
(***************************************************************************)
AllSignals == {"tradecraft_vector", "known_dprk_infra", "decoded_family",
               "malicious_dependency", "c2_infra_overlap"}

LEMMA SignalsAreFinite == ASSUME NEW signals \in SUBSET AllSignals PROVE IsFiniteSet(signals)
<1>1. IsFiniteSet({"tradecraft_vector", "known_dprk_infra"})
  <2>1. {"tradecraft_vector", "known_dprk_infra"} = {"tradecraft_vector"} \cup {"known_dprk_infra"}
    OBVIOUS
  <2>2. IsFiniteSet({"tradecraft_vector"})
    BY FS_Singleton
  <2> QED
    BY <2>1, <2>2, FS_AddElement
<1>2. IsFiniteSet({"tradecraft_vector", "known_dprk_infra", "decoded_family"})
  <2>1. {"tradecraft_vector", "known_dprk_infra", "decoded_family"}
          = {"tradecraft_vector", "known_dprk_infra"} \cup {"decoded_family"}
    OBVIOUS
  <2> QED
    BY <1>1, <2>1, FS_AddElement
<1>3. IsFiniteSet({"tradecraft_vector", "known_dprk_infra", "decoded_family", "malicious_dependency"})
  <2>1. {"tradecraft_vector", "known_dprk_infra", "decoded_family", "malicious_dependency"}
          = {"tradecraft_vector", "known_dprk_infra", "decoded_family"} \cup {"malicious_dependency"}
    OBVIOUS
  <2> QED
    BY <1>2, <2>1, FS_AddElement
<1>4. IsFiniteSet(AllSignals)
  <2>1. AllSignals = {"tradecraft_vector", "known_dprk_infra", "decoded_family", "malicious_dependency"}
                     \cup {"c2_infra_overlap"}
    BY DEF AllSignals
  <2> QED
    BY <1>3, <2>1, FS_AddElement
<1> QED
  BY <1>4, FS_Subset

\* A tier that is asserted rests on two signals, also the tier that one
\* decoded stage and any one other signal reach.
LEMMA AssertedNeedsTwo ==
  ASSUME NEW signals \in SUBSET AllSignals, Asserted(EvidenceTier(signals))
  PROVE  Cardinality(signals) >= 2
<1>1. IsFiniteSet(signals) /\ Cardinality(signals) \in Nat
  BY SignalsAreFinite, FS_CardinalityType
<1>2. CASE /\ "decoded_family" \in signals
           /\ signals \cap {"tradecraft_vector", "known_dprk_infra", "c2_infra_overlap"} # {}
  <2>1. PICK x \in signals : x # "decoded_family"
    BY <1>2
  <2> DEFINE pair == {"decoded_family", x}
  <2>2. pair \subseteq signals
    BY <1>2
  <2>3. Cardinality(pair) = 2
    <3>1. IsFiniteSet({x}) /\ Cardinality({x}) = 1
      BY FS_Singleton
    <3>2. pair = {x} \cup {"decoded_family"} /\ "decoded_family" \notin {x}
      BY <2>1
    <3> QED
      BY <3>1, <3>2, FS_AddElement
  <2> QED
    BY <1>1, <2>2, <2>3, FS_Subset
<1>3. CASE Cardinality(signals) >= 3 \/ Cardinality(signals) = 2
  BY <1>1, <1>3
<1> QED
  BY <1>1, <1>2, <1>3 DEF Asserted, EvidenceTier

LEMMA OwnAreSignals == ASSUME NEW flags PROVE OwnSignals(flags) \in SUBSET AllSignals
BY DEF OwnSignals, AllSignals

\* The rule that keeps a repo from corroborating itself, in every state.
LEMMA ClaimsRest == ClaimIsEarned
<1> SUFFICES ASSUME NEW r \in Repos, Confirmed(r), Asserted(Claim(r).tier),
                    ~NamedGroup(row[r].actor),
                    ~\E q \in Repos \ {r} :
                       Confirmed(q) /\ C2Hosts(row[q].hits) \cap C2Hosts(row[r].hits) # {}
             PROVE  Cardinality(OwnSignals(row[r].hits)) >= 2
  BY DEF ClaimIsEarned
<1> DEFINE flags == row[r].hits
           infra == DprkInfraHosts(r)
<1>1. C2Hosts(flags) \cap infra = {}
  BY DEF DprkInfraHosts
<1>2. Signals(flags, infra) = OwnSignals(flags)
  BY <1>1 DEF Signals
<1>3. Asserted(EvidenceTier(Signals(flags, infra)))
  BY DEF Claim, Attribute, Asserted
<1> QED
  BY <1>2, <1>3, OwnAreSignals, AssertedNeedsTwo

\* An attribution that is reported as probable or confirmed rests on two
\* signals of the repo's own, a named group, or a host of another repo.
THEOREM ClaimAlwaysEarned == Spec => []ClaimIsEarned
BY ClaimsRest, PTL

-----------------------------------------------------------------------------
(***************************************************************************)
(* The scanners.                                                           *)
(***************************************************************************)

\* More to read, more files or more categories never takes a confirmation
\* away.
LEMMA ConfirmingMonotone ==
  ASSUME NEW few, NEW many, few \subseteq many,
         NEW files, NEW more, files \subseteq more,
         NEW categories, NEW wider, categories \subseteq wider
  PROVE  Confirming(few, files, categories) \subseteq Confirming(many, more, wider)
BY DEF Confirming, Counts, StealsAndSends

\* The container confirms whatever the host would by its own rules: it reads
\* the whole tree in all categories.  What it lacks is GuardDog and the
\* intelligence on packages; what it adds are confirmations the lineage
\* restriction forbids (ForkConfirmsOnAddedOnly).
THEOREM BoxConfirmsWhatHostDoes ==
  ASSUME NEW r \in Repos, Listed = {}, HostResult(r, FALSE).confirmed
  PROVE  BoxedResult(r).confirmed
<1> DEFINE hits == Hits(Lines[r], {})
           categories == IF Lineage(r) THEN WeaponizationCategories ELSE AllCategories
<1>1. Confirming(hits, Restricted(r), categories) # {}
  BY DEF HostResult, Analyze
<1>2. Restricted(r) \subseteq Files
  BY CampaignAssumption DEF Restricted
<1>3. WeaponizationCategories \subseteq AllCategories
  <2>1. /\ <<"network_exfil", "paste-exfil">> \in ContentRules
        /\ <<"obfuscation", "atob">> \in ContentRules
        /\ <<"credential_access", "keyfiles">> \in ContentRules
    BY DEF ContentRules, Rules
  <2>2. /\ <<"download_exec", "fetch-then-exec">> \in BashRules
        /\ <<"exfiltration", "secret-exfil">> \in BashRules
        /\ <<"credential_harvest", "ssh-keys">> \in BashRules
    BY DEF BashRules, Rules
  <2>3. <<"install_hook", "vscode-autorun">> \in HookRules
    BY DEF HookRules, Rules
  <2> QED
    BY <2>1, <2>2, <2>3 DEF WeaponizationCategories, AllCategories
<1>4. Confirming(hits, Restricted(r), categories) \subseteq Confirming(hits, Files, AllCategories)
  <2>1. categories \subseteq AllCategories
    BY <1>3
  <2> QED
    BY <1>2, <2>1, ConfirmingMonotone
<1> QED
  BY <1>1, <1>4 DEF BoxedResult, Analyze

=============================================================================
