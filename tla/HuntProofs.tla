----------------------------- MODULE HuntProofs -----------------------------
(***************************************************************************)
(* What TLAPS proves about Hunt, for any repos, hunts, owners, discovery   *)
(* sources, verdicts and buckets: type correctness; rows keep their tier,  *)
(* their method and their rejection, the owner pivot keeps its seed and    *)
(* the feed shows novel evidence only, even when hunts overlap; and hunts  *)
(* that run one at a time deliver claim-first, confirm nothing that the    *)
(* gates hold back, and take no confirmation back.                         *)
(***************************************************************************)
EXTENDS Hunt, TLAPS

(***************************************************************************)
(* The operators on rows.                                                  *)
(***************************************************************************)
LEMMA UnscannedType ==
  ASSUME NEW status \in Statuses, NEW method \in Methods
  PROVE  Unscanned(status, method) \in Finding
BY DEF Unscanned, Finding, Tiers, Evidence

LEMMA ScanConfirmedType ==
  ASSUME NEW method \in Methods, NEW v \in Verdicts
  PROVE  ScanConfirmed(method, v.tier, v.evidence) \in Finding
BY HuntAssumption DEF HuntAssumption, ScanConfirmed, Finding, Statuses, Tiers

LEMMA UpsertType ==
  ASSUME NEW row \in Row, NEW f \in Finding
  PROVE  Upsert(row, f) \in Row
<1>1. NoRow \in Row
  BY DEF NoRow, Row, Tiers, Evidence
<1>2. Inserted(f) \in Row
  BY <1>1 DEF Inserted, Row, Finding
<1>3. CASE ~Present(row)
  BY <1>2, <1>3 DEF Upsert
<1>4. CASE Present(row)
  BY <1>4 DEF Upsert, Row, Finding
<1> QED BY <1>3, <1>4

LEMMA WithGoldType ==
  ASSUME NEW table \in [Repos -> Row], NEW names, NEW flag \in BOOLEAN
  PROVE  WithGold(table, names, flag) \in [Repos -> Row]
BY DEF WithGold, Row

LEMMA SaveType ==
  ASSUME findings \in [Repos -> Row], NEW r \in Repos, NEW f \in Finding, Save(r, f)
  PROVE  findings' \in [Repos -> Row]
BY UpsertType DEF Save

LEMMA BumpType ==
  ASSUME NEW count \in [Repos -> Nat], NEW names
  PROVE  Bump(count, names) \in [Repos -> Nat]
BY DEF Bump

(***************************************************************************)
(* Type correctness.                                                       *)
(***************************************************************************)
LEMMA InitType == Init => TypeOK
<1> SUFFICES ASSUME Init PROVE TypeOK OBVIOUS
<1>1. NoRow \in Row
  BY DEF NoRow, Row, Tiers, Evidence
<1>2. NoItem \in Item
  BY DEF NoItem, Item
<1> QED
  BY <1>1, <1>2 DEF Init, TypeOK, NoWork, NoOptions

\* A candidate under way has a method, so what is saved of it is a finding.
LEMMA ItemFinding ==
  ASSUME TypeOK, NEW h \in Hunts, NEW r \in Repos, work[h][r].stage # "none",
         NEW status \in Statuses
  PROVE  /\ work[h][r].method \in Methods
         /\ Unscanned(status, work[h][r].method) \in Finding
<1>1. work[h][r] \in Item
  BY DEF TypeOK
<1>2. work[h][r].method \in Methods
  BY <1>1 DEF Item
<1> QED BY <1>2, UnscannedType

LEMMA ForgetType ==
  ASSUME TypeOK, NEW h \in Hunts, NEW r \in Repos, Forget(h, r)
  PROVE  work' \in [Hunts -> [Repos -> Item]]
BY DEF Forget, TypeOK, NoItem, Item

LEMMA ScreenType ==
  ASSUME TypeOK, NEW h \in Hunts, Screen(h)
  PROVE  TypeOK'
<1>1. CASE StartRun(h)
  BY <1>1, HuntAssumption, WorldAssumption
  DEF StartRun, TypeOK, GoTo, Running, feed, HuntAssumption, WorldAssumption,
      KnownRepoNames
<1>2. ASSUME NEW r \in Repos, NEW m \in Methods, Discover(h, r, m) PROVE TypeOK'
  BY <1>2 DEF Discover, TypeOK, NoItem, Item, Methods, feed
<1>3. CASE EndDiscovery(h)
  BY <1>3 DEF EndDiscovery, TypeOK, GoTo, Running, feed
<1>4. ASSUME NEW r \in Repos, Tier1(h, r) PROVE TypeOK'
  <2> DEFINE item == work[h][r]
  <2>1. PICK scored \in BOOLEAN, high \in BOOLEAN, tool \in BOOLEAN :
          LET advances == Advances(r, item.method, scored)
              status   == IF advances THEN "screened" ELSE "candidate"
          IN /\ Save(r, Unscanned(status, item.method))
             /\ work' = [work EXCEPT ![h][r] =
                           IF opts[h].scan /\ (advances \/ high)
                           THEN [item EXCEPT !.stage = "queued", !.status = status,
                                             !.tool = tool]
                           ELSE NoItem]
    BY <1>4 DEF Tier1
  <2> DEFINE advances == Advances(r, item.method, scored)
             status   == IF advances THEN "screened" ELSE "candidate"
             queued   == [item EXCEPT !.stage = "queued", !.status = status, !.tool = tool]
  <2>2. item.stage = "found"
    BY <1>4 DEF Tier1
  <2>3. status \in {"candidate", "screened"}
    OBVIOUS
  <2>4. findings' \in [Repos -> Row]
    <3>1. Unscanned(status, item.method) \in Finding
      BY <2>2, <2>3, ItemFinding DEF Statuses
    <3>2. Save(r, Unscanned(status, item.method))
      BY <2>1
    <3> QED BY <3>1, <3>2, SaveType DEF TypeOK
  <2>5. queued \in Item
    <3>1. item \in Item
      BY DEF TypeOK
    <3> HIDE DEF status
    <3> QED BY <2>2, <2>3, <3>1 DEF Item
  <2>6. NoItem \in Item
    BY DEF NoItem, Item
  <2>7. work' \in [Hunts -> [Repos -> Item]]
    <3>1. PICK i \in Item : work' = [work EXCEPT ![h][r] = i]
      BY <2>1, <2>5, <2>6
    <3> QED BY <3>1 DEF TypeOK
  <2> QED BY <1>4, <2>4, <2>7 DEF Tier1, TypeOK, feed
<1>5. CASE EndTier1(h)
  BY <1>5 DEF EndTier1, AfterTier2, TypeOK, GoTo, Running, feed
<1> QED BY <1>1, <1>2, <1>3, <1>4, <1>5 DEF Screen

LEMMA ScanType ==
  ASSUME TypeOK, NEW h \in Hunts, Scan(h)
  PROVE  TypeOK'
<1>1. ASSUME NEW r \in Repos, ResumeSkip(h, r) PROVE TypeOK'
  BY <1>1, ForgetType DEF ResumeSkip, TypeOK, feed
<1>2. ASSUME NEW r \in Repos, Gate(h, r) PROVE TypeOK'
  <2>1. PICK status \in GateVerdicts(r, work[h][r]) :
          Save(r, Unscanned(status, work[h][r].method))
    BY <1>2 DEF Gate
  <2>2. status \in Statuses
    BY DEF GateVerdicts, Statuses
  <2>3. work[h][r].stage # "none"
    BY <1>2 DEF Gate, Next2
  <2>4. findings' \in [Repos -> Row]
    BY <2>1, <2>2, <2>3, ItemFinding, SaveType DEF TypeOK
  <2> QED BY <1>2, <2>4, ForgetType DEF Gate, TypeOK, feed
<1>3. ASSUME NEW r \in Repos, BeginScan(h, r) PROVE TypeOK'
  <2>1. work[h][r].stage = "queued" /\ work[h][r] \in Item
    BY <1>3 DEF BeginScan, Next2, TypeOK
  <2>2. [work[h][r] EXCEPT !.stage = "scanning"] \in Item
    BY <2>1 DEF Item
  <2>3. work' = [work EXCEPT ![h][r] = [work[h][r] EXCEPT !.stage = "scanning"]]
    BY <1>3 DEF BeginScan
  <2>4. work' \in [Hunts -> [Repos -> Item]]
    BY <2>2, <2>3 DEF TypeOK
  <2> QED BY <1>3, <2>4 DEF BeginScan, TypeOK, feed
<1>4. ASSUME NEW r \in Repos, ScanDrops(h, r) PROVE TypeOK'
  BY <1>4, ForgetType DEF ScanDrops, TypeOK, feed
<1>5. ASSUME NEW r \in Repos, ScanSpreads(h, r) PROVE TypeOK'
  <2>1. work[h][r].status \in Statuses
    BY DEF TypeOK, Item, Statuses
  <2>2. work[h][r].stage # "none"
    BY <1>5 DEF ScanSpreads, Scanning
  <2>3. Save(r, Unscanned(work[h][r].status, work[h][r].method))
    BY <1>5 DEF ScanSpreads
  <2>4. findings' \in [Repos -> Row]
    BY <2>1, <2>2, <2>3, ItemFinding, SaveType DEF TypeOK
  <2> QED BY <1>5, <2>4, ForgetType DEF ScanSpreads, TypeOK, feed
<1>6. ASSUME NEW r \in Repos, ScanConfirms(h, r) PROVE TypeOK'
  <2> DEFINE m == work[h][r].method
  <2>1. PICK v \in Verdicts :
          Save(r, IF m = "redteam_lineage" /\ v.tier # "auto"
                  THEN Unscanned("screened", m)
                  ELSE ScanConfirmed(m, v.tier, v.evidence))
    BY <1>6 DEF ScanConfirms
  <2>2. work[h][r].stage # "none"
    BY <1>6 DEF ScanConfirms, Scanning
  <2>3. m \in Methods /\ Unscanned("screened", m) \in Finding
    BY <2>2, ItemFinding DEF Statuses
  <2>4. ScanConfirmed(m, v.tier, v.evidence) \in Finding
    BY <2>3, ScanConfirmedType
  <2>5. findings' \in [Repos -> Row]
    BY <2>1, <2>3, <2>4, SaveType DEF TypeOK
  <2> QED BY <1>6, <2>5, ForgetType DEF ScanConfirms, TypeOK, feed
<1>7. CASE EndTier2(h)
  BY <1>7 DEF EndTier2, AfterTier2, TypeOK, GoTo, Running, feed
<1> QED BY <1>1, <1>2, <1>3, <1>4, <1>5, <1>6, <1>7 DEF Scan

LEMMA DeliverType ==
  ASSUME TypeOK, NEW h \in Hunts, Deliver(h)
  PROVE  TypeOK'
<1>1. CASE ReadGold(h)
  BY <1>1 DEF ReadGold, UndeliveredGold, TypeOK, GoTo, Running, feed
<1>2. ASSUME NEW c \in SUBSET Repos, Claim(h, c) PROVE TypeOK'
  <2>1. findings' \in [Repos -> Row]
    BY <1>2, WithGoldType DEF Claim, TypeOK
  <2> QED BY <1>2, <2>1 DEF Claim, TypeOK, GoTo, Running, feed
<1>3. CASE PostOk(h)
  BY <1>3, BumpType DEF PostOk, TypeOK, GoTo, Running, feed
<1>4. CASE PostFails(h)
  <2>1. Bump(shown, cluster[h]) \in [Repos -> Nat]
    BY BumpType DEF TypeOK
  <2>2. shown' \in [Repos -> Nat]
    BY <1>4, <2>1 DEF PostFails, TypeOK
  <2> QED BY <1>4, <2>2 DEF PostFails, TypeOK, GoTo, Running
<1>5. CASE Release(h)
  <2>1. findings' \in [Repos -> Row]
    BY <1>5, WithGoldType DEF Release, TypeOK
  <2> QED BY <1>5, <2>1 DEF Release, TypeOK, GoTo, Running, feed
<1>6. CASE FinishRun(h)
  BY <1>6 DEF FinishRun, TypeOK, GoTo, feed
<1> QED BY <1>1, <1>2, <1>3, <1>4, <1>5, <1>6 DEF Deliver

LEMMA CrashType ==
  ASSUME TypeOK, NEW h \in Hunts, Crash(h)
  PROVE  TypeOK'
<1>1. NoWork \in [Repos -> Item]
  BY DEF NoWork, NoItem, Item
<1>2. shown' \in [Repos -> Nat]
  BY BumpType DEF Crash, TypeOK
<1> QED BY <1>1, <1>2 DEF Crash, TypeOK, GoTo

LEMMA StepType == TypeOK /\ [Next]_vars => TypeOK'
<1> SUFFICES ASSUME TypeOK, [Next]_vars PROVE TypeOK' OBVIOUS
<1>1. ASSUME NEW h \in Hunts, Progress(h) PROVE TypeOK'
  BY <1>1, ScreenType, ScanType, DeliverType DEF Progress
<1>2. ASSUME NEW h \in Hunts, Crash(h) PROVE TypeOK'
  BY <1>2, CrashType
<1>3. CASE UNCHANGED vars
  BY <1>3 DEF TypeOK, vars, local, feed
<1> QED BY <1>1, <1>2, <1>3 DEF Next

(***************************************************************************)
(* Every reachable state of any number of hunts, serial or overlapping, is *)
(* of the declared type.                                                   *)
(***************************************************************************)
THEOREM TypeCorrect == Spec => []TypeOK
BY InitType, StepType, PTL DEF Spec

-----------------------------------------------------------------------------
(***************************************************************************)
(* What a step of any hunt may do to the table: save one finding of a      *)
(* candidate it has in hand, or flip delivered_gold.  What is saved bears  *)
(* the method the candidate was found by, and is confirmed by a scan only: *)
(* with a code hash and a tier, which for a fork is the auto tier.         *)
(***************************************************************************)
Savable(h, r) ==
  {f \in Finding :
     /\ f.method = work[h][r].method
     /\ f.status = "confirmed" =>
          /\ work[h][r].stage = "scanning"
          /\ f.tier # "none" /\ f.hash
          /\ f.method = "redteam_lineage" => f.tier = "auto"}

Saves(h) ==
  \E r \in Repos : \E f \in Savable(h, r) : work[h][r].stage # "none" /\ Save(r, f)

Flags == \E names \in SUBSET Repos, flag \in BOOLEAN :
           findings' = WithGold(findings, names, flag)

LEMMA UnscannedSaved ==
  ASSUME TypeOK, NEW h \in Hunts, NEW r \in Repos, work[h][r].stage # "none",
         NEW status \in Statuses \ {"confirmed"},
         Save(r, Unscanned(status, work[h][r].method))
  PROVE  Saves(h)
<1>1. Unscanned(status, work[h][r].method) \in Savable(h, r)
  BY ItemFinding DEF Savable, Unscanned
<1> QED BY <1>1 DEF Saves

LEMMA ScreenTable ==
  ASSUME TypeOK, NEW h \in Hunts, Screen(h)
  PROVE  UNCHANGED findings \/ Saves(h)
<1>1. ASSUME NEW r \in Repos, Tier1(h, r) PROVE Saves(h)
  <2>1. PICK status \in {"screened", "candidate"} :
          Save(r, Unscanned(status, work[h][r].method))
    BY <1>1 DEF Tier1
  <2> QED BY <1>1, <2>1, UnscannedSaved DEF Tier1, Statuses
<1> QED BY <1>1 DEF Screen, StartRun, Discover, EndDiscovery, EndTier1

LEMMA ScanTable ==
  ASSUME TypeOK, NEW h \in Hunts, Scan(h)
  PROVE  UNCHANGED findings \/ Saves(h)
<1>1. ASSUME NEW r \in Repos, Gate(h, r) PROVE Saves(h)
  <2>1. PICK status \in GateVerdicts(r, work[h][r]) :
          Save(r, Unscanned(status, work[h][r].method))
    BY <1>1 DEF Gate
  <2>2. status \in Statuses \ {"confirmed"}
    BY DEF GateVerdicts, Statuses
  <2> QED BY <1>1, <2>1, <2>2, UnscannedSaved DEF Gate, Next2
<1>2. ASSUME NEW r \in Repos, ScanSpreads(h, r) PROVE Saves(h)
  <2>1. work[h][r].status \in Statuses \ {"confirmed"}
    BY DEF TypeOK, Item, Statuses
  <2> QED BY <1>2, <2>1, UnscannedSaved DEF ScanSpreads, Scanning
<1>3. ASSUME NEW r \in Repos, ScanConfirms(h, r) PROVE Saves(h)
  <2> DEFINE m == work[h][r].method
  <2>1. work[h][r].stage = "scanning"
    BY <1>3 DEF ScanConfirms, Scanning
  <2>2. PICK v \in Verdicts :
          Save(r, IF m = "redteam_lineage" /\ v.tier # "auto"
                  THEN Unscanned("screened", m)
                  ELSE ScanConfirmed(m, v.tier, v.evidence))
    BY <1>3 DEF ScanConfirms
  <2>3. CASE m = "redteam_lineage" /\ v.tier # "auto"
    BY <2>1, <2>2, <2>3, UnscannedSaved DEF Statuses
  <2>4. CASE ~(m = "redteam_lineage" /\ v.tier # "auto")
    <3>1. ScanConfirmed(m, v.tier, v.evidence) \in Finding
      BY <2>1, ItemFinding, ScanConfirmedType DEF Statuses
    <3>2. v.tier # "none"
      BY HuntAssumption DEF HuntAssumption
    <3>3. ScanConfirmed(m, v.tier, v.evidence) \in Savable(h, r)
      BY <2>1, <2>4, <3>1, <3>2 DEF Savable, ScanConfirmed
    <3> QED BY <2>1, <2>2, <2>4, <3>3 DEF Saves
  <2> QED BY <2>3, <2>4
<1> QED BY <1>1, <1>2, <1>3 DEF Scan, ResumeSkip, BeginScan, ScanDrops, EndTier2

LEMMA TableStep ==
  ASSUME TypeOK, [Next]_vars
  PROVE  UNCHANGED findings \/ (\E h \in Hunts : Saves(h)) \/ Flags
<1>1. ASSUME NEW h \in Hunts, Deliver(h) PROVE UNCHANGED findings \/ Flags
  <2>1. ASSUME NEW c \in SUBSET Repos, Claim(h, c) PROVE Flags
    BY <2>1 DEF Claim, Flags
  <2>2. CASE Release(h)
    BY <2>2 DEF Release, Flags, TypeOK
  <2> QED BY <1>1, <2>1, <2>2 DEF Deliver, ReadGold, PostOk, PostFails, FinishRun
<1>2. ASSUME NEW h \in Hunts, Crash(h) PROVE UNCHANGED findings
  BY <1>2 DEF Crash
<1>3. CASE UNCHANGED vars
  BY <1>3 DEF vars
<1> QED BY ScreenTable, ScanTable, <1>1, <1>2, <1>3 DEF Next, Progress

\* A row is not lost, not claimed for submission, and not taken back from
\* rejected; one that no hunt has in hand keeps its verdict and its payload.
LEMMA RowStep ==
  ASSUME TypeOK, [Next]_vars, NEW r \in Repos
  PROVE  /\ Present(findings[r]) => Present(findings'[r])
         /\ findings'[r].submitted => findings[r].submitted
         /\ findings[r].status = "rejected" => findings'[r].status = "rejected"
         /\ Present(findings[r]) /\ (\A h \in Hunts : work[h][r].stage = "none")
              => /\ findings'[r].status = findings[r].status
                 /\ findings'[r].tier = findings[r].tier
                 /\ findings'[r].evidence = findings[r].evidence
<1>1. findings[r] \in Row
  BY DEF TypeOK
<1>2. ASSUME NEW f \in Finding
      PROVE  /\ Present(findings[r]) => Present(Upsert(findings[r], f))
             /\ Upsert(findings[r], f).submitted => findings[r].submitted
             /\ findings[r].status = "rejected" => Upsert(findings[r], f).status = "rejected"
  <2>1. CASE ~Present(findings[r])
    BY <2>1 DEF Upsert, Inserted, NoRow, Present
  <2>2. CASE Present(findings[r])
    BY <1>1, <2>2 DEF Upsert, Row, Present, Finding, Statuses
  <2> QED BY <2>1, <2>2
<1>3. CASE UNCHANGED findings
  BY <1>3
<1>4. ASSUME NEW h \in Hunts, Saves(h)
      PROVE  \/ findings'[r] = findings[r]
             \/ /\ work[h][r].stage # "none"
                /\ \E f \in Finding : findings'[r] = Upsert(findings[r], f)
  BY <1>4 DEF Saves, Savable, Save, TypeOK
<1>5. CASE Flags
  BY <1>1, <1>5 DEF Flags, WithGold, Present, Row
<1> QED BY <1>2, <1>3, <1>4, <1>5, TableStep

-----------------------------------------------------------------------------
(***************************************************************************)
(* Whatever hunts overlap, the confirmed rows have a tier and a hash: the  *)
(* gates of delivery and submission never meet a confirmation without one. *)
(***************************************************************************)
LEMMA TieredStep ==
  ASSUME TypeOK, ConfirmedIsTiered, [Next]_vars
  PROVE  ConfirmedIsTiered'
<1>1. CASE UNCHANGED findings
  BY <1>1 DEF ConfirmedIsTiered
<1>2. ASSUME NEW h \in Hunts, Saves(h) PROVE ConfirmedIsTiered'
  <2>1. PICK r \in Repos, f \in Finding : f \in Savable(h, r) /\ Save(r, f)
    BY <1>2 DEF Saves, Savable
  <2>2. findings' = [findings EXCEPT ![r] = Upsert(findings[r], f)]
    BY <2>1 DEF Save
  <2>3. ASSUME Upsert(findings[r], f).status = "confirmed"
        PROVE  /\ Upsert(findings[r], f).tier # "none"
               /\ Upsert(findings[r], f).hash
    <3>1. findings[r] \in Row
      BY DEF TypeOK
    <3>2. CASE ~Present(findings[r])
      BY <2>1, <2>3, <3>2 DEF Upsert, Inserted, NoRow, Savable, Finding
    <3>3. CASE Present(findings[r])
      BY <2>1, <2>3, <3>1, <3>3 DEF Upsert, Row, Savable, Finding
    <3> QED BY <3>2, <3>3
  <2> QED BY <2>2, <2>3 DEF ConfirmedIsTiered, TypeOK
<1>3. CASE Flags
  BY <1>3 DEF Flags, WithGold, ConfirmedIsTiered, TypeOK, Row
<1> QED BY <1>1, <1>2, <1>3, TableStep

THEOREM ConfirmedAlwaysTiered == Spec => []ConfirmedIsTiered
<1>1. Init => ConfirmedIsTiered
  BY DEF Init, ConfirmedIsTiered, NoRow
<1> QED BY <1>1, TieredStep, TypeCorrect, PTL DEF Spec

(***************************************************************************)
(* And no step of any hunt takes a rejection back.                         *)
(***************************************************************************)
THEOREM RejectionAlwaysKept == Spec => RejectionKept
<1> DEFINE Kept == \A r \in Repos : findings[r].status = "rejected" =>
                                      findings'[r].status = "rejected"
<1>1. ASSUME TypeOK, [Next]_vars PROVE Kept
  BY <1>1, RowStep
<1> QED BY <1>1, TypeCorrect, PTL DEF Spec, RejectionKept

-----------------------------------------------------------------------------
(***************************************************************************)
(* Hunts one at a time.  AckedAtMostOnce and DeliveredIsAccountedFor are   *)
(* not inductive: they rest on what a hunt has read.  At most one hunt has *)
(* anything in hand; the rows it has still to deliver are unclaimed, and   *)
(* the cluster it is posting was neither acknowledged nor left behind.     *)
(***************************************************************************)
OneActive == \A g, h \in Hunts : Active(g) /\ Active(h) => g = h

HandsMatchPc ==
  \A h \in Hunts :
    /\ ~Active(h) => rows[h] = {}
    /\ cluster[h] # {} <=> pc[h] \in {"posting", "release"}
    /\ rows[h] \cap cluster[h] = {}

AbsentIsUnclaimed ==
  \A r \in Repos : ~Present(findings[r]) => ~findings[r].delivered

RowsUnclaimed ==
  \A h \in Hunts : \A r \in rows[h] : Present(findings[r]) /\ ~findings[r].delivered

ClusterUntold ==
  \A h \in Hunts : \A r \in cluster[h] :
    Present(findings[r]) /\ acked[r] = 0 /\ r \notin lost

ClaimInv ==
  /\ OneActive
  /\ HandsMatchPc
  /\ AbsentIsUnclaimed
  /\ RowsUnclaimed
  /\ ClusterUntold
  /\ DeliveredIsAccountedFor

LEMMA InitClaims == Init => ClaimInv
BY DEF Init, ClaimInv, OneActive, HandsMatchPc, AbsentIsUnclaimed, RowsUnclaimed,
       ClusterUntold, DeliveredIsAccountedFor, Active, Running, NoRow, Present

\* An upsert leaves delivered_gold alone and never removes a row.
LEMMA SaveKeepsClaims ==
  ASSUME TypeOK, AbsentIsUnclaimed, NEW r \in Repos, NEW f \in Finding, Save(r, f)
  PROVE  \A q \in Repos :
           /\ findings'[q].delivered = findings[q].delivered
           /\ Present(findings[q]) => Present(findings'[q])
<1>1. findings[r] \in Row
  BY DEF TypeOK
<1>2. Upsert(findings[r], f).delivered = findings[r].delivered
  <2>1. CASE ~Present(findings[r])
    BY <2>1, <1>1 DEF Upsert, Inserted, NoRow, AbsentIsUnclaimed, Row
  <2>2. CASE Present(findings[r])
    BY <2>2, <1>1 DEF Upsert, Row
  <2> QED BY <2>1, <2>2
<1>3. Present(findings[r]) => Present(Upsert(findings[r], f))
  BY <1>1 DEF Upsert, Present, Row, Finding, Statuses
<1> QED BY <1>2, <1>3 DEF Save, TypeOK

\* A step that only saves, and that neither starts a hunt nor touches what a
\* hunt has in hand, keeps the claims right.
LEMMA ClaimsFrame ==
  ASSUME TypeOK, ClaimInv, TypeOK',
         \A q \in Repos :
           /\ findings'[q].delivered = findings[q].delivered
           /\ Present(findings[q]) => Present(findings'[q]),
         \A h \in Hunts : Active(h)' => Active(h),
         \A h \in Hunts : pc'[h] \in {"posting", "release"} <=> pc[h] \in {"posting", "release"},
         \A h \in Hunts : rows'[h] \subseteq rows[h],
         \A h \in Hunts : ~Active(h)' => rows'[h] = {},
         UNCHANGED <<cluster, acked, lost>>
  PROVE  ClaimInv'
<1>1. OneActive'
  BY DEF ClaimInv, OneActive
<1>2. HandsMatchPc'
  BY DEF ClaimInv, HandsMatchPc
<1>3. AbsentIsUnclaimed'
  BY DEF ClaimInv, AbsentIsUnclaimed
<1>4. RowsUnclaimed'
  BY DEF ClaimInv, RowsUnclaimed, TypeOK
<1>5. ClusterUntold'
  BY DEF ClaimInv, ClusterUntold, TypeOK
<1>6. DeliveredIsAccountedFor'
  BY DEF ClaimInv, DeliveredIsAccountedFor
<1> QED BY <1>1, <1>2, <1>3, <1>4, <1>5, <1>6 DEF ClaimInv

\* What Saves does to the claims.
LEMMA SavesKeepClaims ==
  ASSUME TypeOK, ClaimInv, NEW h \in Hunts, UNCHANGED findings \/ Saves(h)
  PROVE  \A q \in Repos :
           /\ findings'[q].delivered = findings[q].delivered
           /\ Present(findings[q]) => Present(findings'[q])
<1>1. CASE UNCHANGED findings
  BY <1>1
<1>2. CASE Saves(h)
  <2>1. PICK r \in Repos, f \in Finding : Save(r, f)
    BY <1>2 DEF Saves, Savable
  <2> QED BY <2>1, SaveKeepsClaims DEF ClaimInv
<1> QED BY <1>1, <1>2

LEMMA ScreenClaims ==
  ASSUME Serial, TypeOK, TypeOK', ClaimInv, NEW h \in Hunts, Screen(h)
  PROVE  ClaimInv'
<1>1. CASE StartRun(h)
  <2>1. \A g \in Hunts : ~Active(g) /\ rows[g] = {} /\ cluster[g] = {}
    BY <1>1 DEF StartRun, ClaimInv, HandsMatchPc, Active, Running
  <2>2. pc' = [pc EXCEPT ![h] = "discover"]
    BY <1>1 DEF StartRun, GoTo
  <2>3. UNCHANGED <<findings, rows, cluster, acked, lost>>
    BY <1>1 DEF StartRun, feed
  <2>4. OneActive'
    BY <2>1, <2>2 DEF OneActive, Active, TypeOK
  <2>5. HandsMatchPc'
    BY <2>1, <2>2, <2>3 DEF HandsMatchPc, Active, Running, TypeOK
  <2> QED
    BY <2>3, <2>4, <2>5
    DEF ClaimInv, AbsentIsUnclaimed, RowsUnclaimed, ClusterUntold, DeliveredIsAccountedFor
<1>2. CASE ~StartRun(h)
  <2>1. UNCHANGED <<rows, cluster, acked, lost>>
    BY <1>2 DEF Screen, Discover, EndDiscovery, Tier1, EndTier1, feed
  <2>2. pc' = pc \/ (pc[h] \in {"discover", "tier1"} /\
                     \E there \in {"tier1", "tier2", "gold", "deliver"} : GoTo(h, there))
    BY <1>2 DEF Screen, Discover, EndDiscovery, Tier1, EndTier1, AfterTier2
  <2>3. \A g \in Hunts : Active(g)' <=> Active(g)
    BY <2>2 DEF GoTo, Active, Running, TypeOK
  <2>4. \A g \in Hunts : pc'[g] \in {"posting", "release"} <=> pc[g] \in {"posting", "release"}
    BY <2>2 DEF GoTo, TypeOK
  <2>5. \A g \in Hunts : ~Active(g)' => rows'[g] = {}
    BY <2>1, <2>3 DEF ClaimInv, HandsMatchPc
  <2> QED BY <2>1, <2>3, <2>4, <2>5, ScreenTable, SavesKeepClaims, ClaimsFrame
<1> QED BY <1>1, <1>2

LEMMA ScanClaims ==
  ASSUME TypeOK, TypeOK', ClaimInv, NEW h \in Hunts, Scan(h)
  PROVE  ClaimInv'
<1>1. UNCHANGED <<rows, cluster, acked, lost>>
  BY DEF Scan, ResumeSkip, Gate, BeginScan, ScanDrops, ScanSpreads, ScanConfirms,
         EndTier2, feed
<1>2. pc' = pc \/ (pc[h] = "tier2" /\ \E there \in {"gold", "deliver"} : GoTo(h, there))
  BY DEF Scan, ResumeSkip, Gate, BeginScan, ScanDrops, ScanSpreads, ScanConfirms,
         EndTier2, AfterTier2
<1>3. \A g \in Hunts : Active(g)' <=> Active(g)
  BY <1>2 DEF GoTo, Active, Running, TypeOK
<1>4. \A g \in Hunts : pc'[g] \in {"posting", "release"} <=> pc[g] \in {"posting", "release"}
  BY <1>2 DEF GoTo, TypeOK
<1>5. \A g \in Hunts : ~Active(g)' => rows'[g] = {}
  BY <1>1, <1>3 DEF ClaimInv, HandsMatchPc
<1> QED BY <1>1, <1>3, <1>4, <1>5, ScanTable, SavesKeepClaims, ClaimsFrame

\* In the delivery loop, a hunt that is running is the only one, so nobody
\* else has rows or a cluster in hand.
LEMMA OthersEmpty ==
  ASSUME ClaimInv, NEW h \in Hunts, Active(h), NEW g \in Hunts, g # h
  PROVE  ~Active(g) /\ rows[g] = {} /\ cluster[g] = {}
BY DEF ClaimInv, OneActive, HandsMatchPc, Active, Running

\* The operator that claims and releases.
LEMMA WithGoldDelivered ==
  ASSUME TypeOK, NEW names \in SUBSET Repos, NEW flag \in BOOLEAN,
         findings' = WithGold(findings, names, flag)
  PROVE  \A r \in Repos :
           /\ Present(findings'[r]) <=> Present(findings[r])
           /\ r \in names /\ Present(findings[r]) => findings'[r].delivered = flag
           /\ r \notin names \/ ~Present(findings[r])
                => findings'[r].delivered = findings[r].delivered
BY DEF WithGold, Present, TypeOK, Row

LEMMA ClaimClaims ==
  ASSUME TypeOK, TypeOK', ClaimInv, NEW h \in Hunts, NEW c \in SUBSET Repos, Claim(h, c)
  PROVE  ClaimInv'
<1>1. /\ pc[h] = "deliver" /\ pc' = [pc EXCEPT ![h] = "posting"]
      /\ c # {} /\ c \subseteq rows[h]
      /\ findings' = WithGold(findings, c, TRUE)
      /\ rows' = [rows EXCEPT ![h] = rows[h] \ c]
      /\ cluster' = [cluster EXCEPT ![h] = c]
      /\ UNCHANGED <<acked, lost>>
  BY DEF Claim, Clusters, GoTo, feed
<1>2. Active(h) /\ cluster[h] = {}
  BY <1>1 DEF Active, Running, ClaimInv, HandsMatchPc
<1>3. \A g \in Hunts : g # h => ~Active(g) /\ rows[g] = {} /\ cluster[g] = {}
  BY <1>2, OthersEmpty
<1>4. \A r \in Repos :
        /\ Present(findings'[r]) <=> Present(findings[r])
        /\ findings'[r].delivered <=> r \in c \/ findings[r].delivered
  <2>1. \A r \in c : Present(findings[r])
    BY <1>1 DEF ClaimInv, RowsUnclaimed
  <2> QED BY <1>1, <2>1, WithGoldDelivered
<1>5. \A r \in c : Present(findings[r]) /\ acked[r] = 0 /\ r \notin lost
  <2> TAKE r \in c
  <2>1. r \in Repos /\ Present(findings[r]) /\ ~findings[r].delivered
    BY <1>1 DEF ClaimInv, RowsUnclaimed
  <2>2. ~(acked[r] > 0) /\ r \notin lost
    BY <2>1 DEF ClaimInv, DeliveredIsAccountedFor
  <2> QED BY <2>1, <2>2 DEF TypeOK
<1>6. OneActive'
  BY <1>1, <1>2 DEF ClaimInv, OneActive, Active, Running, TypeOK
<1>7. HandsMatchPc'
  BY <1>1, <1>2, <1>3 DEF ClaimInv, HandsMatchPc, Active, Running, TypeOK
<1>8. AbsentIsUnclaimed'
  BY <1>4, <1>5 DEF ClaimInv, AbsentIsUnclaimed
<1>9. /\ rows'[h] = rows[h] \ c /\ cluster'[h] = c
      /\ \A g \in Hunts : g # h => rows'[g] = {} /\ cluster'[g] = {}
  BY <1>1, <1>3 DEF TypeOK
<1>10. RowsUnclaimed'
  <2>1. \A r \in rows[h] : r \in Repos /\ Present(findings[r]) /\ ~findings[r].delivered
    BY DEF ClaimInv, RowsUnclaimed, TypeOK
  <2> QED BY <1>4, <1>9, <2>1 DEF RowsUnclaimed
<1>11. ClusterUntold'
  <2>1. \A r \in c : Present(findings'[r]) /\ acked'[r] = 0 /\ r \notin lost'
    BY <1>1, <1>4, <1>5
  <2> QED BY <1>9, <2>1 DEF ClusterUntold
<1>12. DeliveredIsAccountedFor'
  <2>1. \A r \in Repos : (\E g \in Hunts : r \in cluster'[g]) <=> r \in c
    BY <1>9
  <2>2. \A r \in Repos : ~ \E g \in Hunts : r \in cluster[g]
    BY <1>2, <1>3
  <2> QED BY <1>1, <1>4, <2>1, <2>2 DEF ClaimInv, DeliveredIsAccountedFor
<1> QED BY <1>6, <1>7, <1>8, <1>10, <1>11, <1>12 DEF ClaimInv

LEMMA PostOkClaims ==
  ASSUME TypeOK, TypeOK', ClaimInv, NEW h \in Hunts, PostOk(h)
  PROVE  ClaimInv'
<1>1. /\ pc[h] = "posting" /\ pc' = [pc EXCEPT ![h] = "deliver"]
      /\ cluster' = [cluster EXCEPT ![h] = {}]
      /\ UNCHANGED <<findings, rows, lost>>
  BY DEF PostOk, GoTo
<1>2. \A r \in Repos : acked'[r] > 0 <=> acked[r] > 0 \/ r \in cluster[h]
  BY HuntAssumption DEF PostOk, Bump, HuntAssumption, TypeOK
<1>3. Active(h)
  BY <1>1 DEF Active, Running
<1>4. \A g \in Hunts : g # h => ~Active(g) /\ rows[g] = {} /\ cluster[g] = {}
  BY <1>3, OthersEmpty
<1>5. OneActive'
  BY <1>1, <1>3 DEF ClaimInv, OneActive, Active, Running, TypeOK
<1>6. HandsMatchPc'
  BY <1>1, <1>3, <1>4 DEF ClaimInv, HandsMatchPc, Active, Running, TypeOK
<1>7. AbsentIsUnclaimed' /\ RowsUnclaimed'
  BY <1>1 DEF ClaimInv, AbsentIsUnclaimed, RowsUnclaimed
<1>8. ClusterUntold'
  BY <1>1, <1>4 DEF ClusterUntold, TypeOK
<1>9. DeliveredIsAccountedFor'
  BY <1>1, <1>2, <1>4 DEF ClaimInv, DeliveredIsAccountedFor, TypeOK
<1> QED BY <1>5, <1>6, <1>7, <1>8, <1>9 DEF ClaimInv

LEMMA ReleaseClaims ==
  ASSUME TypeOK, TypeOK', ClaimInv, NEW h \in Hunts, Release(h)
  PROVE  ClaimInv'
<1>1. /\ pc[h] = "release" /\ pc' = [pc EXCEPT ![h] = "deliver"]
      /\ cluster' = [cluster EXCEPT ![h] = {}]
      /\ findings' = WithGold(findings, cluster[h], FALSE)
      /\ UNCHANGED <<rows, acked, lost>>
  BY DEF Release, GoTo, feed
<1>2. Active(h)
  BY <1>1 DEF Active, Running
<1>3. \A g \in Hunts : g # h => ~Active(g) /\ rows[g] = {} /\ cluster[g] = {}
  BY <1>2, OthersEmpty
<1>4. \A r \in Repos :
        /\ Present(findings'[r]) <=> Present(findings[r])
        /\ findings'[r].delivered <=> r \notin cluster[h] /\ findings[r].delivered
  <2>1. \A r \in cluster[h] : Present(findings[r])
    BY DEF ClaimInv, ClusterUntold
  <2>2. cluster[h] \in SUBSET Repos
    BY DEF TypeOK
  <2> QED BY <1>1, <2>1, <2>2, WithGoldDelivered
<1>5. OneActive'
  BY <1>1, <1>2 DEF ClaimInv, OneActive, Active, Running, TypeOK
<1>6. HandsMatchPc'
  BY <1>1, <1>2, <1>3 DEF ClaimInv, HandsMatchPc, Active, Running, TypeOK
<1>7. AbsentIsUnclaimed' /\ RowsUnclaimed'
  BY <1>1, <1>4 DEF ClaimInv, AbsentIsUnclaimed, RowsUnclaimed, TypeOK
<1>8. ClusterUntold'
  BY <1>1, <1>3 DEF ClusterUntold, TypeOK
<1>9. DeliveredIsAccountedFor'
  <2>1. \A r \in cluster[h] : ~(acked[r] > 0) /\ r \notin lost
    BY DEF ClaimInv, ClusterUntold, TypeOK
  <2>2. \A g \in Hunts : cluster'[g] = {}
    BY <1>1, <1>3 DEF TypeOK
  <2>3. \A r \in Repos : (\E g \in Hunts : r \in cluster[g]) <=> r \in cluster[h]
    BY <1>3
  <2>4. \A r \in Repos : findings[r].delivered <=> acked[r] > 0 \/ r \in lost \/ r \in cluster[h]
    BY <2>3 DEF ClaimInv, DeliveredIsAccountedFor
  <2> QED BY <1>1, <1>4, <2>1, <2>2, <2>4 DEF DeliveredIsAccountedFor
<1> QED BY <1>5, <1>6, <1>7, <1>8, <1>9 DEF ClaimInv

LEMMA CrashClaims ==
  ASSUME TypeOK, TypeOK', ClaimInv, NEW h \in Hunts, Crash(h)
  PROVE  ClaimInv'
<1>1. /\ Active(h) /\ pc' = [pc EXCEPT ![h] = "crashed"]
      /\ cluster' = [cluster EXCEPT ![h] = {}]
      /\ rows' = [rows EXCEPT ![h] = {}]
      /\ lost' = lost \cup cluster[h]
      /\ UNCHANGED <<findings, acked>>
  BY DEF Crash, GoTo
<1>2. \A g \in Hunts : g # h => ~Active(g) /\ rows[g] = {} /\ cluster[g] = {}
  BY <1>1, OthersEmpty
<1>3. OneActive'
  BY <1>1, <1>2 DEF OneActive, Active, Running, TypeOK
<1>4. HandsMatchPc'
  BY <1>1, <1>2 DEF HandsMatchPc, Active, Running, TypeOK
<1>5. AbsentIsUnclaimed' /\ RowsUnclaimed' /\ ClusterUntold'
  BY <1>1, <1>2 DEF ClaimInv, AbsentIsUnclaimed, RowsUnclaimed, ClusterUntold, TypeOK
<1>6. DeliveredIsAccountedFor'
  BY <1>1, <1>2 DEF ClaimInv, DeliveredIsAccountedFor, TypeOK
<1> QED BY <1>3, <1>4, <1>5, <1>6 DEF ClaimInv

LEMMA DeliverClaims ==
  ASSUME TypeOK, TypeOK', ClaimInv, NEW h \in Hunts, Deliver(h)
  PROVE  ClaimInv'
<1>1. CASE ReadGold(h)
  <2>1. /\ pc[h] = "gold" /\ pc' = [pc EXCEPT ![h] = "deliver"]
        /\ UNCHANGED <<findings, cluster, acked, lost>>
    BY <1>1 DEF ReadGold, GoTo, feed
  <2>2. PICK gold \in SUBSET UndeliveredGold(findings) :
          rows' = [rows EXCEPT ![h] = gold]
    BY <1>1 DEF ReadGold
  <2>3. \A r \in gold : Present(findings[r]) /\ ~findings[r].delivered
    BY DEF UndeliveredGold, Gold, Present
  <2>4. Active(h)
    BY <2>1 DEF Active, Running
  <2>5. OneActive'
    BY <2>1, <2>4 DEF ClaimInv, OneActive, Active, Running, TypeOK
  <2>6. HandsMatchPc'
    BY <2>1, <2>2 DEF ClaimInv, HandsMatchPc, Active, Running, TypeOK
  <2>7. RowsUnclaimed'
    BY <2>1, <2>2, <2>3 DEF ClaimInv, RowsUnclaimed, TypeOK
  <2> QED
    BY <2>1, <2>5, <2>6, <2>7
    DEF ClaimInv, AbsentIsUnclaimed, ClusterUntold, DeliveredIsAccountedFor
<1>2. ASSUME NEW c \in SUBSET Repos, Claim(h, c) PROVE ClaimInv'
  BY <1>2, ClaimClaims
<1>3. CASE PostOk(h)
  BY <1>3, PostOkClaims
<1>4. CASE PostFails(h)
  <2>1. /\ pc[h] = "posting" /\ pc' = [pc EXCEPT ![h] = "release"]
        /\ UNCHANGED <<findings, rows, cluster, acked, lost>>
    BY <1>4 DEF PostFails, GoTo
  <2>2. \A g \in Hunts : Active(g)' <=> Active(g)
    BY <2>1 DEF Active, Running, TypeOK
  <2>3. \A g \in Hunts : pc'[g] \in {"posting", "release"} <=> pc[g] \in {"posting", "release"}
    BY <2>1 DEF TypeOK
  <2>4. \A g \in Hunts : ~Active(g)' => rows'[g] = {}
    BY <2>1, <2>2 DEF ClaimInv, HandsMatchPc
  <2> QED BY <2>1, <2>2, <2>3, <2>4, ClaimsFrame
<1>5. CASE Release(h)
  BY <1>5, ReleaseClaims
<1>6. CASE FinishRun(h)
  <2>1. /\ pc[h] = "deliver" /\ pc' = [pc EXCEPT ![h] = "completed"] /\ rows[h] = {}
        /\ UNCHANGED <<findings, rows, cluster, acked, lost>>
    BY <1>6 DEF FinishRun, GoTo, feed
  <2>2. \A g \in Hunts : Active(g)' => Active(g)
    BY <2>1 DEF Active, Running, TypeOK
  <2>3. \A g \in Hunts : pc'[g] \in {"posting", "release"} <=> pc[g] \in {"posting", "release"}
    BY <2>1 DEF TypeOK
  <2>4. \A g \in Hunts : ~Active(g)' => rows'[g] = {}
    BY <2>1 DEF ClaimInv, HandsMatchPc, Active, TypeOK
  <2> QED BY <2>1, <2>2, <2>3, <2>4, ClaimsFrame
<1> QED BY <1>1, <1>2, <1>3, <1>4, <1>5, <1>6 DEF Deliver

LEMMA StepClaims ==
  ASSUME Serial, TypeOK, TypeOK', ClaimInv, [Next]_vars
  PROVE  ClaimInv'
<1>1. ASSUME NEW h \in Hunts, Progress(h) PROVE ClaimInv'
  BY <1>1, ScreenClaims, ScanClaims, DeliverClaims DEF Progress
<1>2. ASSUME NEW h \in Hunts, Crash(h) PROVE ClaimInv'
  BY <1>2, CrashClaims
<1>3. CASE UNCHANGED vars
  BY <1>3 DEF vars, local, feed, ClaimInv, OneActive, HandsMatchPc, AbsentIsUnclaimed,
             RowsUnclaimed, ClusterUntold, DeliveredIsAccountedFor, Active
<1> QED BY <1>1, <1>2, <1>3 DEF Next

(***************************************************************************)
(* delivered_gold tells the truth of every repo, through any number of     *)
(* crashes and failed posts, when hunts run one at a time.                 *)
(***************************************************************************)
THEOREM DeliveredAlwaysAccountedFor ==
  ASSUME Serial
  PROVE  Spec => []DeliveredIsAccountedFor
<1>1. ClaimInv => DeliveredIsAccountedFor
  BY DEF ClaimInv
<1> QED BY <1>1, InitClaims, StepClaims, TypeCorrect, PTL DEF Spec

(***************************************************************************)
(* And Discord acknowledges no repo twice: what is posted is a cluster     *)
(* that was never acknowledged before (ClusterUntold).                     *)
(***************************************************************************)
LEMMA StepAcked ==
  ASSUME TypeOK, ClaimInv, AckedAtMostOnce, [Next]_vars
  PROVE  AckedAtMostOnce'
<1>1. ASSUME NEW h \in Hunts, PostOk(h) PROVE AckedAtMostOnce'
  <2>1. acked' = Bump(acked, cluster[h])
    BY <1>1 DEF PostOk
  <2>2. \A r \in cluster[h] : acked[r] = 0
    BY DEF ClaimInv, ClusterUntold
  <2> QED BY <2>1, <2>2 DEF Bump, AckedAtMostOnce, TypeOK
<1>2. ASSUME NEW h \in Hunts, Progress(h), ~PostOk(h) PROVE UNCHANGED acked
  <2>1. CASE Screen(h)
    BY <2>1 DEF Screen, StartRun, Discover, EndDiscovery, Tier1, EndTier1, feed
  <2>2. CASE Scan(h)
    BY <2>2 DEF Scan, ResumeSkip, Gate, BeginScan, ScanDrops, ScanSpreads, ScanConfirms,
                EndTier2, feed
  <2>3. CASE Deliver(h)
    BY <1>2, <2>3 DEF Deliver, ReadGold, Claim, PostFails, Release, FinishRun, feed
  <2> QED BY <1>2, <2>1, <2>2, <2>3 DEF Progress
<1>3. ASSUME NEW h \in Hunts, Crash(h) PROVE UNCHANGED acked
  BY <1>3 DEF Crash
<1>4. CASE UNCHANGED vars
  BY <1>4 DEF vars, feed, AckedAtMostOnce
<1> QED BY <1>1, <1>2, <1>3, <1>4 DEF Next, AckedAtMostOnce

THEOREM AlwaysAckedAtMostOnce ==
  ASSUME Serial
  PROVE  Spec => []AckedAtMostOnce
<1>1. Init => AckedAtMostOnce
  <2> SUFFICES ASSUME Init, NEW r \in Repos PROVE acked[r] <= 1
    BY DEF AckedAtMostOnce
  <2>1. acked[r] = 0
    BY DEF Init
  <2> QED BY <2>1
<1> QED BY <1>1, StepAcked, InitClaims, StepClaims, TypeCorrect, PTL DEF Spec

-----------------------------------------------------------------------------
(***************************************************************************)
(* The refinement: hunts that run one at a time implement the claim-first  *)
(* protocol.  Claim claims a cluster, PostOk tells it, Release releases    *)
(* it, and every other step is a stutter.                                  *)
(***************************************************************************)
Delivered == {r \in Repos : findings[r].delivered}

Told == {r \in Repos : acked[r] > 0}

LEMMA ClaimRefines ==
  ASSUME TypeOK, ClaimInv, NEW h \in Hunts, NEW c \in SUBSET Repos, Claim(h, c)
  PROVE  Delivery!Claim(c) /\ c # {}
<1>1. /\ c # {} /\ c \subseteq rows[h]
      /\ findings' = WithGold(findings, c, TRUE)
      /\ UNCHANGED acked
  BY DEF Claim, Clusters, feed
<1>2. \A r \in c : Present(findings[r]) /\ ~findings[r].delivered
  BY <1>1 DEF ClaimInv, RowsUnclaimed
<1>3. Delivered' = Delivered \cup c
  BY <1>1, <1>2, WithGoldDelivered DEF Delivered
<1> QED BY <1>1, <1>2, <1>3 DEF Delivery!Claim, Delivered

LEMMA PostOkRefines ==
  ASSUME TypeOK, ClaimInv, NEW h \in Hunts, PostOk(h), NEW S, S = cluster[h]
  PROVE  Delivery!Tell(S) /\ S # {}
<1>1. pc[h] = "posting" /\ UNCHANGED findings
  BY DEF PostOk
<1>2. cluster[h] # {}
  BY <1>1 DEF ClaimInv, HandsMatchPc
<1>3. \A r \in Repos : acked'[r] > 0 <=> acked[r] > 0 \/ r \in cluster[h]
  BY HuntAssumption DEF PostOk, Bump, HuntAssumption, TypeOK
<1>4. \A r \in cluster[h] : findings[r].delivered /\ ~(acked[r] > 0)
  <2> TAKE r \in cluster[h]
  <2>1. r \in Repos /\ Present(findings[r]) /\ acked[r] = 0
    BY DEF ClaimInv, ClusterUntold, TypeOK
  <2>2. findings[r].delivered
    BY <2>1 DEF ClaimInv, DeliveredIsAccountedFor
  <2> QED BY <2>1, <2>2
<1> QED BY <1>1, <1>2, <1>3, <1>4 DEF Delivery!Tell, TypeOK

LEMMA ReleaseRefines ==
  ASSUME TypeOK, ClaimInv, NEW h \in Hunts, Release(h), NEW S, S = cluster[h]
  PROVE  Delivery!Release(S) /\ S # {}
<1>1. /\ pc[h] = "release"
      /\ findings' = WithGold(findings, cluster[h], FALSE)
      /\ UNCHANGED acked
  BY DEF Release, feed
<1>2. cluster[h] # {} /\ cluster[h] \in SUBSET Repos
  BY <1>1 DEF ClaimInv, HandsMatchPc, TypeOK
<1>3. \A r \in cluster[h] : Present(findings[r]) /\ findings[r].delivered /\ ~(acked[r] > 0)
  <2> TAKE r \in cluster[h]
  <2>1. r \in Repos /\ Present(findings[r]) /\ acked[r] = 0
    BY DEF ClaimInv, ClusterUntold, TypeOK
  <2>2. findings[r].delivered
    BY <2>1 DEF ClaimInv, DeliveredIsAccountedFor
  <2> QED BY <2>1, <2>2
<1>4. \A r \in Repos :
        findings'[r].delivered <=> findings[r].delivered /\ r \notin cluster[h]
  BY <1>1, <1>2, <1>3, WithGoldDelivered
<1>5. Delivered' = Delivered \ cluster[h]
  BY <1>4 DEF Delivered
<1> QED BY <1>1, <1>2, <1>3, <1>5 DEF Delivery!Release, Delivered

LEMMA RefinedStep ==
  ASSUME TypeOK, ClaimInv, [Next]_vars
  PROVE  Delivery!Next \/ UNCHANGED <<Delivered, Told>>
<1>1. ASSUME NEW h \in Hunts, Screen(h) PROVE UNCHANGED <<Delivered, Told>>
  <2>1. UNCHANGED acked
    BY <1>1 DEF Screen, StartRun, Discover, EndDiscovery, Tier1, EndTier1, feed
  <2> QED BY <1>1, <2>1, ScreenTable, SavesKeepClaims DEF Delivered, Told
<1>2. ASSUME NEW h \in Hunts, Scan(h) PROVE UNCHANGED <<Delivered, Told>>
  <2>1. UNCHANGED acked
    BY <1>2 DEF Scan, ResumeSkip, Gate, BeginScan, ScanDrops, ScanSpreads, ScanConfirms,
                EndTier2, feed
  <2> QED BY <1>2, <2>1, ScanTable, SavesKeepClaims DEF Delivered, Told
<1>3. ASSUME NEW h \in Hunts, Deliver(h)
      PROVE  Delivery!Next \/ UNCHANGED <<Delivered, Told>>
  <2>1. ASSUME NEW c \in SUBSET Repos, Claim(h, c) PROVE Delivery!Next
    BY <2>1, ClaimRefines DEF Delivery!Next
  <2>2. CASE PostOk(h)
    <3>1. PICK S \in SUBSET Repos : S = cluster[h]
      BY DEF TypeOK
    <3>2. Delivery!Tell(S) /\ S # {}
      BY <2>2, <3>1, PostOkRefines
    <3> QED BY <3>2 DEF Delivery!Next
  <2>3. CASE Release(h)
    <3>1. PICK S \in SUBSET Repos : S = cluster[h]
      BY DEF TypeOK
    <3>2. Delivery!Release(S) /\ S # {}
      BY <2>3, <3>1, ReleaseRefines
    <3> QED BY <3>2 DEF Delivery!Next
  <2>4. CASE ReadGold(h) \/ PostFails(h) \/ FinishRun(h)
    BY <2>4 DEF ReadGold, PostFails, FinishRun, feed, Delivered, Told
  <2> QED BY <1>3, <2>1, <2>2, <2>3, <2>4 DEF Deliver
<1>4. ASSUME NEW h \in Hunts, Crash(h) PROVE UNCHANGED <<Delivered, Told>>
  BY <1>4 DEF Crash, Delivered, Told
<1>5. CASE UNCHANGED vars
  BY <1>5 DEF vars, feed, Delivered, Told
<1> QED BY <1>1, <1>2, <1>3, <1>4, <1>5 DEF Next, Progress

THEOREM DeliveryIsClaimFirst ==
  ASSUME Serial
  PROVE  Spec => ImplementsClaimFirst
<1>1. Init => Delivery!Init
  BY DEF Init, Delivery!Init, NoRow
<1>2. ASSUME TypeOK, ClaimInv, [Next]_vars
      PROVE  [Delivery!Next]_<<{r \in Repos : findings[r].delivered},
                               {r \in Repos : acked[r] > 0}>>
  BY <1>2, RefinedStep DEF Delivered, Told
<1> QED
  BY <1>1, <1>2, InitClaims, StepClaims, TypeCorrect, PTL
  DEF Spec, ImplementsClaimFirst, Delivery!Spec

-----------------------------------------------------------------------------
(***************************************************************************)
(* What the first source to name a repo decides.  A row keeps the method   *)
(* it was inserted with, whichever hunt saves the repo again; a candidate  *)
(* keeps the one it was found by.                                          *)
(***************************************************************************)
RowsHaveMethods ==
  \A r \in Repos : Present(findings[r]) <=> findings[r].method # "none"

LEMMA StepMethods ==
  ASSUME TypeOK, RowsHaveMethods, [Next]_vars
  PROVE  /\ RowsHaveMethods'
         /\ \A r \in Repos : Present(findings[r]) => findings'[r].method = findings[r].method
         /\ \A r \in Repos :
              \/ findings'[r].method = findings[r].method
              \/ \E h \in Hunts : /\ work[h][r].stage # "none"
                                  /\ findings'[r].method = work[h][r].method
<1>1. CASE UNCHANGED findings
  BY <1>1 DEF RowsHaveMethods
<1>2. ASSUME NEW h \in Hunts, Saves(h)
      PROVE  /\ RowsHaveMethods'
             /\ \A r \in Repos : Present(findings[r]) => findings'[r].method = findings[r].method
             /\ \A r \in Repos :
                  \/ findings'[r].method = findings[r].method
                  \/ /\ work[h][r].stage # "none"
                     /\ findings'[r].method = work[h][r].method
  <2>1. PICK r \in Repos, f \in Finding :
          work[h][r].stage # "none" /\ f.method = work[h][r].method /\ Save(r, f)
    BY <1>2 DEF Saves, Savable
  <2>2. findings[r] \in Row /\ (Present(findings[r]) <=> findings[r].method # "none")
    BY DEF TypeOK, RowsHaveMethods
  <2>3. /\ Present(Upsert(findings[r], f)) /\ Upsert(findings[r], f).method # "none"
        /\ Present(findings[r]) => Upsert(findings[r], f).method = findings[r].method
        /\ ~Present(findings[r]) => Upsert(findings[r], f).method = f.method
    <3>1. CASE ~Present(findings[r])
      BY <2>2, <3>1 DEF Upsert, Inserted, NoRow, Present, Finding, Statuses, Methods
    <3>2. CASE Present(findings[r])
      BY <2>2, <3>2 DEF Upsert, Row, Present, Finding, Statuses
    <3> QED BY <3>1, <3>2
  <2>4. findings' = [findings EXCEPT ![r] = Upsert(findings[r], f)]
    BY <2>1 DEF Save
  <2>5. \A q \in Repos : findings'[q] = IF q = r THEN Upsert(findings[r], f) ELSE findings[q]
    BY <2>4 DEF TypeOK
  <2> QED BY <2>1, <2>3, <2>5 DEF RowsHaveMethods
<1>3. CASE Flags
  BY <1>3 DEF Flags, WithGold, RowsHaveMethods, Present, TypeOK, Row
<1> QED BY <1>1, <1>2, <1>3, TableStep

\* A candidate after a step was one before it, or a source surfaced it now.
LEMMA StepWork ==
  ASSUME TypeOK, [Next]_vars
  PROVE  \A h \in Hunts, r \in Repos :
           work'[h][r].stage # "none" =>
             \/ work[h][r].stage # "none" /\ work'[h][r].method = work[h][r].method
             \/ /\ work'[h][r].stage = "found"
                /\ UNCHANGED findings /\ Surfaces(h, r, work'[h][r].method)
<1> DEFINE Traced == \A h \in Hunts, r \in Repos :
           work'[h][r].stage # "none" =>
             \/ work[h][r].stage # "none" /\ work'[h][r].method = work[h][r].method
             \/ /\ work'[h][r].stage = "found"
                /\ UNCHANGED findings /\ Surfaces(h, r, work'[h][r].method)
<1>1. ASSUME NEW h \in Hunts, NEW r \in Repos, Forget(h, r) PROVE Traced
  BY <1>1 DEF Forget, NoItem, TypeOK
<1>2. ASSUME UNCHANGED work PROVE Traced
  BY <1>2
<1>3. ASSUME NEW h \in Hunts, Screen(h) PROVE Traced
  <2>1. ASSUME NEW r \in Repos, NEW m \in Methods, Discover(h, r, m) PROVE Traced
    <3>1. work' = [work EXCEPT ![h][r] = [NoItem EXCEPT !.stage = "found", !.method = m]]
      BY <2>1 DEF Discover
    <3>2. UNCHANGED findings /\ Surfaces(h, r, m)
      BY <2>1 DEF Discover
    <3>3. work'[h][r].stage = "found" /\ work'[h][r].method = m
      BY <3>1 DEF NoItem, TypeOK
    <3>4. \A g \in Hunts, q \in Repos : (g # h \/ q # r) => work'[g][q] = work[g][q]
      BY <3>1 DEF TypeOK
    <3> QED BY <3>2, <3>3, <3>4
  <2>2. ASSUME NEW r \in Repos, Tier1(h, r) PROVE Traced
    <3>1. PICK i \in {NoItem} \cup {i \in Item : i.method = work[h][r].method} :
            work' = [work EXCEPT ![h][r] = i]
      <4>1. work[h][r] \in Item /\ work[h][r].stage = "found"
        BY <2>2 DEF Tier1, TypeOK
      <4>2. \A status \in {"candidate", "screened"}, tool \in BOOLEAN :
              [work[h][r] EXCEPT !.stage = "queued", !.status = status, !.tool = tool]
                \in {i \in Item : i.method = work[h][r].method}
        BY <4>1 DEF Item
      <4> QED BY <2>2, <4>2 DEF Tier1
    <3>2. work[h][r].stage # "none"
      BY <2>2 DEF Tier1
    <3> QED BY <3>1, <3>2 DEF NoItem, TypeOK
  <2> QED BY <1>2, <1>3, <2>1, <2>2 DEF Screen, StartRun, EndDiscovery, EndTier1
<1>4. ASSUME NEW h \in Hunts, Scan(h) PROVE Traced
  <2>1. ASSUME NEW r \in Repos, BeginScan(h, r) PROVE Traced
    BY <2>1 DEF BeginScan, Next2, TypeOK, Item
  <2> QED BY <1>1, <1>2, <1>4, <2>1
          DEF Scan, ResumeSkip, Gate, ScanDrops, ScanSpreads, ScanConfirms, EndTier2
<1>5. ASSUME NEW h \in Hunts, Deliver(h) PROVE Traced
  BY <1>2, <1>5 DEF Deliver, ReadGold, Claim, PostOk, PostFails, Release, FinishRun
<1>6. ASSUME NEW h \in Hunts, Crash(h) PROVE Traced
  BY <1>6 DEF Crash, NoWork, NoItem, TypeOK
<1>7. CASE UNCHANGED vars
  BY <1>7 DEF vars, local
<1> QED BY <1>3, <1>4, <1>5, <1>6, <1>7 DEF Next, Progress

-----------------------------------------------------------------------------
(***************************************************************************)
(* The owner pivot.  PivotHasSeed is not inductive: a candidate found      *)
(* through its owner waits in memory for its row, so it needs the seed as  *)
(* well.  A seed is never lost, since its row keeps its method.            *)
(***************************************************************************)
HasSeed(r) ==
  \E q \in Repos :
    /\ Owner[q] = Owner[r]
    /\ findings[q].method \notin {"none", "redteam_lineage", "malicious_owner"}

PivotInv ==
  /\ RowsHaveMethods
  /\ PivotHasSeed
  /\ \A h \in Hunts, r \in Repos :
       work[h][r].stage # "none" /\ work[h][r].method = "malicious_owner" => HasSeed(r)

LEMMA InitPivot == Init => PivotInv
BY DEF Init, PivotInv, RowsHaveMethods, PivotHasSeed, NoRow, NoWork, NoItem, Present

LEMMA StepPivot ==
  ASSUME TypeOK, TypeOK', PivotInv, [Next]_vars
  PROVE  PivotInv'
<1>1. RowsHaveMethods'
  BY StepMethods DEF PivotInv
<1>2. \A r \in Repos : HasSeed(r) => HasSeed(r)'
  BY StepMethods DEF PivotInv, HasSeed, RowsHaveMethods
<1>3. PivotHasSeed'
  <2> SUFFICES ASSUME NEW r \in Repos, findings'[r].method = "malicious_owner"
               PROVE  HasSeed(r)'
    BY DEF PivotHasSeed, HasSeed
  <2>1. HasSeed(r)
    BY StepMethods DEF PivotInv, PivotHasSeed, HasSeed
  <2> QED BY <1>2, <2>1
<1>4. ASSUME NEW h \in Hunts, NEW r \in Repos,
             work'[h][r].stage # "none", work'[h][r].method = "malicious_owner"
      PROVE  HasSeed(r)'
  <2>1. ASSUME Surfaces(h, r, "malicious_owner") PROVE HasSeed(r)
    <3>1. PICK q \in Repos : Owner[q] = Owner[r] /\ SeedsOwnerPivot(findings[q])
      BY <2>1 DEF Surfaces, MaliciousRepoOwners
    <3> QED BY <3>1 DEF SeedsOwnerPivot, Confirmed, Present, PivotInv, RowsHaveMethods, HasSeed
  <2>2. HasSeed(r)
    BY <1>4, <2>1, StepWork DEF PivotInv
  <2> QED BY <1>2, <2>2
<1> QED BY <1>1, <1>3, <1>4 DEF PivotInv

\* No repo is in the table, or under way, on the word of an owner whom only
\* the pivot itself ever accused: also when hunts overlap.
THEOREM PivotAlwaysHasSeed == Spec => []PivotHasSeed
<1>1. Init => PivotInv
  BY InitPivot
<1>2. PivotInv => PivotHasSeed
  BY DEF PivotInv
<1> QED BY <1>1, <1>2, StepPivot, TypeCorrect, StepType, PTL DEF Spec

-----------------------------------------------------------------------------
(***************************************************************************)
(* What reaches the feed.  A gold row was read as novel evidence; that its *)
(* method never changes makes it still so when it is posted, hours and     *)
(* overlapping hunts later.                                                *)
(***************************************************************************)
Novel(r) ==
  /\ r \notin OsmArtifacts
  /\ findings[r].method \in
       {"ioc_search", "package_ref", "package_source", "signature_match", "news_mention"}

FeedInv ==
  /\ RowsHaveMethods
  /\ \A h \in Hunts : \A r \in rows[h] \cup cluster[h] : Novel(r)
  /\ \A r \in Repos : shown[r] > 0 => Novel(r)

\* A step brings into hand only gold, and into the feed only what is in hand.
LEMMA StepFeed ==
  ASSUME TypeOK, [Next]_vars
  PROVE  /\ \A h \in Hunts : \A r \in rows'[h] \cup cluster'[h] :
              r \in rows[h] \cup cluster[h] \/ Gold(r, findings[r])
         /\ \A r \in Repos :
              shown'[r] > 0 => shown[r] > 0 \/ \E h \in Hunts : r \in cluster[h]
<1> DEFINE Fed ==
      /\ \A h \in Hunts : \A r \in rows'[h] \cup cluster'[h] :
           r \in rows[h] \cup cluster[h] \/ Gold(r, findings[r])
      /\ \A r \in Repos :
           shown'[r] > 0 => shown[r] > 0 \/ \E h \in Hunts : r \in cluster[h]
<1>1. ASSUME UNCHANGED <<rows, cluster, shown>> PROVE Fed
  BY <1>1
<1>2. ASSUME NEW h \in Hunts, shown' \in {shown, Bump(shown, cluster[h])}
      PROVE  \A r \in Repos :
               shown'[r] > 0 => shown[r] > 0 \/ r \in cluster[h]
  BY <1>2 DEF Bump, TypeOK
<1>3. ASSUME NEW h \in Hunts, Screen(h) \/ Scan(h) PROVE Fed
  BY <1>1, <1>3
  DEF Screen, StartRun, Discover, EndDiscovery, Tier1, EndTier1, Scan, ResumeSkip, Gate,
      BeginScan, ScanDrops, ScanSpreads, ScanConfirms, EndTier2, feed
<1>4. ASSUME NEW h \in Hunts, Deliver(h) PROVE Fed
  <2>1. CASE ReadGold(h)
    BY <2>1 DEF ReadGold, UndeliveredGold, feed, TypeOK
  <2>2. ASSUME NEW c \in SUBSET Repos, Claim(h, c) PROVE Fed
    BY <2>2 DEF Claim, Clusters, feed, TypeOK
  <2>3. CASE PostOk(h)
    BY <1>2, <2>3 DEF PostOk, TypeOK
  <2>4. CASE PostFails(h)
    BY <1>2, <2>4 DEF PostFails
  <2>5. CASE Release(h)
    BY <2>5 DEF Release, feed, TypeOK
  <2>6. CASE FinishRun(h)
    BY <1>1, <2>6 DEF FinishRun, feed
  <2> QED BY <1>4, <2>1, <2>2, <2>3, <2>4, <2>5, <2>6 DEF Deliver
<1>5. ASSUME NEW h \in Hunts, Crash(h) PROVE Fed
  <2>1. shown' \in {shown, Bump(shown, cluster[h])}
    BY <1>5 DEF Crash
  <2> QED BY <1>2, <1>5, <2>1 DEF Crash, TypeOK
<1>6. CASE UNCHANGED vars
  BY <1>1, <1>6 DEF vars, local, feed
<1> QED BY <1>3, <1>4, <1>5, <1>6 DEF Next, Progress

LEMMA InitFeed == Init => FeedInv
BY DEF Init, FeedInv, RowsHaveMethods, NoRow, Present

LEMMA StepFeedInv ==
  ASSUME TypeOK, TypeOK', FeedInv, [Next]_vars
  PROVE  FeedInv'
<1>1. \A r \in Repos : Novel(r) => Novel(r)'
  BY StepMethods DEF FeedInv, Novel, RowsHaveMethods
<1>2. \A r \in Repos : Gold(r, findings[r]) => Novel(r)
  <2> TAKE r \in Repos
  <2>1. findings[r].method \in Methods \cup {"none"}
    BY DEF TypeOK, Row
  <2> QED BY <2>1 DEF Gold, Novel, FeedInv, RowsHaveMethods, Present, Methods
<1>3. \A h \in Hunts : \A r \in rows'[h] \cup cluster'[h] : Novel(r)'
  BY <1>1, <1>2, StepFeed DEF FeedInv, TypeOK
<1>4. \A r \in Repos : shown'[r] > 0 => Novel(r)'
  BY <1>1, StepFeed DEF FeedInv
<1> QED BY <1>3, <1>4, StepMethods DEF FeedInv

\* The feed shows no repo that OSM reports or that came in by association,
\* lineage or OSM itself, whichever hunts overlap and whatever crashes.
THEOREM AlwaysOnlyNovelShown == Spec => []OnlyNovelEvidenceShown
<1>1. Init => FeedInv
  BY InitFeed
<1>2. FeedInv => OnlyNovelEvidenceShown
  BY DEF FeedInv, OnlyNovelEvidenceShown, Novel
<1> QED BY <1>1, <1>2, StepFeedInv, TypeCorrect, StepType, PTL DEF Spec

-----------------------------------------------------------------------------
(***************************************************************************)
(* The gates before a confirmation, for hunts that run one at a time.      *)
(* GatedNeverConfirmed and ConfirmationKept rest on what the candidates in *)
(* a hunt's memory say of the table: they are not inductive without        *)
(*   - the stages that exist at each point of the run (InStep), so that no *)
(*     candidate of an earlier phase, of a dead run, or of a run without   *)
(*     --scan is left over;                                                *)
(*   - the snapshot of the known repos, which stands while it is used, so  *)
(*     that what discovery surfaces has no row yet;                        *)
(*   - that a queued candidate has the row it was screened into, not yet   *)
(*     confirmed, and one being scanned passed the gates (OwnRow).         *)
(***************************************************************************)
StagesAt(there) ==
  CASE there = "discover" -> {"none", "found"}
    [] there = "tier1"    -> {"none", "found", "queued"}
    [] there = "tier2"    -> {"none", "queued", "scanning"}
    [] OTHER              -> {"none"}

InStep(h) ==
  /\ \A r \in Repos : work[h][r].stage \in StagesAt(pc[h])
  /\ ~opts[h].scan => \A r \in Repos : work[h][r].stage \in {"none", "found"}
  /\ pc[h] = "discover" => \A r \in Repos : Present(findings[r]) => r \in known[h]

OwnRow(h, r) ==
  /\ work[h][r].stage = "found" => ~Present(findings[r])
  /\ work[h][r].stage \in {"queued", "scanning"} =>
       /\ Present(findings[r]) /\ findings[r].status # "confirmed"
       /\ findings[r].method = work[h][r].method
  /\ work[h][r].stage = "scanning" => Scannable(r, work[h][r])

InHand(h) == InStep(h) /\ \A r \in Repos : OwnRow(h, r)

GateInv == \A h \in Hunts : InHand(h)

LEMMA InitGates == Init => GateInv
BY DEF Init, GateInv, InHand, InStep, OwnRow, StagesAt, NoWork, NoItem

\* A step of one hunt leaves the memory of the others alone.
LEMMA OwnMemory ==
  ASSUME TypeOK, NEW h \in Hunts, Progress(h) \/ Crash(h), NEW g \in Hunts, g # h
  PROVE  pc'[g] = pc[g] /\ work'[g] = work[g]
<1>1. CASE Screen(h)
  BY <1>1 DEF Screen, StartRun, Discover, EndDiscovery, Tier1, EndTier1, GoTo, TypeOK
<1>2. CASE Scan(h)
  BY <1>2 DEF Scan, ResumeSkip, Gate, BeginScan, ScanDrops, ScanSpreads, ScanConfirms,
              EndTier2, Forget, GoTo, TypeOK
<1>3. CASE Deliver(h)
  BY <1>3 DEF Deliver, ReadGold, Claim, PostOk, PostFails, Release, FinishRun, GoTo, TypeOK
<1>4. CASE Crash(h)
  BY <1>4 DEF Crash, GoTo, TypeOK
<1> QED BY <1>1, <1>2, <1>3, <1>4 DEF Progress

\* Of two hunts only one is alive, so the other has no candidate in hand.
LEMMA OthersAtRest ==
  ASSUME Serial, TypeOK, OneActive, GateInv, NEW h \in Hunts, Progress(h) \/ Crash(h),
         NEW g \in Hunts, g # h
  PROVE  InHand(g)'
<1>1. Active(h) \/ StartRun(h)
  BY DEF Progress, Screen, Scan, Deliver, Crash, Active, Running, Discover, EndDiscovery,
         Tier1, EndTier1, ResumeSkip, Gate, BeginScan, ScanDrops, ScanSpreads,
         ScanConfirms, EndTier2, ReadGold, Claim, PostOk, PostFails, Release, FinishRun,
         Next2, Scanning
<1>2. ~Active(g)
  BY <1>1 DEF StartRun, OneActive
<1>3. \A r \in Repos : work[g][r].stage = "none"
  BY <1>2 DEF GateInv, InHand, InStep, StagesAt, Active, Running
<1>4. pc'[g] = pc[g] /\ work'[g] = work[g]
  BY OwnMemory
<1> QED BY <1>2, <1>3, <1>4 DEF InHand, InStep, OwnRow, StagesAt, Active, Running

\* A hunt saves, and forgets or queues, one candidate: the rest stays as it is.
LEMMA OneCandidate ==
  ASSUME TypeOK, TypeOK', NEW h \in Hunts, InHand(h), NEW r \in Repos,
         \A q \in Repos \ {r} : findings'[q] = findings[q] /\ work'[h][q] = work[h][q],
         pc'[h] = pc[h], opts'[h] = opts[h], known'[h] = known[h],
         work'[h][r].stage \in StagesAt(pc[h]),
         ~opts[h].scan => work'[h][r].stage \in {"none", "found"},
         pc[h] = "discover" => UNCHANGED findings,
         OwnRow(h, r)'
  PROVE  InHand(h)'
<1>1. \A q \in Repos \ {r} : OwnRow(h, q)'
  BY DEF InHand, OwnRow
<1>2. InStep(h)'
  BY DEF InHand, InStep
<1> QED BY <1>1, <1>2 DEF InHand

LEMMA ScreenGates ==
  ASSUME Serial, TypeOK, TypeOK', NEW h \in Hunts, InHand(h), Screen(h)
  PROVE  InHand(h)'
<1>1. CASE StartRun(h)
  <2>1. \A r \in Repos : work'[h][r].stage = "none"
    BY <1>1 DEF StartRun, InHand, InStep, StagesAt
  <2>2. pc'[h] = "discover" /\ UNCHANGED findings
        /\ \A r \in Repos : Present(findings[r]) => r \in known'[h]
    BY <1>1 DEF StartRun, GoTo, KnownRepoNames, TypeOK
  <2> QED BY <2>1, <2>2 DEF InHand, InStep, OwnRow, StagesAt
<1>2. ASSUME NEW r \in Repos, NEW m \in Methods, Discover(h, r, m) PROVE InHand(h)'
  <2>1. ~Present(findings[r])
    BY <1>2 DEF Discover, Surfaces, OsmRepoTargets, InHand, InStep
  <2>2. work' = [work EXCEPT ![h][r] = [NoItem EXCEPT !.stage = "found", !.method = m]]
    BY <1>2 DEF Discover
  <2>3. work'[h][r].stage = "found" /\ \A q \in Repos \ {r} : work'[h][q] = work[h][q]
    BY <2>2 DEF NoItem, TypeOK
  <2>4. pc[h] = "discover" /\ UNCHANGED <<findings, pc, opts, known>>
    BY <1>2 DEF Discover
  <2>5. OwnRow(h, r)'
    BY <2>1, <2>3, <2>4 DEF OwnRow
  <2> QED BY <2>3, <2>4, <2>5, OneCandidate DEF StagesAt
<1>3. CASE EndDiscovery(h)
  <2>1. pc[h] = "discover" /\ pc'[h] = "tier1" /\ UNCHANGED <<findings, opts, known, work>>
    BY <1>3 DEF EndDiscovery, GoTo, TypeOK
  <2> QED BY <2>1 DEF InHand, InStep, OwnRow, StagesAt
<1>4. ASSUME NEW r \in Repos, Tier1(h, r) PROVE InHand(h)'
  <2> DEFINE item == work[h][r]
  <2>1. item \in Item /\ item.stage = "found" /\ item.method \in Methods
    BY <1>4, ItemFinding DEF Tier1, TypeOK, Statuses
  <2>2. PICK status \in {"candidate", "screened"} :
          /\ Save(r, Unscanned(status, item.method))
          /\ \/ opts[h].scan /\ \E tool \in BOOLEAN :
                 work' = [work EXCEPT ![h][r] = [item EXCEPT !.stage = "queued",
                                                            !.status = status, !.tool = tool]]
             \/ work' = [work EXCEPT ![h][r] = NoItem]
    BY <1>4 DEF Tier1
  <2>3. findings'[r].status = status /\ findings'[r].method = item.method
    <3>1. ~Present(findings[r])
      BY <2>1 DEF InHand, OwnRow
    <3> QED BY <2>2, <3>1 DEF Save, Upsert, Inserted, Unscanned, NoRow, TypeOK
  <2>4. pc[h] = "tier1" /\ UNCHANGED <<pc, opts, known>>
    BY <1>4 DEF Tier1
  <2>5. PICK i \in Item :
          /\ work' = [work EXCEPT ![h][r] = i]
          /\ i.stage = "none" \/ (i.stage = "queued" /\ opts[h].scan
                                  /\ i.method = item.method)
    <3>1. ASSUME NEW tool \in BOOLEAN
          PROVE  LET i == [item EXCEPT !.stage = "queued", !.status = status, !.tool = tool]
                 IN  i \in Item /\ i.stage = "queued" /\ i.method = item.method
      BY <2>1 DEF Item
    <3>2. NoItem \in Item /\ NoItem.stage = "none"
      BY DEF NoItem, Item
    <3>3. CASE work' = [work EXCEPT ![h][r] = NoItem]
      BY <3>2, <3>3
    <3>4. ASSUME NEW tool \in BOOLEAN, opts[h].scan,
                 work' = [work EXCEPT ![h][r] = [item EXCEPT !.stage = "queued",
                                                            !.status = status, !.tool = tool]]
          PROVE  \E i \in Item :
                   /\ work' = [work EXCEPT ![h][r] = i]
                   /\ i.stage = "queued" /\ i.method = item.method
      BY <3>1, <3>4
    <3> QED BY <2>2, <3>3, <3>4, <3>2
  <2>6. work'[h][r] = i
    BY <2>5 DEF TypeOK
  <2>7. \A q \in Repos \ {r} : findings'[q] = findings[q] /\ work'[h][q] = work[h][q]
    BY <2>2, <2>5 DEF Save, TypeOK
  <2>8. OwnRow(h, r)'
    BY <2>3, <2>5, <2>6 DEF OwnRow, Present
  <2> HIDE DEF item
  <2> QED BY <2>4, <2>5, <2>6, <2>7, <2>8, OneCandidate DEF StagesAt
<1>5. CASE EndTier1(h)
  <2>1. /\ pc[h] = "tier1" /\ \A r \in Repos : work[h][r].stage # "found"
        /\ pc'[h] = IF opts[h].scan THEN "tier2" ELSE AfterTier2(h)
        /\ UNCHANGED <<findings, opts, known, work>>
    BY <1>5 DEF EndTier1, GoTo, TypeOK
  <2>2. \A r \in Repos : work[h][r].stage \in StagesAt(pc'[h])
    BY <2>1 DEF InHand, InStep, StagesAt, AfterTier2
  <2>3. pc'[h] # "discover"
    BY <2>1 DEF AfterTier2
  <2> QED BY <2>1, <2>2, <2>3 DEF InHand, InStep, OwnRow
<1> QED BY <1>1, <1>2, <1>3, <1>4, <1>5 DEF Screen

LEMMA ScanGates ==
  ASSUME TypeOK, TypeOK', NEW h \in Hunts, InHand(h), Scan(h)
  PROVE  InHand(h)'
<1>1. ASSUME NEW r \in Repos, Forget(h, r), pc[h] = "tier2",
             UNCHANGED <<pc, opts, known>>,
             UNCHANGED findings \/ \E f \in Finding : Save(r, f)
      PROVE  InHand(h)'
  <2>1. work'[h][r].stage = "none" /\ \A q \in Repos \ {r} : work'[h][q] = work[h][q]
    BY <1>1 DEF Forget, NoItem, TypeOK
  <2>2. \A q \in Repos \ {r} : findings'[q] = findings[q]
    BY <1>1 DEF Save, TypeOK
  <2>3. OwnRow(h, r)'
    BY <2>1 DEF OwnRow
  <2> QED BY <1>1, <2>1, <2>2, <2>3, OneCandidate DEF StagesAt
<1>2. ASSUME NEW r \in Repos, ResumeSkip(h, r) PROVE InHand(h)'
  BY <1>1, <1>2 DEF ResumeSkip, Next2
<1>3. ASSUME NEW r \in Repos, Gate(h, r) PROVE InHand(h)'
  <2>1. PICK status \in GateVerdicts(r, work[h][r]) :
          Save(r, Unscanned(status, work[h][r].method))
    BY <1>3 DEF Gate
  <2>2. Unscanned(status, work[h][r].method) \in Finding
    BY <1>3, ItemFinding DEF Gate, Next2, GateVerdicts, Statuses
  <2> QED BY <1>1, <1>3, <2>1, <2>2 DEF Gate, Next2
<1>4. ASSUME NEW r \in Repos, BeginScan(h, r) PROVE InHand(h)'
  <2>1. /\ pc[h] = "tier2" /\ work[h][r].stage = "queued" /\ Scannable(r, work[h][r])
        /\ work' = [work EXCEPT ![h][r] = [work[h][r] EXCEPT !.stage = "scanning"]]
        /\ UNCHANGED <<findings, pc, opts, known>>
    BY <1>4 DEF BeginScan, Next2
  <2>2. /\ work'[h][r] = [work[h][r] EXCEPT !.stage = "scanning"]
        /\ \A q \in Repos \ {r} : work'[h][q] = work[h][q]
    BY <2>1 DEF TypeOK
  <2>3. /\ work'[h][r].stage = "scanning" /\ work'[h][r].method = work[h][r].method
        /\ work'[h][r].tool = work[h][r].tool
    BY <2>2 DEF TypeOK, Item
  <2>4. OwnRow(h, r)'
    BY <2>1, <2>3 DEF InHand, OwnRow, Scannable
  <2>5. opts[h].scan
    BY <2>1 DEF InHand, InStep
  <2> QED BY <2>1, <2>2, <2>3, <2>4, <2>5, OneCandidate DEF StagesAt
<1>5. ASSUME NEW r \in Repos, ScanDrops(h, r) PROVE InHand(h)'
  BY <1>1, <1>5 DEF ScanDrops, Scanning
<1>6. ASSUME NEW r \in Repos, ScanSpreads(h, r) PROVE InHand(h)'
  <2>1. Unscanned(work[h][r].status, work[h][r].method) \in Finding
    <3>1. work[h][r].status \in Statuses
      BY DEF TypeOK, Item, Statuses
    <3> QED BY <1>6, <3>1, ItemFinding DEF ScanSpreads, Scanning
  <2> QED BY <1>1, <1>6, <2>1 DEF ScanSpreads, Scanning
<1>7. ASSUME NEW r \in Repos, ScanConfirms(h, r) PROVE InHand(h)'
  <2> DEFINE m == work[h][r].method
  <2>1. \A v \in Verdicts :
          /\ Unscanned("screened", m) \in Finding
          /\ ScanConfirmed(m, v.tier, v.evidence) \in Finding
    BY <1>7, ItemFinding, ScanConfirmedType DEF ScanConfirms, Scanning, Statuses
  <2>2. \E f \in Finding : Save(r, f)
    BY <1>7, <2>1 DEF ScanConfirms
  <2> QED BY <1>1, <1>7, <2>2 DEF ScanConfirms, Scanning
<1>8. CASE EndTier2(h)
  <2>1. /\ \A r \in Repos : work[h][r].stage = "none"
        /\ pc'[h] \in {"gold", "deliver"} /\ UNCHANGED work
    BY <1>8 DEF EndTier2, AfterTier2, GoTo, TypeOK
  <2> QED BY <2>1 DEF InHand, InStep, OwnRow, StagesAt
<1> QED BY <1>2, <1>3, <1>4, <1>5, <1>6, <1>7, <1>8 DEF Scan

LEMMA StepGates ==
  ASSUME Serial, TypeOK, TypeOK', OneActive, GateInv, [Next]_vars
  PROVE  GateInv'
<1>1. ASSUME NEW h \in Hunts, Progress(h) PROVE InHand(h)'
  <2>1. CASE Deliver(h)
    <3>1. \A r \in Repos : work[h][r].stage = "none"
      BY <2>1 DEF Deliver, ReadGold, Claim, PostOk, PostFails, Release, FinishRun,
                  GateInv, InHand, InStep, StagesAt
    <3>2. UNCHANGED work /\ pc'[h] \in {"deliver", "posting", "release", "completed"}
      BY <2>1 DEF Deliver, ReadGold, Claim, PostOk, PostFails, Release, FinishRun,
                  GoTo, TypeOK
    <3> QED BY <3>1, <3>2 DEF InHand, InStep, OwnRow, StagesAt
  <2> QED BY <1>1, <2>1, ScreenGates, ScanGates DEF Progress, GateInv
<1>2. ASSUME NEW h \in Hunts, Crash(h) PROVE InHand(h)'
  <2>1. pc'[h] = "crashed" /\ \A r \in Repos : work'[h][r].stage = "none"
    BY <1>2 DEF Crash, GoTo, NoWork, NoItem, TypeOK
  <2> QED BY <2>1 DEF InHand, InStep, OwnRow, StagesAt
<1>3. CASE UNCHANGED vars
  BY <1>3 DEF vars, local, GateInv, InHand, InStep, OwnRow
<1> QED BY <1>1, <1>2, <1>3, OthersAtRest DEF Next, GateInv

\* What is saved of a candidate: never over a confirmed row, and confirmed
\* only past the gates, by the method of the row.
LEMMA SavesPastGates ==
  ASSUME TypeOK, GateInv, NEW h \in Hunts, NEW r \in Repos, NEW f \in Savable(h, r),
         work[h][r].stage # "none"
  PROVE  /\ findings[r].status # "confirmed"
         /\ Upsert(findings[r], f).status = "confirmed" =>
              /\ r \notin KnownGood
              /\ IF Upsert(findings[r], f).method = "redteam_lineage"
                 THEN Upsert(findings[r], f).tier = "auto"
                 ELSE r \notin ToolNamed
<1>1. work[h][r].stage \in {"found", "queued", "scanning"} /\ findings[r] \in Row
  BY DEF TypeOK, Item
<1>2. findings[r].status # "confirmed"
  BY <1>1 DEF GateInv, InHand, OwnRow, Present
<1>3. ASSUME Upsert(findings[r], f).status = "confirmed"
      PROVE  /\ r \notin KnownGood
             /\ IF Upsert(findings[r], f).method = "redteam_lineage"
                THEN Upsert(findings[r], f).tier = "auto"
                ELSE r \notin ToolNamed
  <2>1. f \in Finding /\ f.status = "confirmed"
    BY <1>1, <1>2, <1>3 DEF Savable, Upsert, Inserted, NoRow, Present, Row, Finding
  <2>2. work[h][r].stage = "scanning" /\ f.method = work[h][r].method
        /\ (f.method = "redteam_lineage" => f.tier = "auto")
    BY <2>1 DEF Savable
  <2>3. Present(findings[r]) /\ findings[r].method = f.method /\ Scannable(r, work[h][r])
    BY <2>2 DEF GateInv, InHand, OwnRow, Present
  <2>4. Upsert(findings[r], f).method = f.method /\ Upsert(findings[r], f).tier = f.tier
    BY <1>1, <2>1, <2>3 DEF Upsert, Row
  <2> QED BY <2>2, <2>3, <2>4 DEF Scannable
<1> QED BY <1>2, <1>3

LEMMA StepGated ==
  ASSUME TypeOK, GateInv, GatedNeverConfirmed, [Next]_vars
  PROVE  GatedNeverConfirmed'
<1>1. CASE UNCHANGED findings
  BY <1>1 DEF GatedNeverConfirmed
<1>2. ASSUME NEW h \in Hunts, Saves(h) PROVE GatedNeverConfirmed'
  <2>1. PICK r \in Repos, f \in Finding :
          work[h][r].stage # "none" /\ f \in Savable(h, r) /\ Save(r, f)
    BY <1>2 DEF Saves, Savable
  <2>2. \A q \in Repos : findings'[q] = IF q = r THEN Upsert(findings[r], f) ELSE findings[q]
    BY <2>1 DEF Save, TypeOK
  <2> QED BY <2>1, <2>2, SavesPastGates DEF GatedNeverConfirmed
<1>3. CASE Flags
  BY <1>3 DEF Flags, WithGold, GatedNeverConfirmed, TypeOK, Row
<1> QED BY <1>1, <1>2, <1>3, TableStep

\* The gates of Tier-2 hold of every row a serial hunt ever confirmed.
THEOREM GatesAlwaysHold ==
  ASSUME Serial
  PROVE  Spec => []GatedNeverConfirmed
<1>1. Init => GatedNeverConfirmed
  BY DEF Init, GatedNeverConfirmed, NoRow
<1>2. ClaimInv => OneActive
  BY DEF ClaimInv
<1> QED BY <1>1, <1>2, InitGates, StepGates, StepGated, InitClaims, StepClaims,
           TypeCorrect, StepType, PTL DEF Spec

\* And no step of a serial hunt takes a confirmation, its tier, its evidence
\* or its code hash back.
THEOREM ConfirmationAlwaysKept ==
  ASSUME Serial
  PROVE  Spec => ConfirmationKept
<1> DEFINE Kept ==
      \A r \in Repos :
        findings[r].status = "confirmed" =>
          /\ findings'[r].status = "confirmed"
          /\ findings'[r].tier = findings[r].tier
          /\ findings'[r].evidence = findings[r].evidence
          /\ findings'[r].hash
<1>1. ASSUME TypeOK, GateInv, ConfirmedIsTiered, [Next]_vars PROVE Kept
  <2>1. CASE UNCHANGED findings
    BY <1>1, <2>1 DEF ConfirmedIsTiered
  <2>2. ASSUME NEW h \in Hunts, Saves(h) PROVE Kept
    <3>1. PICK r \in Repos, f \in Finding :
            work[h][r].stage # "none" /\ f \in Savable(h, r) /\ Save(r, f)
      BY <2>2 DEF Saves, Savable
    <3>2. findings[r].status # "confirmed"
      BY <1>1, <3>1, SavesPastGates
    <3>3. \A q \in Repos \ {r} : findings'[q] = findings[q]
      BY <1>1, <3>1 DEF Save, TypeOK
    <3> QED BY <1>1, <3>2, <3>3 DEF ConfirmedIsTiered
  <2>3. CASE Flags
    BY <1>1, <2>3 DEF Flags, WithGold, ConfirmedIsTiered, TypeOK, Row
  <2> QED BY <1>1, <2>1, <2>2, <2>3, TableStep
<1>2. ClaimInv => OneActive
  BY DEF ClaimInv
<1> QED BY <1>1, <1>2, InitGates, StepGates, InitClaims, StepClaims, ConfirmedAlwaysTiered,
           TypeCorrect, StepType, PTL DEF Spec, ConfirmationKept

=============================================================================
