--------------------------- MODULE RegistryProofs ---------------------------
(***************************************************************************)
(* Proofs about the programs side by side on one database, for any repos,  *)
(* hunts, hosts and verdicts.  Each program's own invariant is taken from  *)
(* the module that proves it for that program alone; what is proved here   *)
(* is that the others' writes to the shared rows leave it standing.        *)
(***************************************************************************)
EXTENDS Registry, TLAPS

HuntP   == INSTANCE HuntProofs
ReviewP == INSTANCE ReviewProofs
SubmitP == INSTANCE SubmitProofs

-----------------------------------------------------------------------------
(***************************************************************************)
(* Registry composes instances of Hunt, Review and Submit; the lemmas come *)
(* with instances of the modules that prove about them.  Both instances of *)
(* a module are under the same substitution, so they say the same once     *)
(* every definition is expanded.                                           *)
(***************************************************************************)
LEMMA HuntSame ==
  /\ Hunting!Init => HuntP!Init
  /\ Hunting!Next => HuntP!Next
<1>1. Hunting!Init => HuntP!Init
  BY
  DEF Hunting!Init, Hunting!NoItem, Hunting!NoWork, Hunting!NoOptions,
      Hunting!NoRow, HuntP!Init, HuntP!NoItem, HuntP!NoWork, HuntP!NoOptions,
      HuntP!NoRow
<1>2. Hunting!Next => HuntP!Next
  BY
  DEF Hunting!Methods, Hunting!StartRun, Hunting!Active, Hunting!Running,
      Hunting!GoTo, Hunting!Discover, Hunting!Surfaces, Hunting!EndDiscovery,
      Hunting!Tier1, Hunting!Advances, Hunting!IntelMethods, Hunting!Save,
      Hunting!EndTier1, Hunting!AfterTier2, Hunting!Next2, Hunting!Forget,
      Hunting!ResumeSkip, Hunting!HasHash, Hunting!GateVerdicts,
      Hunting!Scannable, Hunting!Gate, Hunting!BeginScan, Hunting!Scanning,
      Hunting!ScanDrops, Hunting!ScanSpreads, Hunting!ScanConfirms,
      Hunting!EndTier2, Hunting!ReadGold, Hunting!Related, Hunting!Closed,
      Hunting!Clusters, Hunting!Claim, Hunting!Bump, Hunting!PostOk,
      Hunting!PostFails, Hunting!Release, Hunting!FinishRun, Hunting!Crash,
      Hunting!Screen, Hunting!Scan, Hunting!Deliver, Hunting!Progress,
      Hunting!Next, Hunting!NoItem, Hunting!NoWork, Hunting!feed,
      Hunting!Upsert, Hunting!Unscanned, Hunting!ScanConfirmed,
      Hunting!Inserted, Hunting!NoRow, Hunting!Present, Hunting!Confirmed,
      Hunting!KnownRepoNames, Hunting!OsmRepoTargets, Hunting!SeedsOwnerPivot,
      Hunting!MaliciousRepoOwners, Hunting!Gold, Hunting!UndeliveredGold,
      Hunting!WithGold, HuntP!Methods, HuntP!StartRun, HuntP!Active,
      HuntP!Running, HuntP!GoTo, HuntP!Discover, HuntP!Surfaces,
      HuntP!EndDiscovery, HuntP!Tier1, HuntP!Advances, HuntP!IntelMethods,
      HuntP!Save, HuntP!EndTier1, HuntP!AfterTier2, HuntP!Next2, HuntP!Forget,
      HuntP!ResumeSkip, HuntP!HasHash, HuntP!GateVerdicts, HuntP!Scannable,
      HuntP!Gate, HuntP!BeginScan, HuntP!Scanning, HuntP!ScanDrops,
      HuntP!ScanSpreads, HuntP!ScanConfirms, HuntP!EndTier2, HuntP!ReadGold,
      HuntP!Related, HuntP!Closed, HuntP!Clusters, HuntP!Claim, HuntP!Bump,
      HuntP!PostOk, HuntP!PostFails, HuntP!Release, HuntP!FinishRun,
      HuntP!Crash, HuntP!Screen, HuntP!Scan, HuntP!Deliver, HuntP!Progress,
      HuntP!Next, HuntP!NoItem, HuntP!NoWork, HuntP!feed, HuntP!Upsert,
      HuntP!Unscanned, HuntP!ScanConfirmed, HuntP!Inserted, HuntP!NoRow,
      HuntP!Present, HuntP!Confirmed, HuntP!KnownRepoNames,
      HuntP!OsmRepoTargets, HuntP!SeedsOwnerPivot, HuntP!MaliciousRepoOwners,
      HuntP!Gold, HuntP!UndeliveredGold, HuntP!WithGold
<1> QED BY <1>1, <1>2

LEMMA ReviewSame ==
  /\ Revising!Init => ReviewP!Init
  /\ Revising!Next => ReviewP!Next
  /\ \A r \in Repos : ReviewP!Approve(r) => Revising!Approve(r)
<1>1. Revising!Init => ReviewP!Init
  BY
  DEF Revising!Init, Revising!Quiet, Revising!NoPayload, ReviewP!Init,
      ReviewP!Quiet, ReviewP!NoPayload
<1>2. Revising!Next => ReviewP!Next
  BY
  DEF Revising!Next, Revising!Approve, Revising!Reject,
      Revising!SetFindingStatus, Revising!Reconcile, Revising!ReadRegistry,
      Revising!RejectUnproven, Revising!Revalidate, Revising!BeginRevalidation,
      Revising!Rescan, Revising!Demote, Revising!Retier, Revising!Keep,
      Revising!Rescanned, Revising!Revised, Revising!EndRevalidation,
      Revising!CommitRevalidation, Revising!RevalidationDies,
      Revising!NoPayload, Revising!revalidation, Revising!reviewVars,
      Revising!WithStatus, Revising!Present, Revising!Unproven,
      Revising!Confirmed, Revising!Revalidatable, ReviewP!Next,
      ReviewP!Approve, ReviewP!Reject, ReviewP!SetFindingStatus,
      ReviewP!Reconcile, ReviewP!ReadRegistry, ReviewP!RejectUnproven,
      ReviewP!Revalidate, ReviewP!BeginRevalidation, ReviewP!Rescan,
      ReviewP!Demote, ReviewP!Retier, ReviewP!Keep, ReviewP!Rescanned,
      ReviewP!Revised, ReviewP!EndRevalidation, ReviewP!CommitRevalidation,
      ReviewP!RevalidationDies, ReviewP!NoPayload, ReviewP!revalidation,
      ReviewP!reviewVars, ReviewP!WithStatus, ReviewP!Present,
      ReviewP!Unproven, ReviewP!Confirmed, ReviewP!Revalidatable
<1>3. \A r \in Repos : ReviewP!Approve(r) => Revising!Approve(r)
  BY
  DEF Revising!Approve, Revising!SetFindingStatus, Revising!Present,
      Revising!WithStatus, Revising!reviewVars, Revising!revalidation,
      ReviewP!Approve, ReviewP!SetFindingStatus, ReviewP!Present,
      ReviewP!WithStatus, ReviewP!reviewVars, ReviewP!revalidation
<1> QED BY <1>1, <1>2, <1>3

LEMMA SubmitSame ==
  /\ Sending!Init => SubmitP!Init
  /\ Sending!Next => SubmitP!Next
<1>1. Sending!Init => SubmitP!Init
  BY
  DEF Sending!Init, Sending!Resources, SubmitP!Init, SubmitP!Resources
<1>2. Sending!Next => SubmitP!Next
  BY
  DEF Sending!Resources, Sending!Cardinality, Sending!Next, Sending!Submitting,
      Sending!Gates, Sending!Loop, Sending!Post, Sending!StartSubmit,
      Sending!SearchGate, Sending!SearchHits, Sending!Skip, Sending!Claimed,
      Sending!ClaimRepo, Sending!EndRepos, Sending!ClaimHost,
      Sending!EndSubmit, Sending!Bump, Sending!Filed, Sending!Accepted,
      Sending!Fails, Sending!RateLimited, Sending!Back, Sending!Settled,
      Sending!WithClaim, Sending!Record, Sending!RecordRefused,
      Sending!Release, Sending!Dies, Sending!OthersReport, Sending!LongWrite,
      Sending!Carriers, Sending!Seen, Sending!Corroborators, Sending!CutOff,
      Sending!CorroboratedC2, Sending!submitter, Sending!record,
      Sending!submitVars, Sending!WithSubmitted, Sending!GoldForSubmission,
      Sending!Submittable, Sending!Confirmed, Sending!Present,
      SubmitP!Resources, SubmitP!Cardinality, SubmitP!Next, SubmitP!Submitting,
      SubmitP!Gates, SubmitP!Loop, SubmitP!Post, SubmitP!StartSubmit,
      SubmitP!SearchGate, SubmitP!SearchHits, SubmitP!Skip, SubmitP!Claimed,
      SubmitP!ClaimRepo, SubmitP!EndRepos, SubmitP!ClaimHost,
      SubmitP!EndSubmit, SubmitP!Bump, SubmitP!Filed, SubmitP!Accepted,
      SubmitP!Fails, SubmitP!RateLimited, SubmitP!Back, SubmitP!Settled,
      SubmitP!WithClaim, SubmitP!Record, SubmitP!RecordRefused,
      SubmitP!Release, SubmitP!Dies, SubmitP!OthersReport, SubmitP!LongWrite,
      SubmitP!Carriers, SubmitP!Seen, SubmitP!Corroborators, SubmitP!CutOff,
      SubmitP!CorroboratedC2, SubmitP!submitter, SubmitP!record,
      SubmitP!submitVars, SubmitP!WithSubmitted, SubmitP!GoldForSubmission,
      SubmitP!Submittable, SubmitP!Confirmed, SubmitP!Present
<1> QED BY <1>1, <1>2

-----------------------------------------------------------------------------
(***************************************************************************)
(* A step of the system is a step of one program; the private state of the *)
(* other two stays as it is.                                               *)
(***************************************************************************)
HuntMoves   == [HuntP!Next]_HuntP!vars /\ UNCHANGED <<reviewVars, submitVars>>
ReviewMoves == [ReviewP!Next]_ReviewP!vars /\ UNCHANGED <<huntVars, submitVars>>
SubmitMoves == [SubmitP!Next]_SubmitP!vars /\ UNCHANGED <<huntVars, reviewVars>>

LEMMA Moves == [Next]_vars => HuntMoves \/ ReviewMoves \/ SubmitMoves
<1>1. UNCHANGED vars => HuntMoves
  BY DEF vars, huntVars, HuntMoves, HuntP!vars, HuntP!local, HuntP!feed
<1> QED
  BY <1>1, HuntSame, ReviewSame, SubmitSame
  DEF Next, HuntStep, ReviewStep, SubmitStep, HuntMoves, ReviewMoves, SubmitMoves

(***************************************************************************)
(* What the constants are assumed to be is what each program assumes.      *)
(***************************************************************************)
LEMMA HuntFits == HuntP!HuntAssumption
BY RegistryAssumption DEF Methods, HuntP!Methods, Evidence, HuntP!Evidence

LEMMA ReviewFits == ReviewP!SeedAssumption
BY DEF Seeds, NoRow, ReviewP!Row, ReviewP!Statuses, ReviewP!Methods, ReviewP!Tiers,
       ReviewP!Evidence

LEMMA SubmitFits == SubmitP!SubmitAssumption
BY RegistryAssumption
DEF Seeds, NoRow, SubmitP!Resources, SubmitP!Row, SubmitP!Statuses, SubmitP!Methods,
    SubmitP!Tiers, SubmitP!Evidence

-----------------------------------------------------------------------------
(***************************************************************************)
(* Whether or not hunts overlap: the types, the claims of the submitters,  *)
(* and where the rows of the owner pivot and of the feed come from, which  *)
(* no verdict and no report changes.                                       *)
(***************************************************************************)
RegistryInv ==
  /\ HuntP!TypeOK
  /\ HuntP!PivotInv
  /\ HuntP!FeedInv
  /\ ReviewP!TypeOK
  /\ SubmitP!SubmitInv

LEMMA HuntTypeStays ==
  ASSUME HuntP!TypeOK, UNCHANGED huntVars,
         findings' \in [Repos -> Row], writeLock' \in BOOLEAN
  PROVE  HuntP!TypeOK'
BY DEF HuntP!TypeOK, huntVars, HuntP!Row, Row, HuntP!Statuses, Statuses, HuntP!Methods,
       Methods, HuntP!Tiers, Tiers, HuntP!Evidence, Evidence

LEMMA ReviewTypeStays ==
  ASSUME ReviewP!TypeOK, UNCHANGED reviewVars,
         findings' \in [Repos -> Row], writeLock' \in BOOLEAN
  PROVE  ReviewP!TypeOK'
BY DEF ReviewP!TypeOK, reviewVars, ReviewP!Row, Row, ReviewP!Statuses, Statuses,
       ReviewP!Methods, Methods, ReviewP!Tiers, Tiers, ReviewP!Evidence, Evidence

LEMMA SubmitTypeStays ==
  ASSUME SubmitP!TypeOK, UNCHANGED submitVars,
         findings' \in [Repos -> Row], writeLock' \in BOOLEAN
  PROVE  SubmitP!TypeOK'
BY DEF SubmitP!TypeOK, submitVars, SubmitP!Row, Row, SubmitP!Statuses, Statuses,
       SubmitP!Methods, Methods, SubmitP!Tiers, Tiers, SubmitP!Evidence, Evidence

\* A hunt's sources stand on the methods of the rows.
LEMMA SourcesStay ==
  ASSUME HuntP!TypeOK, HuntP!PivotInv, HuntP!FeedInv, UNCHANGED huntVars,
         \A r \in Repos : /\ Present(findings'[r]) <=> Present(findings[r])
                          /\ findings'[r].method = findings[r].method
  PROVE  HuntP!PivotInv' /\ HuntP!FeedInv'
<1> USE DEF huntVars
<1>1. HuntP!RowsHaveMethods'
  BY DEF HuntP!PivotInv, HuntP!RowsHaveMethods, HuntP!Present, Present
<1>2. \A r \in Repos : /\ HuntP!HasSeed(r) => HuntP!HasSeed(r)'
                       /\ HuntP!Novel(r) => HuntP!Novel(r)'
  BY DEF HuntP!HasSeed, HuntP!Novel
<1>3. HuntP!PivotInv'
  BY <1>1, <1>2 DEF HuntP!PivotInv, HuntP!PivotHasSeed, HuntP!HasSeed
<1>4. \A h \in Hunts : \A r \in rows'[h] \cup cluster'[h] : HuntP!Novel(r)'
  BY <1>2 DEF HuntP!FeedInv, HuntP!TypeOK
<1>5. \A r \in Repos : shown'[r] > 0 => HuntP!Novel(r)'
  BY <1>2 DEF HuntP!FeedInv
<1> QED BY <1>1, <1>3, <1>4, <1>5 DEF HuntP!FeedInv

\* The submitters' invariant asks of the rows that none vanishes, and that
\* nobody else claims one.
LEMMA SubmitInvStays ==
  ASSUME SubmitP!SubmitInv, SubmitP!TypeOK', UNCHANGED submitVars,
         \A r \in Repos : /\ Present(findings[r]) => Present(findings'[r])
                          /\ findings'[r].submitted => findings[r].submitted
  PROVE  SubmitP!SubmitInv'
<1> USE DEF submitVars, SubmitP!SubmitInv
<1>1. SubmitP!HandsMatchStep' /\ SubmitP!AnsweredIsConfirmed'
  BY DEF SubmitP!HandsMatchStep, SubmitP!AnsweredIsConfirmed
<1>2. SubmitP!RowsExist'
  BY DEF SubmitP!RowsExist, SubmitP!Present, Present
<1>3. SubmitP!SubmittedIsAccountedFor'
  BY DEF SubmitP!SubmittedIsAccountedFor
<1>4. SubmitP!ReportsOnOsm' /\ SubmitP!ToPostUnreported' /\ SubmitP!ReportedAtMostOnce'
  BY DEF SubmitP!ReportsOnOsm, SubmitP!ToPostUnreported, SubmitP!ToPost,
         SubmitP!ReportedAtMostOnce, SubmitP!Resources
<1> QED BY <1>1, <1>2, <1>3, <1>4

\* What a hunt does, and a revision of verdicts, to every row.
LEMMA HuntRows ==
  ASSUME HuntP!TypeOK, HuntMoves
  PROVE  /\ HuntP!TypeOK'
         /\ findings' \in [Repos -> Row] /\ writeLock' \in BOOLEAN
         /\ \A r \in Repos :
              /\ Present(findings[r]) => Present(findings'[r])
              /\ findings'[r].submitted => findings[r].submitted
              /\ findings[r].status = "rejected" => findings'[r].status = "rejected"
              /\ Present(findings[r]) /\ (\A h \in Hunts : work[h][r].stage = "none")
                   => /\ findings'[r].status = findings[r].status
                      /\ findings'[r].tier = findings[r].tier
                      /\ findings'[r].evidence = findings[r].evidence
<1>1. HuntP!HuntAssumption
  BY HuntFits
<1>2. [HuntP!Next]_HuntP!vars
  BY DEF HuntMoves
<1>3. HuntP!TypeOK'
  BY <1>1, <1>2, WorldAssumption, HuntP!StepType
<1>4. findings' \in [Repos -> Row] /\ writeLock' \in BOOLEAN
  BY <1>3
  DEF HuntP!TypeOK, HuntP!Row, Row, HuntP!Statuses, Statuses, HuntP!Methods, Methods,
      HuntP!Tiers, Tiers, HuntP!Evidence, Evidence
<1>5. ASSUME NEW r \in Repos
      PROVE  /\ HuntP!Present(findings[r]) => HuntP!Present(findings'[r])
             /\ findings'[r].submitted => findings[r].submitted
             /\ findings[r].status = "rejected" => findings'[r].status = "rejected"
             /\ HuntP!Present(findings[r]) /\ (\A h \in Hunts : work[h][r].stage = "none")
                  => /\ findings'[r].status = findings[r].status
                     /\ findings'[r].tier = findings[r].tier
                     /\ findings'[r].evidence = findings[r].evidence
  BY <1>1, <1>2, WorldAssumption, HuntP!RowStep
<1> QED BY <1>3, <1>4, <1>5 DEF Present, HuntP!Present

LEMMA ReviewRows ==
  ASSUME ReviewP!TypeOK, ReviewMoves
  PROVE  /\ ReviewP!TypeOK'
         /\ findings' \in [Repos -> Row] /\ writeLock' \in BOOLEAN
         /\ \A r \in Repos :
              /\ Present(findings'[r]) <=> Present(findings[r])
              /\ findings'[r].method = findings[r].method
              /\ findings'[r].hash = findings[r].hash
              /\ findings'[r].delivered = findings[r].delivered
              /\ findings'[r].submitted = findings[r].submitted
              /\ findings'[r].status \in {findings[r].status, "validated", "rejected"}
              /\ findings'[r].tier \in {findings[r].tier, "auto", "review"}
              /\ findings'[r].tier # findings[r].tier => pending[r] # "none"
              /\ ReviewP!SeenIsCurrent => findings'[r].evidence = findings[r].evidence
<1>1. [ReviewP!Next]_ReviewP!vars
  BY DEF ReviewMoves
<1>2. ReviewP!SeedAssumption
  BY ReviewFits
<1>3. ReviewP!TypeOK'
  BY <1>1, <1>2, WorldAssumption, ReviewP!ReviewTypeStep
<1>4. findings' \in [Repos -> Row] /\ writeLock' \in BOOLEAN
  BY <1>3
  DEF ReviewP!TypeOK, ReviewP!Row, Row, ReviewP!Statuses, Statuses, ReviewP!Methods,
      Methods, ReviewP!Tiers, Tiers, ReviewP!Evidence, Evidence
<1>5. \A r \in Repos :
        /\ ReviewP!SameFinding(findings[r], findings'[r])
        /\ findings'[r].status \in {findings[r].status, "validated", "rejected"}
        /\ findings'[r].status # findings[r].status => ReviewP!Present(findings[r])
        /\ findings'[r].tier \in {findings[r].tier, "auto", "review"}
        /\ findings'[r].tier # findings[r].tier => pending[r] # "none"
        /\ ReviewP!SeenIsCurrent => findings'[r].evidence = findings[r].evidence
  BY <1>1, <1>2, WorldAssumption, ReviewP!TableStep
<1> QED BY <1>3, <1>4, <1>5 DEF ReviewP!SameFinding, ReviewP!Present, Present

LEMMA SubmitRows ==
  ASSUME SubmitP!SubmitInv, SubmitMoves
  PROVE  /\ SubmitP!SubmitInv'
         /\ findings' \in [Repos -> Row] /\ writeLock' \in BOOLEAN
         /\ \A r \in Repos :
              /\ Present(findings'[r]) <=> Present(findings[r])
              /\ findings'[r].status = findings[r].status
              /\ findings'[r].method = findings[r].method
              /\ findings'[r].tier = findings[r].tier
              /\ findings'[r].evidence = findings[r].evidence
              /\ findings'[r].hash = findings[r].hash
              /\ findings'[r].delivered = findings[r].delivered
<1>1. [SubmitP!Next]_SubmitP!vars
  BY DEF SubmitMoves
<1>2. SubmitP!SubmitAssumption
  BY SubmitFits
<1>3. SubmitP!SubmitInv'
  BY <1>1, <1>2, WorldAssumption, SubmitP!SubmitStep
<1>4. findings' \in [Repos -> Row] /\ writeLock' \in BOOLEAN
  BY <1>3
  DEF SubmitP!SubmitInv, SubmitP!TypeOK, SubmitP!Row, Row, SubmitP!Statuses, Statuses,
      SubmitP!Methods, Methods, SubmitP!Tiers, Tiers, SubmitP!Evidence, Evidence
<1>5. \A r \in Repos : SubmitP!SameFinding(findings[r], findings'[r])
  BY <1>1, <1>2, WorldAssumption, SubmitP!OnlyClaimsChange DEF SubmitP!SubmitInv
<1> QED BY <1>3, <1>4, <1>5 DEF SubmitP!SameFinding, Present

LEMMA RegistryStep == RegistryInv /\ [Next]_vars => RegistryInv'
<1> SUFFICES ASSUME RegistryInv, [Next]_vars PROVE RegistryInv'
  OBVIOUS
<1> USE DEF RegistryInv
<1>1. SubmitP!TypeOK
  BY DEF SubmitP!SubmitInv
<1>2. CASE HuntMoves
  <2>1. UNCHANGED reviewVars /\ UNCHANGED submitVars
    BY <1>2 DEF HuntMoves
  <2>2. HuntP!TypeOK' /\ findings' \in [Repos -> Row] /\ writeLock' \in BOOLEAN
    BY <1>2, HuntRows
  <2>3. ReviewP!TypeOK' /\ SubmitP!TypeOK'
    BY <1>1, <2>1, <2>2, ReviewTypeStays, SubmitTypeStays
  <2>4. SubmitP!SubmitInv'
    BY <1>2, <2>1, <2>3, HuntRows, SubmitInvStays
  <2>5. HuntP!PivotInv' /\ HuntP!FeedInv'
    BY <1>2, <2>2, HuntFits, WorldAssumption, HuntP!StepPivot, HuntP!StepFeedInv
    DEF HuntMoves
  <2> QED BY <2>2, <2>3, <2>4, <2>5
<1>3. CASE ReviewMoves
  <2>1. UNCHANGED huntVars /\ UNCHANGED submitVars
    BY <1>3 DEF ReviewMoves
  <2>2. ReviewP!TypeOK' /\ findings' \in [Repos -> Row] /\ writeLock' \in BOOLEAN
    BY <1>3, ReviewRows
  <2>3. HuntP!TypeOK' /\ SubmitP!TypeOK'
    BY <1>1, <2>1, <2>2, HuntTypeStays, SubmitTypeStays
  <2>4. SubmitP!SubmitInv'
    BY <1>3, <2>1, <2>3, ReviewRows, SubmitInvStays
  <2>5. HuntP!PivotInv' /\ HuntP!FeedInv'
    BY <1>3, <2>1, ReviewRows, SourcesStay
  <2> QED BY <2>2, <2>3, <2>4, <2>5
<1>4. CASE SubmitMoves
  <2>1. UNCHANGED huntVars /\ UNCHANGED reviewVars
    BY <1>4 DEF SubmitMoves
  <2>2. SubmitP!SubmitInv' /\ findings' \in [Repos -> Row] /\ writeLock' \in BOOLEAN
    BY <1>4, SubmitRows
  <2>3. HuntP!PivotInv' /\ HuntP!FeedInv'
    BY <1>4, <2>1, SubmitRows, SourcesStay
  <2> QED BY <2>1, <2>2, <2>3, HuntTypeStays, ReviewTypeStays
<1> QED BY <1>2, <1>3, <1>4, Moves

LEMMA RegistryInit == Init => RegistryInv
<1> SUFFICES ASSUME Init PROVE RegistryInv
  OBVIOUS
<1>1. HuntP!Init /\ ReviewP!Init /\ SubmitP!Init
  BY HuntSame, ReviewSame, SubmitSame DEF Init
<1>2. HuntP!TypeOK
  BY <1>1, HuntFits, WorldAssumption, HuntP!InitType
<1>3. ReviewP!TypeOK
  BY <1>1, ReviewFits, WorldAssumption, ReviewP!ReviewInit
  DEF ReviewP!ReviewInv, ReviewP!RevalidationInv
<1>4. SubmitP!SubmitInv
  BY <1>1, SubmitFits, WorldAssumption, SubmitP!SubmitInit
<1>5. HuntP!PivotInv /\ HuntP!FeedInv
  BY <1>1, HuntFits, WorldAssumption, HuntP!InitPivot, HuntP!InitFeed
<1> QED BY <1>2, <1>3, <1>4, <1>5 DEF RegistryInv

(***************************************************************************)
(* A rejected or approved seed is a seed still, and a row keeps the method *)
(* the feed was shown it for: what Hunt says of both holds beside every    *)
(* other program, however many hunts overlap.                              *)
(***************************************************************************)
THEOREM SourcesAlwaysStand ==
  Spec => [](Hunting!PivotHasSeed /\ Hunting!OnlyNovelEvidenceShown)
<1>1. RegistryInv => Hunting!PivotHasSeed /\ Hunting!OnlyNovelEvidenceShown
  BY DEF RegistryInv, HuntP!PivotInv, HuntP!PivotHasSeed, Hunting!PivotHasSeed,
         HuntP!FeedInv, HuntP!Novel, Hunting!OnlyNovelEvidenceShown
<1> QED BY <1>1, RegistryInit, RegistryStep, PTL DEF Spec

\* Nobody but the analyst takes a rejection back, whichever programs run side
\* by side and however many hunts overlap: upsert_finding, the sweep, the
\* commit of a revalidation and the submitters' UPDATEs all keep it.
THEOREM OnlyAnalystEverRevives == Spec => OnlyAnalystRevives
<1> DEFINE Kept == \A r \in Repos :
                     findings[r].status = "rejected" /\ findings'[r].status # "rejected"
                       => Revising!Approve(r)
<1>1. ASSUME RegistryInv, [Next]_vars PROVE Kept
  <2> SUFFICES ASSUME NEW r \in Repos, findings[r].status = "rejected",
                      findings'[r].status # "rejected"
               PROVE  Revising!Approve(r)
    OBVIOUS
  <2>1. ~HuntMoves
    BY <1>1, HuntRows DEF RegistryInv
  <2>2. ~SubmitMoves
    BY <1>1, SubmitRows DEF RegistryInv
  <2>3. ReviewMoves
    BY <1>1, <2>1, <2>2, Moves
  <2>4. ReviewP!Approve(r)
    BY <1>1, <2>3, ReviewFits, WorldAssumption, ReviewP!OnlyApproveRevives
    DEF RegistryInv, ReviewMoves
  <2> QED BY <2>4, ReviewSame
<1> QED BY <1>1, RegistryInit, RegistryStep, PTL DEF Spec, OnlyAnalystRevives
-----------------------------------------------------------------------------
(***************************************************************************)
(* Hunts one at a time.  ProofKept needs more than the types: that no hunt *)
(* has a confirmed row in hand (GateInv, and the claims it comes with),    *)
(* that a confirmed row has a tier, and that the evidence a revalidation   *)
(* writes back is the one the row has.  The two meet in TouchedAreOld: a   *)
(* row a revalidation has in hand was confirmed when it was taken up, so   *)
(* no hunt has it in hand, nor ever gets it: discovery skips known repos.  *)
(* It is no fork either, whose tier the gates make the auto tier.          *)
(***************************************************************************)
TouchedAreOld ==
  \A r \in Repos : r \in todo \/ pending[r] # "none" =>
    /\ Present(findings[r]) /\ findings[r].method # "redteam_lineage"
    /\ \A h \in Hunts : work[h][r].stage = "none"

SerialInv ==
  /\ HuntP!ClaimInv
  /\ HuntP!GateInv
  /\ HuntP!ConfirmedIsTiered
  /\ HuntP!GatedNeverConfirmed
  /\ ReviewP!RevalidationInv
  /\ TouchedAreOld

\* A confirmed row is in no hunt's hands.
LEMMA ConfirmedUntouched ==
  ASSUME HuntP!TypeOK, HuntP!GateInv, NEW r \in Repos, findings[r].status = "confirmed"
  PROVE  \A h \in Hunts : work[h][r].stage = "none"
<1> TAKE h \in Hunts
<1>1. work[h][r].stage \in {"none", "found", "queued", "scanning"}
  BY DEF HuntP!TypeOK, HuntP!Item
<1>2. HuntP!OwnRow(h, r)
  BY DEF HuntP!GateInv, HuntP!InHand
<1> QED BY <1>1, <1>2 DEF HuntP!OwnRow, HuntP!Present

\* A step of another program, as a hunt sees it: the rows stay, with their
\* method, their hash and their claim, none becomes confirmed, and a fork
\* keeps its tier.
Harmless(row, next) ==
  /\ Present(next) <=> Present(row)
  /\ next.method = row.method
  /\ next.hash = row.hash
  /\ next.delivered = row.delivered
  /\ next.status = "confirmed" => row.status = "confirmed"
  /\ next.tier \in {row.tier, "auto", "review"}
  /\ row.method = "redteam_lineage" => next.tier = row.tier

LEMMA HuntInvStays ==
  ASSUME HuntP!TypeOK, HuntP!TypeOK', HuntP!ClaimInv, HuntP!GateInv,
         HuntP!ConfirmedIsTiered, HuntP!GatedNeverConfirmed, UNCHANGED huntVars,
         \A r \in Repos : Harmless(findings[r], findings'[r])
  PROVE  /\ HuntP!ClaimInv' /\ HuntP!GateInv'
         /\ HuntP!ConfirmedIsTiered' /\ HuntP!GatedNeverConfirmed'
<1>1. HuntP!ClaimInv'
  <2>1. \A r \in Repos : /\ findings'[r].delivered = findings[r].delivered
                         /\ HuntP!Present(findings[r]) => HuntP!Present(findings'[r])
    BY DEF Harmless, Present, HuntP!Present
  <2>2. UNCHANGED <<pc, rows, cluster, acked, lost>>
    BY DEF huntVars
  <2>3. \A h \in Hunts : HuntP!Active(h)' <=> HuntP!Active(h)
    BY <2>2 DEF HuntP!Active
  <2>4. \A h \in Hunts : ~HuntP!Active(h)' => rows'[h] = {}
    BY <2>2, <2>3 DEF HuntP!ClaimInv, HuntP!HandsMatchPc
  <2> QED BY <2>1, <2>2, <2>3, <2>4, HuntFits, WorldAssumption, HuntP!ClaimsFrame
<1>2. HuntP!GateInv'
  BY DEF huntVars, Harmless, Present, HuntP!Present, HuntP!GateInv, HuntP!InHand,
         HuntP!InStep, HuntP!OwnRow
<1>3. HuntP!ConfirmedIsTiered'
  BY DEF Harmless, HuntP!ConfirmedIsTiered
<1>4. HuntP!GatedNeverConfirmed'
  BY DEF Harmless, HuntP!GatedNeverConfirmed
<1> QED BY <1>1, <1>2, <1>3, <1>4

LEMMA SerialHunts ==
  ASSUME Serial, RegistryInv, SerialInv, HuntMoves
  PROVE  SerialInv'
<1>1. HuntP!HuntAssumption /\ [HuntP!Next]_HuntP!vars /\ UNCHANGED reviewVars
  BY HuntFits DEF HuntMoves
<1>2. HuntP!TypeOK /\ HuntP!TypeOK' /\ ReviewP!TypeOK
  BY HuntRows DEF RegistryInv
<1>3. HuntP!ClaimInv'
  BY <1>1, <1>2, WorldAssumption, HuntP!StepClaims DEF SerialInv
<1>4. HuntP!GateInv'
  BY <1>1, <1>2, WorldAssumption, HuntP!StepGates DEF SerialInv, HuntP!ClaimInv
<1>5. HuntP!ConfirmedIsTiered' /\ HuntP!GatedNeverConfirmed'
  BY <1>1, <1>2, WorldAssumption, HuntP!TieredStep, HuntP!StepGated DEF SerialInv
<1>6. ASSUME NEW r \in Repos, r \in todo \/ pending[r] # "none"
      PROVE  /\ findings'[r].evidence = findings[r].evidence
             /\ Present(findings'[r]) /\ findings'[r].method # "redteam_lineage"
             /\ \A h \in Hunts : work'[h][r].stage = "none"
  <2>1. /\ Present(findings[r]) /\ findings[r].method # "redteam_lineage"
        /\ \A h \in Hunts : work[h][r].stage = "none"
    BY <1>6 DEF SerialInv, TouchedAreOld
  <2>2. findings'[r].evidence = findings[r].evidence /\ Present(findings'[r])
    BY <1>2, <2>1, HuntRows
  <2>3. findings'[r].method = findings[r].method
    BY <1>1, <1>2, <2>1, WorldAssumption, HuntP!StepMethods
    DEF RegistryInv, HuntP!PivotInv, HuntP!Present, Present
  <2>4. ASSUME NEW h \in Hunts, work'[h][r].stage # "none" PROVE FALSE
    <3>1. work'[h][r].stage = "found"
      BY <1>1, <1>2, <2>1, <2>4, WorldAssumption, HuntP!StepWork
    <3>2. HuntP!OwnRow(h, r)'
      BY <1>4 DEF HuntP!GateInv, HuntP!InHand
    <3> QED BY <2>2, <3>1, <3>2 DEF HuntP!OwnRow, HuntP!Present, Present
  <2> QED BY <2>1, <2>2, <2>3, <2>4
<1>7. ReviewP!RevalidationInv'
  <2>1. ReviewP!TypeOK'
    BY <1>1, <1>2, HuntRows, ReviewTypeStays
  <2>2. ReviewP!AtRest'
    BY <1>1 DEF reviewVars, SerialInv, ReviewP!RevalidationInv, ReviewP!AtRest
  <2>3. ReviewP!SeenIsCurrent'
    BY <1>1, <1>6 DEF reviewVars, SerialInv, ReviewP!RevalidationInv, ReviewP!SeenIsCurrent
  <2> QED BY <2>1, <2>2, <2>3 DEF ReviewP!RevalidationInv
<1>8. TouchedAreOld'
  BY <1>1, <1>6 DEF reviewVars, TouchedAreOld
<1> QED BY <1>3, <1>4, <1>5, <1>7, <1>8 DEF SerialInv

LEMMA SerialReview ==
  ASSUME RegistryInv, SerialInv, ReviewMoves
  PROVE  SerialInv'
<1>1. ReviewP!SeedAssumption /\ [ReviewP!Next]_ReviewP!vars /\ UNCHANGED huntVars
  BY ReviewFits DEF ReviewMoves
<1>2. HuntP!TypeOK /\ HuntP!TypeOK'
  BY <1>1, ReviewRows, HuntTypeStays DEF RegistryInv
<1>3. \A r \in Repos : Harmless(findings[r], findings'[r])
  BY ReviewRows DEF RegistryInv, SerialInv, TouchedAreOld, Harmless
<1>4. /\ HuntP!ClaimInv' /\ HuntP!GateInv'
      /\ HuntP!ConfirmedIsTiered' /\ HuntP!GatedNeverConfirmed'
  BY <1>1, <1>2, <1>3, HuntInvStays DEF SerialInv
<1>5. ReviewP!RevalidationInv'
  BY <1>1, WorldAssumption, ReviewP!RevalidationStep DEF SerialInv
<1>6. TouchedAreOld'
  <2> SUFFICES ASSUME NEW r \in Repos, r \in todo' \/ pending'[r] # "none"
               PROVE  /\ Present(findings'[r]) /\ findings'[r].method # "redteam_lineage"
                      /\ \A h \in Hunts : work'[h][r].stage = "none"
    BY DEF TouchedAreOld
  <2>1. \/ r \in todo \/ pending[r] # "none"
        \/ findings[r].status = "confirmed" /\ findings[r].method # "redteam_lineage"
    BY <1>1, WorldAssumption, ReviewP!TouchedStep DEF SerialInv
  <2>2. /\ Present(findings[r]) /\ findings[r].method # "redteam_lineage"
        /\ \A h \in Hunts : work[h][r].stage = "none"
    BY <1>2, <2>1, ConfirmedUntouched DEF SerialInv, TouchedAreOld, Present
  <2> QED BY <1>1, <1>3, <2>2 DEF huntVars, Harmless
<1> QED BY <1>4, <1>5, <1>6 DEF SerialInv

LEMMA SerialSubmit ==
  ASSUME RegistryInv, SerialInv, SubmitMoves
  PROVE  SerialInv'
<1>1. UNCHANGED huntVars /\ UNCHANGED reviewVars
  BY DEF SubmitMoves
<1>2. HuntP!TypeOK /\ HuntP!TypeOK' /\ ReviewP!TypeOK'
  BY <1>1, SubmitRows, HuntTypeStays, ReviewTypeStays DEF RegistryInv
<1>3. \A r \in Repos : Harmless(findings[r], findings'[r])
  BY SubmitRows DEF RegistryInv, Harmless, Present
<1>4. /\ HuntP!ClaimInv' /\ HuntP!GateInv'
      /\ HuntP!ConfirmedIsTiered' /\ HuntP!GatedNeverConfirmed'
  BY <1>1, <1>2, <1>3, HuntInvStays DEF SerialInv
<1>5. ReviewP!RevalidationInv'
  <2>1. \A r \in Repos : findings'[r].evidence = findings[r].evidence
    BY SubmitRows DEF RegistryInv
  <2> QED
    BY <1>1, <1>2, <2>1
    DEF reviewVars, SerialInv, ReviewP!RevalidationInv, ReviewP!AtRest,
        ReviewP!SeenIsCurrent
<1>6. TouchedAreOld'
  BY <1>1, <1>3 DEF huntVars, reviewVars, SerialInv, TouchedAreOld, Harmless
<1> QED BY <1>4, <1>5, <1>6 DEF SerialInv

LEMMA SerialStep ==
  ASSUME Serial, RegistryInv, SerialInv, [Next]_vars
  PROVE  SerialInv'
BY Moves, SerialHunts, SerialReview, SerialSubmit

LEMMA SerialInit == Init => SerialInv
<1> SUFFICES ASSUME Init PROVE SerialInv
  OBVIOUS
<1>1. HuntP!Init /\ ReviewP!Init
  BY HuntSame, ReviewSame DEF Init
<1>2. HuntP!ClaimInv /\ HuntP!GateInv
  BY <1>1, HuntFits, WorldAssumption, HuntP!InitClaims, HuntP!InitGates
<1>3. HuntP!ConfirmedIsTiered /\ HuntP!GatedNeverConfirmed
  BY <1>1 DEF HuntP!Init, HuntP!ConfirmedIsTiered, HuntP!GatedNeverConfirmed, HuntP!NoRow
<1>4. ReviewP!RevalidationInv
  BY <1>1, ReviewFits, WorldAssumption, ReviewP!ReviewInit DEF ReviewP!ReviewInv
<1>5. TouchedAreOld
  BY <1>1 DEF ReviewP!Init, ReviewP!Quiet, TouchedAreOld
<1> QED BY <1>2, <1>3, <1>4, <1>5 DEF SerialInv

\* What proves a confirmation outlives every write of the other programs: a
\* serial hunt has no confirmed row in hand, and a revalidation that writes a
\* payload back, however long it took, writes the evidence the row has still.
THEOREM ProofAlwaysKept ==
  ASSUME Serial
  PROVE  Spec => ProofKept
<1> DEFINE Kept == \A r \in Repos :
             findings[r].status = "confirmed" =>
               /\ findings'[r].evidence = findings[r].evidence
               /\ findings'[r].tier # "none"
               /\ findings'[r].status \in {"confirmed", "validated", "rejected"}
<1>1. ASSUME RegistryInv, SerialInv, [Next]_vars PROVE Kept
  <2> SUFFICES ASSUME NEW r \in Repos, findings[r].status = "confirmed"
               PROVE  /\ findings'[r].evidence = findings[r].evidence
                      /\ findings'[r].tier # "none"
                      /\ findings'[r].status \in {"confirmed", "validated", "rejected"}
    OBVIOUS
  <2>1. findings[r].tier # "none" /\ Present(findings[r])
    BY <1>1 DEF SerialInv, HuntP!ConfirmedIsTiered, Present
  <2>2. CASE HuntMoves
    <3>1. \A h \in Hunts : work[h][r].stage = "none"
      BY <1>1, ConfirmedUntouched DEF RegistryInv, SerialInv
    <3> QED BY <1>1, <2>1, <2>2, <3>1, HuntRows DEF RegistryInv
  <2>3. CASE ReviewMoves
    BY <1>1, <2>1, <2>3, ReviewRows DEF RegistryInv, SerialInv, ReviewP!RevalidationInv
  <2>4. CASE SubmitMoves
    BY <1>1, <2>1, <2>4, SubmitRows DEF RegistryInv
  <2> QED BY <1>1, <2>2, <2>3, <2>4, Moves
<1> QED BY <1>1, RegistryInit, RegistryStep, SerialInit, SerialStep, PTL
        DEF Spec, ProofKept

\* And what the gates of Tier-2 hold back stays unconfirmed beside every other
\* program: an approval makes a row validated, a new verdict never touches a
\* fork, and neither changes what a hunt knows of the candidates in its hands.
THEOREM GatesHoldBesideTheRest ==
  ASSUME Serial
  PROVE  Spec => []Hunting!GatedNeverConfirmed
<1>1. SerialInv => Hunting!GatedNeverConfirmed
  BY DEF SerialInv, HuntP!GatedNeverConfirmed, Hunting!GatedNeverConfirmed
<1> QED BY <1>1, RegistryInit, RegistryStep, SerialInit, SerialStep, PTL DEF Spec

-----------------------------------------------------------------------------
(***************************************************************************)
(* The two feeds.  The delivery's claims change in a hunt's step only, so  *)
(* every step of the system is one of ClaimFirst or a stutter; the claims  *)
(* of the submitters are part of RegistryInv.                              *)
(***************************************************************************)
LEMMA DeliverySame ==
  /\ Hunting!Init => Hunting!Delivery!Init
  /\ HuntP!Delivery!Next => Hunting!Delivery!Next
<1>1. Hunting!Init => Hunting!Delivery!Init
  BY DEF Hunting!Init, Hunting!Delivery!Init, Hunting!NoRow
<1>2. HuntP!Delivery!Next => Hunting!Delivery!Next
  BY DEF HuntP!Delivery!Next, HuntP!Delivery!Claim, HuntP!Delivery!Tell,
         HuntP!Delivery!Release, Hunting!Delivery!Next, Hunting!Delivery!Claim,
         Hunting!Delivery!Tell, Hunting!Delivery!Release
<1> QED BY <1>1, <1>2

THEOREM FeedsAlwaysKeepTheirClaims ==
  ASSUME Serial
  PROVE  Spec => BothFeedsKeepTheirClaims
<1> DEFINE claimed == {r \in Repos : findings[r].delivered}
           told    == {r \in Repos : acked[r] > 0}
<1>1. Init => Hunting!Delivery!Init
  BY DeliverySame DEF Init
<1>2. ASSUME RegistryInv, SerialInv, [Next]_vars
      PROVE  [Hunting!Delivery!Next]_<<claimed, told>>
  <2>1. CASE HuntMoves
    <3>1. HuntP!Delivery!Next \/ UNCHANGED <<HuntP!Delivered, HuntP!Told>>
      BY <1>2, <2>1, HuntFits, WorldAssumption, HuntP!RefinedStep
      DEF RegistryInv, SerialInv, HuntMoves
    <3>2. CASE HuntP!Delivery!Next
      BY <3>2, DeliverySame
    <3>3. CASE UNCHANGED <<HuntP!Delivered, HuntP!Told>>
      BY <3>3 DEF HuntP!Delivered, HuntP!Told
    <3> QED BY <3>1, <3>2, <3>3
  <2>2. CASE ReviewMoves
    <3>1. UNCHANGED acked /\ \A r \in Repos : findings'[r].delivered = findings[r].delivered
      BY <1>2, <2>2, ReviewRows DEF RegistryInv, ReviewMoves, huntVars
    <3> QED BY <3>1
  <2>3. CASE SubmitMoves
    <3>1. UNCHANGED acked /\ \A r \in Repos : findings'[r].delivered = findings[r].delivered
      BY <1>2, <2>3, SubmitRows DEF RegistryInv, SubmitMoves, huntVars
    <3> QED BY <3>1
  <2> QED BY <1>2, <2>1, <2>2, <2>3, Moves
<1>3. RegistryInv => Sending!SubmittedIsAccountedFor /\ Sending!ReportedAtMostOnce
  BY DEF RegistryInv, SubmitP!SubmitInv, SubmitP!SubmittedIsAccountedFor,
         Sending!SubmittedIsAccountedFor, SubmitP!ReportedAtMostOnce,
         Sending!ReportedAtMostOnce, SubmitP!Resources, Sending!Resources
<1>4. Spec => Hunting!ImplementsClaimFirst
  BY <1>1, <1>2, RegistryInit, RegistryStep, SerialInit, SerialStep, PTL
  DEF Spec, Hunting!ImplementsClaimFirst, Hunting!Delivery!Spec
<1>5. Spec => [](Sending!SubmittedIsAccountedFor /\ Sending!ReportedAtMostOnce)
  BY <1>3, RegistryInit, RegistryStep, PTL DEF Spec
<1> QED BY <1>4, <1>5 DEF BothFeedsKeepTheirClaims

=============================================================================
