---------------------------- MODULE SubmitProofs ----------------------------
(***************************************************************************)
(* Proofs about reporting to OpenSourceMalware, for any rows, hosts,       *)
(* failures and modes: a row says "submitted" only with a reason, OSM gets *)
(* no second report that its search could have prevented, and the batch    *)
(* submitter implements the claim-first protocol.                          *)
(***************************************************************************)
EXTENDS Submit, TLAPS

\* What a submitter has in hand agrees with where it is.
HandsMatchStep ==
  /\ step \in {"posting", "answered", "failed"} <=> current # {}
  /\ queue \cap current = {}

\* A claim is held on a row that exists, and only such rows are queued.
RowsExist ==
  \A r \in Repos : findings[r].submitted \/ r \in queue \cup current => Present(findings[r])

\* The answer that is about to be recorded has arrived.
AnsweredIsConfirmed ==
  step = "answered" => \A x \in current : confirmations[x] > 0

\* Every report of ours is on OSM; so once the queue was searched, what is
\* still to be POSTed was reported before only if the search overlooked it.
ToPost == IF step \in {"idle", "gate"} THEN {}
          ELSE queue \cup (IF step = "posting" THEN current ELSE {})

ReportsOnOsm == \A x \in Resources : reports[x] > 0 => x \in osm

ToPostUnreported == \A x \in ToPost : reports[x] > 0 => x \in overlooked

SubmitInv ==
  /\ TypeOK
  /\ HandsMatchStep
  /\ RowsExist
  /\ AnsweredIsConfirmed
  /\ SubmittedIsAccountedFor
  /\ ReportsOnOsm
  /\ ToPostUnreported
  /\ ReportedAtMostOnce

(***************************************************************************)
(* In batch mode an answer of OSM is never taken for a failure, so beyond  *)
(* that: what is queued is unclaimed, what was acknowledged or is in hand  *)
(* is claimed, and a claim that is released was not acknowledged.          *)
(***************************************************************************)
Told == {x \in Resources : confirmations[x] > 0}

BatchInv ==
  /\ mode = "batch"
  /\ queue \cap Claims = {}
  /\ current \subseteq Claims
  /\ Told \subseteq Claims
  /\ step \in {"posting", "failed"} => current \cap Told = {}

-----------------------------------------------------------------------------
(***************************************************************************)
(* The operators a step is built from.                                     *)
(***************************************************************************)

\* An UPDATE of the claim column touches a row that exists, and only there.
LEMMA WithSubmittedRow ==
  ASSUME NEW row \in Row, NEW flag \in BOOLEAN
  PROVE  /\ WithSubmitted(row, flag) \in Row
         /\ Present(WithSubmitted(row, flag)) <=> Present(row)
         /\ WithSubmitted(row, flag).submitted =
              IF Present(row) THEN flag ELSE row.submitted
BY DEF WithSubmitted, Present, Row

LEMMA WithClaimRows ==
  ASSUME TypeOK, NEW flag \in BOOLEAN, findings' = WithClaim(flag)
  PROVE  /\ findings' \in [Repos -> Row]
         /\ \A r \in Repos :
              /\ Present(findings'[r]) <=> Present(findings[r])
              /\ findings'[r].submitted =
                   IF r \in current /\ Present(findings[r]) THEN flag
                                                            ELSE findings[r].submitted
<1>1. \A r \in Repos : findings[r] \in Row
  BY DEF TypeOK
<1> QED BY <1>1, WithSubmittedRow DEF WithClaim

LEMMA ClaimRepoRows ==
  ASSUME TypeOK, NEW r \in Repos, ClaimRepo(r)
  PROVE  /\ findings' \in [Repos -> Row]
         /\ \A q \in Repos :
              /\ Present(findings'[q]) <=> Present(findings[q])
              /\ findings'[q].submitted =
                   IF q = r /\ Present(findings[q]) THEN TRUE ELSE findings[q].submitted
<1>1. \A q \in Repos : findings[q] \in Row
  BY DEF TypeOK
<1>2. findings' = [findings EXCEPT ![r] = WithSubmitted(findings[r], TRUE)]
  BY DEF ClaimRepo
<1> QED BY <1>1, <1>2, WithSubmittedRow DEF TypeOK

\* A counter moves for the names it is bumped for, and saturates above zero.
LEMMA BumpCounts ==
  ASSUME NEW count \in [Resources -> Nat], NEW names \in SUBSET Resources
  PROVE  /\ Bump(count, names) \in [Resources -> Nat]
         /\ \A x \in Resources :
              /\ Bump(count, names)[x] <= count[x] + 1
              /\ x \in names => Bump(count, names)[x] > 0
              /\ x \notin names => Bump(count, names)[x] = count[x]
              /\ count[x] > 0 => Bump(count, names)[x] > 0
BY SubmitAssumption DEF Bump

\* Only rows that exist and are unclaimed are fit for submission.
LEMMA QueuedForSubmission ==
  ASSUME TypeOK, NEW r \in GoldForSubmission(findings)
  PROVE  r \in Repos /\ Present(findings[r]) /\ ~findings[r].submitted
BY DEF GoldForSubmission, Submittable, Confirmed, Present

-----------------------------------------------------------------------------
LEMMA SubmitTypeStep == TypeOK /\ [Next]_vars => TypeOK'
<1> SUFFICES ASSUME TypeOK, [Next]_vars PROVE TypeOK'
  OBVIOUS
<1> USE DEF TypeOK, record, submitter, Steps
<1>1. CASE StartSubmit
  <2>1. queue' \in SUBSET Resources
    <3>1. GoldForSubmission(findings) \subseteq Resources
      BY DEF GoldForSubmission, Resources
    <3>2. CorroboratedC2 \subseteq Resources
      BY DEF CorroboratedC2, Resources
    <3> QED BY <1>1, <3>1, <3>2 DEF StartSubmit
  <2>2. mode' \in {"batch", "wizard"}
    BY <1>1, SubmitAssumption DEF StartSubmit
  <2> QED BY <1>1, <2>1, <2>2 DEF StartSubmit
<1>2. CASE SearchGate
  BY <1>2 DEF SearchGate
<1>3. ASSUME NEW r \in Repos, Skip(r) PROVE TypeOK'
  BY <1>3 DEF Skip
<1>4. ASSUME NEW r \in Repos, ClaimRepo(r) PROVE TypeOK'
  BY <1>4, ClaimRepoRows DEF ClaimRepo, Claimed, Resources
<1>5. CASE EndRepos
  BY <1>5 DEF EndRepos
<1>6. ASSUME NEW h \in Hosts, ClaimHost(h) PROVE TypeOK'
  BY <1>6 DEF ClaimHost, Claimed, Resources
<1>7. CASE EndSubmit
  BY <1>7 DEF EndSubmit
<1>8. CASE Record
  BY <1>8, WithClaimRows DEF Record, Settled, Back
<1>9. CASE RecordRefused
  <2>1. CASE mode = "batch"
    <3>1. bus' \in SUBSET Resources
      BY <1>9, <2>1 DEF RecordRefused
    <3> QED BY <1>9, <2>1, <3>1 DEF RecordRefused, Settled, Back
  <2>2. CASE mode # "batch"
    BY <1>9, <2>2 DEF RecordRefused
  <2> QED BY <2>1, <2>2
<1>10. CASE Release
  BY <1>10, WithClaimRows DEF Release, Settled, Back
<1>11. CASE Accepted
  BY <1>11, BumpCounts DEF Accepted, Filed
<1>12. CASE Fails
  BY <1>12, BumpCounts DEF Fails, Filed
<1>13. CASE RateLimited
  BY <1>13 DEF RateLimited
<1>14. CASE Dies
  <2>1. osm' \in SUBSET Resources /\ reports' \in [Resources -> Nat]
    BY <1>14, BumpCounts DEF Dies, Filed
  <2>2. abandoned' \in SUBSET Resources /\ deaths' \in Nat
    BY <1>14 DEF Dies
  <2> QED BY <1>14, <2>1, <2>2 DEF Dies
<1>15. ASSUME NEW x \in Contested, OthersReport(x) PROVE TypeOK'
  <2>1. x \in Resources
    BY SubmitAssumption
  <2> QED BY <1>15, <2>1 DEF OthersReport
<1>16. CASE LongWrite
  BY <1>16 DEF LongWrite, submitVars
<1>17. CASE UNCHANGED vars
  BY <1>17 DEF vars, submitVars
<1> QED
  BY <1>1, <1>2, <1>3, <1>4, <1>5, <1>6, <1>7, <1>8, <1>9, <1>10, <1>11, <1>12, <1>13,
     <1>14, <1>15, <1>16, <1>17 DEF Next, Submitting, Gates, Loop, Post

LEMMA SubmitTypeInit == Init => TypeOK
<1> SUFFICES ASSUME Init PROVE TypeOK
  OBVIOUS
<1>1. findings \in [Repos -> Row]
  BY SubmitAssumption DEF Init
<1>2. reports \in [Resources -> Nat] /\ confirmations \in [Resources -> Nat]
  BY DEF Init
<1> QED BY <1>1, <1>2 DEF Init, TypeOK, Steps

\* Every reachable state of the submitters, batch and wizard, is well typed.
THEOREM SubmitTypeCorrect == Spec => []TypeOK
BY SubmitTypeInit, SubmitTypeStep, PTL DEF Spec

-----------------------------------------------------------------------------
(***************************************************************************)
(* What any step may do to the table, to what is in hand and to the        *)
(* history; the invariants follow from these few alternatives.             *)
(***************************************************************************)

LEMMA TableStep ==
  ASSUME TypeOK, [Next]_vars
  PROVE  \/ UNCHANGED findings
         \/ \E r \in Repos : ClaimRepo(r)
         \/ Record
         \/ Release
BY DEF Next, Submitting, Gates, Loop, Post, vars, StartSubmit, SearchGate, Skip,
       EndRepos, ClaimHost, EndSubmit, RecordRefused, Accepted, Fails, RateLimited, Dies,
       OthersReport, LongWrite

\* No step makes a row or takes one away, nor claims one that is not there.
LEMMA RowsStay ==
  ASSUME TypeOK, [Next]_vars
  PROVE  \A r \in Repos :
           /\ Present(findings'[r]) <=> Present(findings[r])
           /\ findings'[r].submitted => findings[r].submitted \/ Present(findings[r])
<1> DEFINE Stays == \A r \in Repos :
                      /\ Present(findings'[r]) <=> Present(findings[r])
                      /\ findings'[r].submitted => findings[r].submitted \/ Present(findings[r])
<1>1. ASSUME NEW q \in Repos, ClaimRepo(q) PROVE Stays
  BY <1>1, ClaimRepoRows
<1>2. CASE Record
  BY <1>2, WithClaimRows DEF Record
<1>3. CASE Release
  BY <1>3, WithClaimRows DEF Release
<1> QED BY <1>1, <1>2, <1>3, TableStep

\* Of a row only the claim changes.
SameFinding(row, next) ==
  /\ next.status = row.status
  /\ next.method = row.method
  /\ next.tier = row.tier
  /\ next.evidence = row.evidence
  /\ next.hash = row.hash
  /\ next.delivered = row.delivered

LEMMA OnlyClaimsChange ==
  ASSUME TypeOK, [Next]_vars
  PROVE  \A r \in Repos : SameFinding(findings[r], findings'[r])
<1>1. \A r \in Repos : findings[r] \in Row /\ SameFinding(findings[r], findings[r])
  BY DEF TypeOK, SameFinding
<1>2. \A r \in Repos, flag \in BOOLEAN :
        SameFinding(findings[r], WithSubmitted(findings[r], flag))
  BY <1>1 DEF SameFinding, WithSubmitted, Row
<1>3. ASSUME NEW flag \in BOOLEAN, findings' = WithClaim(flag)
      PROVE  \A r \in Repos : SameFinding(findings[r], findings'[r])
  BY <1>1, <1>2, <1>3 DEF WithClaim
<1>4. ASSUME NEW q \in Repos, ClaimRepo(q)
      PROVE  \A r \in Repos : SameFinding(findings[r], findings'[r])
  BY <1>1, <1>2, <1>4 DEF ClaimRepo, TypeOK
<1> QED BY <1>1, <1>3, <1>4, TableStep DEF Record, Release

LEMMA SubmitterStep == [Next]_vars => UNCHANGED submitter \/ Gates \/ Loop \/ Post \/ Dies
BY DEF Next, Submitting, OthersReport, LongWrite, vars, submitVars

\* Resources go from the table to the queue, from the queue into the hand.
LEMMA HandStep ==
  ASSUME TypeOK, [Next]_vars
  PROVE  /\ current' \subseteq current \cup queue
         /\ queue' \subseteq queue \/ StartSubmit
<1>1. CASE Gates
  BY <1>1 DEF Gates, StartSubmit, SearchGate
<1>2. CASE Loop
  BY <1>2 DEF Loop, Skip, ClaimRepo, ClaimHost, Claimed, Settled, EndRepos, EndSubmit, Record,
              RecordRefused, Release
<1>3. CASE Post
  BY <1>3 DEF Post, Accepted, Fails, RateLimited
<1>4. CASE Dies
  BY <1>4 DEF Dies
<1>5. CASE UNCHANGED submitter
  BY <1>5 DEF submitter
<1> QED
  BY <1>1, <1>2, <1>3, <1>4, <1>5, SubmitterStep

LEMMA HandsMatchStepStep ==
  ASSUME TypeOK, HandsMatchStep, [Next]_vars
  PROVE  HandsMatchStep'
<1> USE DEF HandsMatchStep
<1>1. CASE Gates
  BY <1>1 DEF Gates, StartSubmit, SearchGate
<1>2. ASSUME NEW x, step \in {"repos", "hosts"}, Claimed(x) PROVE HandsMatchStep'
  BY <1>2 DEF Claimed
<1>3. CASE Settled /\ step \in {"answered", "failed"}
  BY <1>3 DEF Settled, Back
<1>4. CASE Loop
  <2>1. ASSUME NEW r \in Repos, Skip(r) PROVE HandsMatchStep'
    BY <2>1 DEF Skip
  <2>2. ASSUME NEW r \in Repos, ClaimRepo(r) PROVE HandsMatchStep'
    BY <1>2, <2>2 DEF ClaimRepo
  <2>3. ASSUME NEW h \in Hosts, ClaimHost(h) PROVE HandsMatchStep'
    BY <1>2, <2>3 DEF ClaimHost
  <2>4. CASE EndRepos \/ EndSubmit
    BY <2>4 DEF EndRepos, EndSubmit
  <2>5. CASE Record \/ Release
    BY <1>3, <2>5 DEF Record, Release
  <2>6. CASE RecordRefused
    BY <1>3, <2>6 DEF RecordRefused
  <2> QED BY <1>4, <2>1, <2>2, <2>3, <2>4, <2>5, <2>6 DEF Loop
<1>5. CASE Post
  BY <1>5 DEF Post, Accepted, Fails, RateLimited
<1>6. CASE Dies
  BY <1>6 DEF Dies
<1>7. CASE UNCHANGED submitter
  BY <1>7 DEF submitter
<1> QED BY <1>1, <1>4, <1>5, <1>6, <1>7, SubmitterStep

LEMMA RowsExistStep ==
  ASSUME TypeOK, RowsExist, [Next]_vars
  PROVE  RowsExist'
<1> SUFFICES ASSUME NEW r \in Repos, findings'[r].submitted \/ r \in queue' \cup current'
             PROVE  Present(findings[r])
  BY RowsStay DEF RowsExist
<1>1. CASE findings'[r].submitted
  BY <1>1, RowsStay DEF RowsExist
<1>2. CASE r \in current' \/ queue' \subseteq queue
  BY <1>1, <1>2, HandStep DEF RowsExist
<1>3. CASE StartSubmit /\ r \in queue'
  <2>1. r \in GoldForSubmission(findings) \/ r \in Hosts
    BY <1>3 DEF StartSubmit, CorroboratedC2
  <2> QED BY <2>1, QueuedForSubmission, SubmitAssumption
<1> QED BY <1>1, <1>2, <1>3, HandStep

LEMMA AnsweredStep ==
  ASSUME TypeOK, AnsweredIsConfirmed, [Next]_vars
  PROVE  AnsweredIsConfirmed'
<1> USE DEF AnsweredIsConfirmed
<1>1. CASE Accepted
  BY <1>1, BumpCounts DEF Accepted, TypeOK
<1>2. CASE step' = "answered" /\ ~Accepted
  <2>1. UNCHANGED <<step, current, confirmations>>
    BY <1>2 DEF Next, Submitting, Gates, Loop, Post, vars, submitVars, submitter, record,
                StartSubmit, SearchGate, Skip, ClaimRepo, Claimed, Settled, Back, EndRepos,
                ClaimHost, EndSubmit, Record, RecordRefused, Release, Fails, RateLimited, Dies,
                OthersReport, LongWrite
  <2> QED BY <2>1
<1> QED BY <1>1, <1>2

\* The counters of the history never fall back to zero, its sets only grow.
LEMMA HistoryGrows ==
  ASSUME TypeOK, [Next]_vars
  PROVE  /\ osm \subseteq osm' /\ abandoned \subseteq abandoned'
         /\ overlooked \subseteq overlooked'
         /\ \A x \in Resources : confirmations[x] > 0 => confirmations'[x] > 0
<1>1. UNCHANGED confirmations \/ Accepted
  BY DEF Next, Submitting, Gates, Loop, Post, vars, submitVars, record, StartSubmit,
         SearchGate, Skip, ClaimRepo, Claimed, Settled, EndRepos, ClaimHost, EndSubmit,
         Record, RecordRefused, Release, Fails, RateLimited, Dies, OthersReport, LongWrite
<1>2. \A x \in Resources : confirmations[x] > 0 => confirmations'[x] > 0
  BY <1>1, BumpCounts DEF Accepted, TypeOK
<1>3. CASE Gates
  BY <1>2, <1>3 DEF Gates, StartSubmit, SearchGate, record
<1>4. CASE Loop
  BY <1>2, <1>4 DEF Loop, Skip, ClaimRepo, ClaimHost, Claimed, Settled, EndRepos, EndSubmit,
                    Record, RecordRefused, Release, record
<1>5. CASE Post
  BY <1>2, <1>5 DEF Post, Accepted, Fails, RateLimited, Filed, record
<1>6. CASE Dies
  BY <1>2, <1>6 DEF Dies, Filed
<1>7. CASE \E x \in Contested : OthersReport(x)
  BY <1>2, <1>7 DEF OthersReport, record
<1>8. CASE LongWrite \/ UNCHANGED vars
  BY <1>2, <1>8 DEF LongWrite, vars, submitVars, record
<1> QED BY <1>3, <1>4, <1>5, <1>6, <1>7, <1>8 DEF Next, Submitting

\* A report reaches OSM by a POST of what is in hand, and in no other way.
LEMMA ReportStep ==
  ASSUME TypeOK, [Next]_vars
  PROVE  \/ UNCHANGED reports
         \/ /\ step = "posting" /\ step' # "posting"
            /\ queue' \subseteq queue
            /\ Filed
BY DEF Next, Submitting, Gates, Loop, Post, vars, submitVars, record, StartSubmit,
       SearchGate, Skip, ClaimRepo, Claimed, Settled, EndRepos, ClaimHost, EndSubmit,
       Record, RecordRefused, Release, Accepted, Fails, RateLimited, Dies, OthersReport,
       LongWrite

\* After the search nothing is added to what is still to be POSTed.
LEMMA ToPostShrinks ==
  ASSUME TypeOK, HandsMatchStep, [Next]_vars, ~SearchGate
  PROVE  ToPost' \subseteq ToPost
<1> USE DEF ToPost
<1>1. CASE StartSubmit
  BY <1>1 DEF StartSubmit
<1>2. ASSUME NEW x, step \in {"repos", "hosts"}, Claimed(x) PROVE ToPost' \subseteq ToPost
  BY <1>2 DEF Claimed
<1>3. CASE Settled /\ step \in {"answered", "failed"}
  BY <1>3 DEF Settled, Back
<1>4. CASE Loop
  <2>1. ASSUME NEW r \in Repos, Skip(r) PROVE ToPost' \subseteq ToPost
    BY <2>1 DEF Skip
  <2>2. ASSUME NEW r \in Repos, ClaimRepo(r) PROVE ToPost' \subseteq ToPost
    BY <1>2, <2>2 DEF ClaimRepo
  <2>3. ASSUME NEW h \in Hosts, ClaimHost(h) PROVE ToPost' \subseteq ToPost
    BY <1>2, <2>3 DEF ClaimHost
  <2>4. CASE EndRepos \/ EndSubmit
    BY <2>4 DEF EndRepos, EndSubmit
  <2>5. CASE Record \/ Release
    BY <1>3, <2>5 DEF Record, Release
  <2>6. CASE RecordRefused
    BY <1>3, <2>6 DEF RecordRefused
  <2> QED BY <1>4, <2>1, <2>2, <2>3, <2>4, <2>5, <2>6 DEF Loop
<1>5. CASE Post
  BY <1>5 DEF Post, Accepted, Fails, RateLimited
<1>6. CASE Dies
  BY <1>6 DEF Dies
<1>7. CASE UNCHANGED submitter
  BY <1>7 DEF submitter
<1> QED BY <1>1, <1>4, <1>5, <1>6, <1>7, SubmitterStep DEF Gates

-----------------------------------------------------------------------------
\* What leaves the hand was answered, was left behind, or is released.
LEMMA HandLeaves ==
  ASSUME TypeOK, HandsMatchStep, [Next]_vars
  PROVE  \/ current \subseteq current' \cup abandoned'
         \/ step = "answered"
         \/ Release
<1> USE DEF HandsMatchStep
<1>1. CASE Gates
  BY <1>1 DEF Gates, StartSubmit, SearchGate
<1>2. CASE Loop
  BY <1>2 DEF Loop, Skip, ClaimRepo, ClaimHost, Claimed, EndRepos, EndSubmit, Record,
              RecordRefused
<1>3. CASE Post
  BY <1>3 DEF Post, Accepted, Fails, RateLimited
<1>4. CASE Dies
  BY <1>4 DEF Dies
<1>5. CASE UNCHANGED submitter
  BY <1>5 DEF submitter
<1> QED BY <1>1, <1>2, <1>3, <1>4, <1>5, SubmitterStep

LEMMA AccountedStep ==
  ASSUME TypeOK, HandsMatchStep, RowsExist, AnsweredIsConfirmed, SubmittedIsAccountedFor,
         [Next]_vars
  PROVE  SubmittedIsAccountedFor'
<1> SUFFICES ASSUME NEW r \in Repos, findings'[r].submitted
             PROVE  confirmations'[r] > 0 \/ r \in current' \/ r \in abandoned'
  BY DEF SubmittedIsAccountedFor
<1>1. r \in Resources
  BY DEF Resources
<1>2. ASSUME findings[r].submitted, ~Release
      PROVE  confirmations'[r] > 0 \/ r \in current' \/ r \in abandoned'
  <2>1. confirmations[r] > 0 \/ r \in current \/ r \in abandoned
    BY <1>2 DEF SubmittedIsAccountedFor
  <2>2. r \in current /\ step = "answered" => confirmations[r] > 0
    BY DEF AnsweredIsConfirmed
  <2> QED BY <1>1, <1>2, <2>1, <2>2, HistoryGrows, HandLeaves
<1>3. ASSUME NEW q \in Repos, ClaimRepo(q)
      PROVE  (findings[r].submitted /\ ~Release) \/ r \in current'
  <2>1. findings[r].submitted \/ r = q
    BY <1>3, ClaimRepoRows
  <2> QED BY <1>3, <2>1 DEF ClaimRepo, Claimed, Release
<1>4. CASE Record
  <2>1. findings[r].submitted \/ r \in current
    BY <1>4, WithClaimRows DEF Record
  <2>2. r \in current => confirmations[r] > 0
    BY <1>4 DEF AnsweredIsConfirmed, Record
  <2>3. ~Release
    BY <1>4 DEF Record, Release
  <2> QED BY <1>1, <1>2, <2>1, <2>2, <2>3, HistoryGrows
<1>5. CASE Release
  <2>1. findings[r].submitted /\ r \notin current
    BY <1>5, WithClaimRows DEF Release, RowsExist
  <2>2. confirmations[r] > 0 \/ r \in abandoned
    BY <2>1 DEF SubmittedIsAccountedFor
  <2> QED BY <1>1, <2>2, HistoryGrows
<1> QED BY <1>2, <1>3, <1>4, <1>5, TableStep

LEMMA ReportsOnOsmStep ==
  ASSUME TypeOK, ReportsOnOsm, [Next]_vars
  PROVE  ReportsOnOsm'
<1>1. CASE UNCHANGED reports
  BY <1>1, HistoryGrows DEF ReportsOnOsm
<1>2. CASE Filed
  BY <1>2, BumpCounts DEF Filed, ReportsOnOsm, TypeOK
<1> QED BY <1>1, <1>2, ReportStep

LEMMA ToPostStep ==
  ASSUME TypeOK, HandsMatchStep, ReportsOnOsm, ToPostUnreported, [Next]_vars
  PROVE  ToPostUnreported'
<1> SUFFICES ASSUME NEW x \in ToPost', reports'[x] > 0
             PROVE  x \in overlooked'
  BY DEF ToPostUnreported
<1>1. CASE SearchGate
  <2>1. UNCHANGED reports /\ step' = "repos"
    BY <1>1 DEF SearchGate
  <2>2. x \in queue'
    BY <2>1 DEF ToPost
  <2>3. PICK erred \in SUBSET queue :
          /\ queue' = queue \ (SearchHits(erred) \cup (bus \cap Hosts))
          /\ overlooked' = overlooked \cup (erred \cap osm)
    BY <1>1 DEF SearchGate
  <2>4. x \in osm
    BY <2>1, <2>2, <2>3 DEF ReportsOnOsm, TypeOK
  <2> QED BY <2>2, <2>3, <2>4 DEF SearchHits
<1>2. CASE ~SearchGate
  <2>1. x \in ToPost
    BY <1>2, ToPostShrinks
  <2>2. x \in Resources
    BY <2>1 DEF ToPost, TypeOK
  <2>3. CASE UNCHANGED reports
    BY <2>1, <2>3, HistoryGrows DEF ToPostUnreported
  <2>4. CASE step = "posting" /\ step' # "posting" /\ queue' \subseteq queue /\ Filed
    <3>1. x \in queue
      BY <2>4 DEF ToPost
    <3>2. reports'[x] = reports[x]
      BY <2>2, <2>4, <3>1, BumpCounts DEF Filed, HandsMatchStep, TypeOK
    <3> QED BY <2>1, <3>2, HistoryGrows DEF ToPostUnreported
  <2> QED BY <2>3, <2>4, ReportStep
<1> QED BY <1>1, <1>2

LEMMA AtMostOnceStep ==
  ASSUME TypeOK, ToPostUnreported, ReportedAtMostOnce, [Next]_vars
  PROVE  ReportedAtMostOnce'
<1> SUFFICES ASSUME NEW x \in Resources PROVE reports'[x] <= 1 \/ x \in overlooked'
  BY DEF ReportedAtMostOnce
<1>1. reports[x] <= 1 \/ x \in overlooked'
  BY HistoryGrows DEF ReportedAtMostOnce
<1>2. CASE UNCHANGED reports
  BY <1>1, <1>2
<1>3. CASE step = "posting" /\ Filed
  <2>1. reports[x] \in Nat /\ reports'[x] \in Nat /\ reports'[x] <= reports[x] + 1
    BY <1>3, BumpCounts DEF Filed, TypeOK
  <2>2. CASE x \notin current
    <3>1. reports'[x] = reports[x]
      BY <1>3, <2>2, BumpCounts DEF Filed, TypeOK
    <3> QED BY <1>1, <3>1
  <2>3. CASE x \in current
    <3>1. reports[x] > 0 => x \in overlooked'
      BY <1>3, <2>3, HistoryGrows DEF ToPostUnreported, ToPost
    <3> QED BY <2>1, <3>1
  <2> QED BY <2>2, <2>3
<1> QED BY <1>2, <1>3, ReportStep

LEMMA SubmitInit == Init => SubmitInv
<1> SUFFICES ASSUME Init PROVE SubmitInv
  OBVIOUS
<1>1. \A r \in Repos : ~findings[r].submitted
  BY SubmitAssumption DEF Init
<1>2. \A x \in Resources : reports[x] = 0
  BY DEF Init
<1> QED
  BY <1>1, <1>2, SubmitTypeInit
  DEF Init, SubmitInv, HandsMatchStep, RowsExist, AnsweredIsConfirmed, ReportsOnOsm,
      SubmittedIsAccountedFor, ToPostUnreported, ToPost, ReportedAtMostOnce

LEMMA SubmitStep == SubmitInv /\ [Next]_vars => SubmitInv'
BY SubmitTypeStep, HandsMatchStepStep, RowsExistStep, AnsweredStep, AccountedStep,
   ReportsOnOsmStep, ToPostStep, AtMostOnceStep
DEF SubmitInv

(***************************************************************************)
(* mark_osm_submitted / unmark_osm_submitted: a row says "submitted" only  *)
(* with a reason, whatever is refused, rate limited, locked or killed.     *)
(***************************************************************************)
THEOREM SubmittedAlwaysAccountedFor == Spec => []SubmittedIsAccountedFor
<1>1. SubmitInv => SubmittedIsAccountedFor
  BY DEF SubmitInv
<1> QED BY <1>1, SubmitInit, SubmitStep, PTL DEF Spec

(***************************************************************************)
(* OSM gets no second report of ours on a repo or host but through a       *)
(* search that failed, in any number of runs of either mode.               *)
(***************************************************************************)
THEOREM AlwaysReportedAtMostOnce == Spec => []ReportedAtMostOnce
<1>1. SubmitInv => ReportedAtMostOnce
  BY DEF SubmitInv
<1> QED BY <1>1, SubmitInit, SubmitStep, PTL DEF Spec

-----------------------------------------------------------------------------
(***************************************************************************)
(* The batch submitter and the claim-first protocol.                       *)
(***************************************************************************)

\* What happens to the row of a resource happens to its claim.
LEMMA ClaimsOfRows ==
  ASSUME TypeOK, TypeOK'
  PROVE  /\ \A r \in Repos : r \in Claims <=> findings[r].submitted
         /\ \A h \in Hosts : h \in Claims <=> h \in ledger
         /\ \A r \in Repos : r \in Claims' <=> findings'[r].submitted
         /\ \A h \in Hosts : h \in Claims' <=> h \in ledger'
         /\ Claims \subseteq Resources /\ Claims' \subseteq Resources
BY SubmitAssumption DEF Claims, Resources, TypeOK

LEMMA BatchClaims ==
  ASSUME SubmitInv, BatchInv, TypeOK', NEW x \in Resources,
         (x \in Repos /\ ClaimRepo(x)) \/ (x \in Hosts /\ ClaimHost(x))
  PROVE  /\ x \notin Claims
         /\ Claims' = Claims \cup {x}
         /\ Told' = Told
         /\ BatchInv'
<1> USE DEF SubmitInv
<1>1. Claimed(x) /\ x \in queue /\ x \notin Claims
  BY DEF ClaimRepo, ClaimHost, Claimed, BatchInv
<1>2. Claims' = Claims \cup {x}
  <2>1. CASE ClaimRepo(x) /\ x \in Repos
    <3>1. Present(findings[x])
      BY <1>1, <2>1 DEF RowsExist
    <3> QED BY <2>1, <3>1, ClaimRepoRows, ClaimsOfRows DEF ClaimRepo, Resources
  <2>2. CASE ClaimHost(x) /\ x \in Hosts
    BY <2>2, ClaimsOfRows DEF ClaimHost, Resources
  <2> QED BY <2>1, <2>2
<1>3. Told' = Told
  BY <1>1 DEF Claimed, record, Told
<1>4. BatchInv'
  BY <1>1, <1>2, <1>3 DEF BatchInv, Claimed
<1> QED BY <1>1, <1>2, <1>3, <1>4

LEMMA BatchTells ==
  ASSUME SubmitInv, BatchInv, TypeOK', Accepted
  PROVE  /\ current # {} /\ current \subseteq Claims \ Told
         /\ Claims' = Claims
         /\ Told' = Told \cup current
         /\ BatchInv'
<1> USE DEF SubmitInv
<1>1. current # {} /\ current \subseteq Claims \ Told
  BY DEF Accepted, HandsMatchStep, BatchInv
<1>2. Claims' = Claims
  BY DEF Accepted, Claims
<1>3. Told' = Told \cup current
  <2>1. \A x \in Resources : confirmations'[x] > 0 <=> confirmations[x] > 0 \/ x \in current
    BY BumpCounts DEF Accepted, TypeOK
  <2> QED BY <2>1 DEF Told, TypeOK
<1>4. BatchInv'
  BY <1>1, <1>2, <1>3 DEF BatchInv, Accepted
<1> QED BY <1>1, <1>2, <1>3, <1>4

LEMMA BatchReleases ==
  ASSUME SubmitInv, BatchInv, TypeOK', Release
  PROVE  /\ current \cap Repos \subseteq Claims \ Told
         /\ Claims' = Claims \ (current \cap Repos)
         /\ Told' = Told
         /\ BatchInv'
<1> USE DEF SubmitInv
<1>1. current \subseteq Claims \ Told
  BY DEF Release, BatchInv
<1>2. UNCHANGED <<ledger, mode, queue, confirmations>> /\ current' = {}
  BY DEF Release, Settled, record
<1>3. Claims' = Claims \ (current \cap Repos)
  <2>1. \A r \in Repos : findings'[r].submitted <=> findings[r].submitted /\ r \notin current
    BY WithClaimRows DEF Release, RowsExist
  <2>2. \A h \in Hosts : h \notin Repos
    BY SubmitAssumption
  <2> QED BY <1>2, <2>1, <2>2, ClaimsOfRows DEF Resources
<1>4. Told' = Told
  BY <1>2 DEF Told
<1>5. BatchInv'
  BY <1>1, <1>2, <1>3, <1>4 DEF BatchInv
<1> QED BY <1>1, <1>3, <1>4, <1>5

LEMMA BatchRecords ==
  ASSUME SubmitInv, BatchInv, TypeOK', Record
  PROVE  Claims' = Claims /\ Told' = Told /\ BatchInv'
<1> USE DEF SubmitInv
<1>1. UNCHANGED <<ledger, mode, queue, confirmations>> /\ current' = {}
  BY DEF Record, Settled, record
<1>2. Claims' = Claims
  <2>1. \A r \in Repos : r \in current => findings[r].submitted
    BY ClaimsOfRows DEF BatchInv
  <2>2. \A r \in Repos : findings'[r].submitted <=> findings[r].submitted
    BY <2>1, WithClaimRows DEF Record, RowsExist
  <2> QED BY <1>1, <2>2, ClaimsOfRows DEF Resources
<1>3. Told' = Told
  BY <1>1 DEF Told
<1>4. BatchInv'
  BY <1>1, <1>2, <1>3 DEF BatchInv
<1> QED BY <1>2, <1>3, <1>4


\* What is left of a step when it is none of the above.
BatchIdle ==
  \/ StartSubmit \/ SearchGate
  \/ \E r \in Repos : Skip(r)
  \/ EndRepos \/ EndSubmit \/ RecordRefused
  \/ Fails \/ RateLimited \/ Dies
  \/ \E x \in Contested : OthersReport(x)
  \/ LongWrite
  \/ UNCHANGED vars

LEMMA BatchIdles ==
  ASSUME Modes = {"batch"}, SubmitInv, BatchInv, TypeOK', BatchIdle
  PROVE  Claims' = Claims /\ Told' = Told /\ BatchInv'
<1> USE DEF SubmitInv
<1>1. UNCHANGED <<findings, ledger, confirmations>>
  BY DEF BatchIdle, StartSubmit, SearchGate, Skip, EndRepos, EndSubmit, RecordRefused, Settled,
         Fails, RateLimited, Dies, OthersReport, LongWrite, vars, submitVars, record
<1>2. Claims' = Claims /\ Told' = Told
  BY <1>1 DEF Claims, Told
<1>3. CASE StartSubmit
  <2>1. GoldForSubmission(findings) \cap Claims = {}
    BY QueuedForSubmission, ClaimsOfRows
  <2>2. (CorroboratedC2 \ ledger) \cap Claims = {}
    BY ClaimsOfRows DEF CorroboratedC2
  <2>3. queue' \cap Claims = {}
    BY <1>3, <2>1, <2>2 DEF StartSubmit
  <2>4. mode' = "batch" /\ current' = current /\ step' = "gate"
    BY <1>3 DEF StartSubmit
  <2> QED BY <1>2, <2>3, <2>4 DEF BatchInv
<1>4. CASE ~StartSubmit
  <2>1. mode' = mode /\ queue' \subseteq queue /\ current' \subseteq current
    BY <1>4
    DEF BatchIdle, SearchGate, Skip, EndRepos, EndSubmit, RecordRefused, Settled, Fails,
        RateLimited, Dies, OthersReport, LongWrite, vars, submitVars, submitter
  <2>2. step' \in {"posting", "failed"} => step \in {"posting", "failed"}
    BY <1>4
    DEF BatchInv, BatchIdle, SearchGate, Skip, EndRepos, EndSubmit, RecordRefused, Settled,
        Back, Fails, RateLimited, Dies, OthersReport, LongWrite, vars, submitVars, submitter
  <2> QED BY <1>2, <2>1, <2>2 DEF BatchInv
<1> QED BY <1>3, <1>4

LEMMA ProtocolStep ==
  ASSUME NEW S \in SUBSET Resources, S # {},
         Reporting!Claim(S) \/ Reporting!Tell(S) \/ Reporting!Release(S)
  PROVE  Reporting!Next
<1>1. S \in (SUBSET Resources) \ {{}}
  OBVIOUS
<1> QED BY <1>1 DEF Reporting!Next

\* Every step of the batch submitter claims, tells or releases what the
\* protocol allows, or touches neither a claim nor an acknowledgement.
LEMMA BatchStep ==
  ASSUME Modes = {"batch"}, SubmitInv, BatchInv, [Next]_vars
  PROVE  /\ BatchInv'
         /\ [Reporting!Next]_<<Claims, Told>>
<1>1. TypeOK' /\ TypeOK
  BY SubmitTypeStep DEF SubmitInv
<1>2. ASSUME NEW x \in Resources,
             (x \in Repos /\ ClaimRepo(x)) \/ (x \in Hosts /\ ClaimHost(x))
      PROVE  BatchInv' /\ Reporting!Next
  <2>1. BatchInv' /\ Reporting!Claim({x})
    BY <1>1, <1>2, BatchClaims DEF Reporting!Claim, Told
  <2> QED BY <2>1, ProtocolStep
<1>3. CASE Accepted
  <2> PICK S : S = current
    OBVIOUS
  <2>1. BatchInv' /\ Reporting!Tell(S)
    BY <1>1, <1>3, BatchTells DEF Reporting!Tell, Told
  <2>2. S \in SUBSET Resources /\ S # {}
    BY <1>1, <1>3, BatchTells DEF TypeOK
  <2>3. Reporting!Next
    BY <2>1, <2>2, ProtocolStep
  <2> QED BY <2>1, <2>3
<1>4. CASE Release
  <2> PICK S : S = current \cap Repos
    OBVIOUS
  <2>1. BatchInv'
    BY <1>1, <1>4, BatchReleases
  <2>2. CASE S = {}
    BY <1>1, <1>4, <2>1, <2>2, BatchReleases
  <2>3. CASE S # {}
    <3>1. Reporting!Release(S)
      BY <1>1, <1>4, BatchReleases DEF Reporting!Release, Told
    <3>2. S \in SUBSET Resources
      BY DEF Resources
    <3>3. Reporting!Next
      BY <2>3, <3>1, <3>2, ProtocolStep
    <3> QED BY <2>1, <3>3
  <2> QED BY <2>2, <2>3
<1>5. CASE Record
  BY <1>1, <1>5, BatchRecords
<1>6. CASE BatchIdle
  BY <1>1, <1>6, BatchIdles
<1>7. ASSUME NEW r \in Repos, ClaimRepo(r) PROVE BatchInv' /\ Reporting!Next
  <2>1. r \in Resources
    BY DEF Resources
  <2> QED BY <1>2, <1>7, <2>1
<1>8. ASSUME NEW h \in Hosts, ClaimHost(h) PROVE BatchInv' /\ Reporting!Next
  <2>1. h \in Resources
    BY DEF Resources
  <2> QED BY <1>2, <1>8, <2>1
<1> QED
  BY <1>3, <1>4, <1>5, <1>6, <1>7, <1>8 DEF Next, Submitting, Gates, Loop, Post, BatchIdle

LEMMA BatchInit == Init => BatchInv /\ Reporting!Init
<1> SUFFICES ASSUME Init PROVE BatchInv /\ Reporting!Init
  OBVIOUS
<1>1. Claims = {}
  BY SubmitAssumption DEF Init, Claims
<1>2. Told = {}
  BY DEF Init, Told
<1> QED BY <1>1, <1>2 DEF Init, BatchInv, Reporting!Init, Told

(***************************************************************************)
(* osm_submit.py, "claim-first (at-most-once)": with the batch submitter   *)
(* the claims in the rows and in the ledger of hosts, and the answers of   *)
(* OSM, are a run of the claim-first protocol; what OSM acknowledged is    *)
(* never claimed, POSTed or released again.                                *)
(***************************************************************************)
THEOREM BatchIsClaimFirst ==
  ASSUME Modes = {"batch"}
  PROVE  Spec => ImplementsClaimFirst
<1>1. SubmitInv /\ BatchInv /\ [Next]_vars => BatchInv' /\ [Reporting!Next]_<<Claims, Told>>
  BY BatchStep
<1>2. [Reporting!Next]_<<Claims, Told>> <=>
        [Reporting!Next]_<<Claims, {x \in Resources : confirmations[x] > 0}>>
  BY DEF Told
<1> QED
  BY <1>1, <1>2, BatchInit, SubmitInit, SubmitStep, PTL
  DEF Spec, ImplementsClaimFirst, Reporting!Spec
=============================================================================
