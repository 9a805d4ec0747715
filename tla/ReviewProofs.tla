---------------------------- MODULE ReviewProofs ----------------------------
(***************************************************************************)
(* Proofs about the commands that revise verdicts: what a sweep has read   *)
(* as unproven still is when the sweep writes, whatever the analyst and a  *)
(* revalidation do in between, for any table.                              *)
(***************************************************************************)
EXTENDS Review, TLAPS

\* A revalidation that is over leaves nothing behind; one that is under way
\* writes, with a new tier, the evidence the row has still.
AtRest == ~revalidating => todo = {} /\ pending = [r \in Repos |-> "none"]

SeenIsCurrent ==
  \A r \in Repos :
    r \in todo \/ pending[r] # "none" => seen[r].evidence = findings[r].evidence

\* SweepStillStands is not inductive: an approval takes a rejection back.  What
\* lasts is the reason the row was read for, which no verdict changes.
Unsupported(r, row) ==
  r \in KnownGood \/ (row.method # "redteam_lineage" /\ row.evidence # "code")

SweepUnsupported ==
  \A r \in sweep : /\ findings[r].status \in {"confirmed", "validated", "rejected"}
                   /\ Unsupported(r, findings[r])

\* The part of it that programs beside these commands leave alone.
RevalidationInv ==
  /\ TypeOK
  /\ AtRest
  /\ SeenIsCurrent

ReviewInv == RevalidationInv /\ SweepUnsupported

-----------------------------------------------------------------------------
\* The columns that no verdict and no revalidation touches.
SameFinding(row, next) ==
  /\ next.method = row.method
  /\ next.hash = row.hash
  /\ next.delivered = row.delivered
  /\ next.submitted = row.submitted

\* A verdict changes the status of a row that exists, and nothing else.
LEMMA WithStatusRow ==
  ASSUME NEW row \in Row, NEW status \in Statuses
  PROVE  /\ WithStatus(row, status) \in Row
         /\ SameFinding(row, WithStatus(row, status))
         /\ WithStatus(row, status).tier = row.tier
         /\ WithStatus(row, status).evidence = row.evidence
         /\ Present(row) => WithStatus(row, status).status = status
         /\ ~Present(row) => WithStatus(row, status) = row
BY DEF WithStatus, SameFinding, Present, Row

\* What the transaction of a revalidation makes of a row.
LEMMA RevisedRow ==
  ASSUME TypeOK, NEW r \in Repos
  PROVE  /\ Revised(r) \in Row
         /\ SameFinding(findings[r], Revised(r))
         /\ Revised(r).status \in {findings[r].status, "rejected"}
         /\ Revised(r).status # findings[r].status => Present(findings[r])
         /\ Revised(r).tier \in {findings[r].tier, "auto", "review"}
         /\ Revised(r).tier # findings[r].tier => pending[r] # "none"
         /\ SeenIsCurrent => Revised(r).evidence = findings[r].evidence
<1>1. findings[r] \in Row
  BY DEF TypeOK
<1>2. pending[r] \in {"none", "rejected", "auto", "review"} /\ seen[r] \in Payload
  BY DEF TypeOK
<1>3. CASE pending[r] = "none"
  BY <1>1, <1>3 DEF Revised, SameFinding
<1>4. CASE pending[r] = "rejected"
  <2>1. Revised(r) = WithStatus(findings[r], "rejected")
    BY <1>4 DEF Revised
  <2> QED BY <1>1, <2>1, WithStatusRow DEF Statuses
<1>5. CASE pending[r] \in {"auto", "review"}
  <2>1. Revised(r) = [findings[r] EXCEPT !.tier = pending[r], !.evidence = seen[r].evidence]
    BY <1>5 DEF Revised
  <2>2. SeenIsCurrent => seen[r].evidence = findings[r].evidence
    BY <1>5 DEF SeenIsCurrent
  <2>3. pending[r] \in Tiers /\ seen[r].evidence \in Evidence
    BY <1>2, <1>5 DEF Tiers, Payload
  <2> QED BY <1>1, <1>5, <2>1, <2>2, <2>3 DEF Row, SameFinding
<1> QED BY <1>2, <1>3, <1>4, <1>5

(***************************************************************************)
(* What any step may do to the table: a verdict on one row, the sweep's    *)
(* rejections, or the commit of a revalidation.  In each the rows keep the *)
(* method and the evidence a sweep judges them by.                         *)
(***************************************************************************)
LEMMA TableSteps ==
  ASSUME [Next]_vars
  PROVE  \/ UNCHANGED findings \/ RejectUnproven \/ CommitRevalidation
         \/ \E r \in Repos : Approve(r) \/ Reject(r)
BY DEF Next, Reconcile, ReadRegistry, Revalidate, BeginRevalidation, Rescan, Demote,
       Retier, Keep, RevalidationDies, vars

LEMMA TableStep ==
  ASSUME TypeOK, [Next]_vars
  PROVE  /\ findings' \in [Repos -> Row]
         /\ \A r \in Repos :
              /\ SameFinding(findings[r], findings'[r])
              /\ findings'[r].status \in {findings[r].status, "validated", "rejected"}
              /\ findings'[r].status # findings[r].status => Present(findings[r])
              /\ findings'[r].tier \in {findings[r].tier, "auto", "review"}
              /\ findings'[r].tier # findings[r].tier => pending[r] # "none"
              /\ SeenIsCurrent => findings'[r].evidence = findings[r].evidence
<1> DEFINE Kept ==
      /\ findings' \in [Repos -> Row]
      /\ \A r \in Repos :
           /\ SameFinding(findings[r], findings'[r])
           /\ findings'[r].status \in {findings[r].status, "validated", "rejected"}
           /\ findings'[r].status # findings[r].status => Present(findings[r])
           /\ findings'[r].tier \in {findings[r].tier, "auto", "review"}
           /\ findings'[r].tier # findings[r].tier => pending[r] # "none"
           /\ SeenIsCurrent => findings'[r].evidence = findings[r].evidence
<1>1. findings \in [Repos -> Row] /\ \A r \in Repos : findings[r] \in Row
  BY DEF TypeOK
<1>2. CASE UNCHANGED findings
  BY <1>1, <1>2 DEF SameFinding
<1>3. ASSUME NEW r \in Repos, NEW status \in {"validated", "rejected"},
             SetFindingStatus(r, status)
      PROVE  Kept
  <2>1. findings' = [findings EXCEPT ![r] = WithStatus(findings[r], status)]
    BY <1>3 DEF SetFindingStatus
  <2>2. Present(findings[r]) /\ status \in Statuses
    BY <1>3 DEF SetFindingStatus, Statuses
  <2>3. \A q \in Repos : SameFinding(findings[q], findings[q])
    BY DEF SameFinding
  <2> QED BY <1>1, <2>1, <2>2, <2>3, WithStatusRow
<1>4. CASE RejectUnproven
  <2>1. \A q \in Repos : SameFinding(findings[q], findings[q])
    BY DEF SameFinding
  <2> QED BY <1>1, <1>4, <2>1, WithStatusRow DEF RejectUnproven, Statuses
<1>5. CASE CommitRevalidation
  <2>1. \A r \in Repos : findings'[r] = Revised(r)
    BY <1>5 DEF CommitRevalidation
  <2>2. findings' \in [Repos -> Row]
    BY <1>5, RevisedRow DEF CommitRevalidation
  <2> QED BY <2>1, <2>2, RevisedRow
<1> QED BY <1>2, <1>3, <1>4, <1>5, TableSteps DEF Approve, Reject

\* Of the steps that revise a verdict only an approval revives a rejected row.
LEMMA OnlyApproveRevives ==
  ASSUME TypeOK, [Next]_vars, NEW r \in Repos,
         findings[r].status = "rejected", findings'[r].status # "rejected"
  PROVE  Approve(r)
<1>1. findings[r] \in Row
  BY DEF TypeOK
<1>2. ASSUME NEW q \in Repos, NEW status \in {"validated", "rejected"},
             SetFindingStatus(q, status)
      PROVE  q = r /\ status = "validated"
  <2>1. findings' = [findings EXCEPT ![q] = WithStatus(findings[q], status)]
    BY <1>2 DEF SetFindingStatus
  <2>2. q = r
    BY <2>1 DEF TypeOK
  <2>3. findings'[r].status = status
    BY <1>1, <1>2, <2>1, <2>2, WithStatusRow DEF SetFindingStatus, TypeOK, Statuses
  <2> QED BY <2>2, <2>3
<1>3. CASE RejectUnproven
  <2>1. findings'[r] \in {findings[r], WithStatus(findings[r], "rejected")}
    BY <1>3 DEF RejectUnproven
  <2>2. WithStatus(findings[r], "rejected").status = "rejected"
    BY <1>1, WithStatusRow DEF Present, Statuses
  <2> QED BY <2>1, <2>2
<1>4. CASE CommitRevalidation
  <2>1. findings'[r] = Revised(r)
    BY <1>4 DEF CommitRevalidation
  <2> QED BY <2>1, RevisedRow
<1> QED BY <1>2, <1>3, <1>4, TableSteps DEF Approve, Reject

-----------------------------------------------------------------------------
LEMMA ReviewTypeStep ==
  ASSUME TypeOK, [Next]_vars
  PROVE  TypeOK'
<1> USE DEF TypeOK, reviewVars, revalidation
<1>1. findings' \in [Repos -> Row]
  BY TableStep
<1>2. [r \in Repos |-> NoPayload] \in [Repos -> Payload]
  BY DEF Payload, NoPayload, Tiers, Evidence
<1>3. ASSUME NEW r \in Repos, Approve(r) \/ Reject(r) PROVE TypeOK'
  BY <1>1, <1>3 DEF Approve, Reject, SetFindingStatus
<1>4. CASE Reconcile
  BY <1>1, <1>4 DEF Reconcile, ReadRegistry, RejectUnproven
<1>5. CASE BeginRevalidation
  <2>1. \A r \in Repos : [tier |-> findings[r].tier, evidence |-> findings[r].evidence] \in Payload
    BY DEF Payload, Row
  <2>2. seen' \in [Repos -> Payload]
    BY <1>5, <2>1 DEF BeginRevalidation
  <2> QED BY <1>1, <1>5, <2>2 DEF BeginRevalidation
<1>6. ASSUME NEW r \in Repos, Rescan(r) PROVE TypeOK'
  BY <1>1, <1>6 DEF Rescan, Demote, Retier, Keep, Rescanned
<1>7. CASE EndRevalidation
  BY <1>1, <1>2, <1>7 DEF EndRevalidation
<1>8. CASE UNCHANGED vars
  BY <1>1, <1>8 DEF vars
<1> QED
  BY <1>3, <1>4, <1>5, <1>6, <1>7, <1>8
  DEF Next, Revalidate, CommitRevalidation, RevalidationDies

LEMMA AtRestStep ==
  ASSUME RevalidationInv, [Next]_vars
  PROVE  AtRest'
<1> USE DEF AtRest, RevalidationInv
<1>1. CASE UNCHANGED revalidation
  BY <1>1 DEF revalidation
<1>2. CASE BeginRevalidation
  BY <1>2 DEF BeginRevalidation
<1>3. ASSUME NEW r \in Repos, Rescan(r) PROVE AtRest'
  BY <1>3 DEF Rescan, Demote, Retier, Keep, Rescanned
<1>4. CASE EndRevalidation
  BY <1>4 DEF EndRevalidation
<1> QED
  BY <1>1, <1>2, <1>3, <1>4
  DEF Next, Approve, Reject, SetFindingStatus, Reconcile, ReadRegistry, RejectUnproven,
      Revalidate, CommitRevalidation, RevalidationDies, vars, reviewVars

LEMMA SeenStep ==
  ASSUME RevalidationInv, [Next]_vars
  PROVE  SeenIsCurrent'
<1> SUFFICES ASSUME NEW q \in Repos, q \in todo' \/ pending'[q] # "none"
             PROVE  seen'[q].evidence = findings[q].evidence
  BY TableStep DEF SeenIsCurrent, RevalidationInv
<1> USE DEF SeenIsCurrent, RevalidationInv
<1>1. CASE UNCHANGED revalidation
  BY <1>1 DEF revalidation
<1>2. CASE BeginRevalidation
  BY <1>2 DEF BeginRevalidation
<1>3. ASSUME NEW r \in Repos, Rescan(r) PROVE seen'[q].evidence = findings[q].evidence
  <2>1. r \in todo /\ todo' = todo \ {r} /\ seen' = seen
    BY <1>3 DEF Rescan, Demote, Retier, Keep, Rescanned
  <2>2. pending'[q] = pending[q] \/ q = r
    BY <1>3 DEF Rescan, Demote, Retier, Keep, TypeOK
  <2> QED BY <2>1, <2>2
<1>4. CASE EndRevalidation
  BY <1>4 DEF EndRevalidation
<1> QED
  BY <1>1, <1>2, <1>3, <1>4
  DEF Next, Approve, Reject, SetFindingStatus, Reconcile, ReadRegistry, RejectUnproven,
      Revalidate, CommitRevalidation, RevalidationDies, vars, reviewVars

\* A revalidation takes up confirmed rows only, and none found by lineage.
LEMMA TouchedStep ==
  ASSUME RevalidationInv, [Next]_vars, NEW r \in Repos,
         r \in todo' \/ pending'[r] # "none"
  PROVE  \/ r \in todo \/ pending[r] # "none"
         \/ findings[r].status = "confirmed" /\ findings[r].method # "redteam_lineage"
<1> USE DEF RevalidationInv, TypeOK
<1>1. CASE UNCHANGED revalidation
  BY <1>1 DEF revalidation
<1>2. CASE BeginRevalidation
  BY <1>2 DEF BeginRevalidation, Revalidatable
<1>3. ASSUME NEW q \in Repos, Rescan(q)
      PROVE  r \in todo \/ pending[r] # "none"
  BY <1>3 DEF Rescan, Demote, Retier, Keep, Rescanned
<1>4. CASE EndRevalidation
  BY <1>4 DEF EndRevalidation
<1> QED
  BY <1>1, <1>2, <1>3, <1>4
  DEF Next, Approve, Reject, SetFindingStatus, Reconcile, ReadRegistry, RejectUnproven,
      Revalidate, CommitRevalidation, RevalidationDies, vars, reviewVars

LEMMA SweepStep ==
  ASSUME ReviewInv, [Next]_vars
  PROVE  SweepUnsupported'
<1> SUFFICES ASSUME NEW r \in Repos, r \in sweep'
             PROVE  /\ findings[r].status \in {"confirmed", "validated", "rejected"}
                    /\ Unsupported(r, findings[r])
  BY TableStep, ReviewTypeStep
  DEF SweepUnsupported, Unsupported, SameFinding, ReviewInv, RevalidationInv, TypeOK
<1>1. r \in sweep \/ ReadRegistry
  BY DEF Next, Approve, Reject, SetFindingStatus, Reconcile, RejectUnproven, Revalidate,
         BeginRevalidation, Rescan, Demote, Retier, Keep, CommitRevalidation,
         RevalidationDies, EndRevalidation, vars, reviewVars
<1>2. CASE r \in sweep
  BY <1>2 DEF ReviewInv, SweepUnsupported
<1>3. CASE ReadRegistry
  BY <1>3 DEF ReadRegistry, Unproven, Unsupported, Confirmed
<1> QED BY <1>1, <1>2, <1>3

LEMMA ReviewInit == Init => ReviewInv
<1> SUFFICES ASSUME Init PROVE ReviewInv
  OBVIOUS
<1>1. findings \in [Repos -> Row]
  BY SeedAssumption DEF Init
<1>2. [r \in Repos |-> NoPayload] \in [Repos -> Payload]
  BY DEF Payload, NoPayload, Tiers, Evidence
<1> QED
  BY <1>1, <1>2
  DEF Init, Quiet, ReviewInv, RevalidationInv, TypeOK, AtRest, SeenIsCurrent, SweepUnsupported

LEMMA RevalidationStep == RevalidationInv /\ [Next]_vars => RevalidationInv'
BY ReviewTypeStep, AtRestStep, SeenStep DEF RevalidationInv

LEMMA ReviewStep == ReviewInv /\ [Next]_vars => ReviewInv'
BY RevalidationStep, SweepStep DEF ReviewInv

\* Every reachable state of the commands that revise verdicts is well typed.
THEOREM ReviewTypeCorrect == Spec => []TypeOK
<1>1. ReviewInv => TypeOK
  BY DEF ReviewInv, RevalidationInv
<1> QED BY <1>1, ReviewInit, ReviewStep, PTL DEF Spec

(***************************************************************************)
(* reconcile_registry reads outside its transaction and rejects by name:   *)
(* yet no approval, rejection or committed revalidation in between makes   *)
(* one of its rejections undeserved.                                       *)
(***************************************************************************)
THEOREM SweepAlwaysStands == Spec => []SweepStillStands
<1>1. ReviewInv => SweepStillStands
  BY DEF ReviewInv, SweepUnsupported, SweepStillStands, Unsupported, Unproven, Confirmed
<1> QED BY <1>1, ReviewInit, ReviewStep, PTL DEF Spec
=============================================================================
