------------------------------- MODULE Review -------------------------------
(***************************************************************************)
(* The commands that revise verdicts already in repo_findings:             *)
(* "git-warden review --approve / --reject" (one UPDATE each), "review     *)
(* --reconcile" (a read, then a transaction of rejections) and "git-warden *)
(* revalidate", which re-clones every unsubmitted confirmation and writes  *)
(* its new verdicts inside one open transaction.                           *)
(*                                                                         *)
(* sqlite3 opens that transaction at the first UPDATE, so from then until  *)
(* the commit, for as long as the re-clones take, revalidate holds the     *)
(* write lock and nobody else sees what it has written ("pending").        *)
(***************************************************************************)
EXTENDS Findings

CONSTANT Seeds     \* the rows a table may start with

ASSUME SeedAssumption == Seeds \subseteq Row

VARIABLES
  findings,        \* the repo_findings table
  writeLock,       \* revalidate holds SQLite's write lock
  sweep,           \* what a reconcile has read and is about to reject
  revalidating,    \* a revalidation is under way
  todo,            \* the rows it has still to re-scan
  seen,            \* the payload [tier, evidence] of each as it was read
  pending          \* what its transaction has written so far

revalidation == <<revalidating, todo, seen, pending>>
reviewVars   == <<sweep, revalidation>>
vars         == <<findings, writeLock, reviewVars>>

Payload == [tier : Tiers, evidence : Evidence]

NoPayload == [tier |-> "none", evidence |-> "none"]

TypeOK ==
  /\ findings \in [Repos -> Row]
  /\ writeLock \in BOOLEAN
  /\ sweep \in SUBSET Repos
  /\ revalidating \in BOOLEAN
  /\ todo \in SUBSET Repos
  /\ seen \in [Repos -> Payload]
  /\ pending \in [Repos -> {"none", "rejected", "auto", "review"}]

Quiet ==
  /\ revalidating = FALSE
  /\ todo = {}
  /\ seen = [r \in Repos |-> NoPayload]
  /\ pending = [r \in Repos |-> "none"]

Init ==
  /\ findings \in [Repos -> Seeds]
  /\ writeLock = FALSE
  /\ sweep = {}
  /\ Quiet

-----------------------------------------------------------------------------
(***************************************************************************)
(* The analyst.  Both verdicts apply to any row, whatever its status.      *)
(***************************************************************************)
SetFindingStatus(r, status) ==
  /\ Present(findings[r])
  /\ ~writeLock
  /\ findings' = [findings EXCEPT ![r] = WithStatus(@, status)]
  /\ UNCHANGED <<writeLock, reviewVars>>

\* Mutant: a status the table does not know.
ApproveByVerb(r) == SetFindingStatus(r, "approved")

Approve(r) == SetFindingStatus(r, "validated")

Reject(r) == SetFindingStatus(r, "rejected")

-----------------------------------------------------------------------------
(***************************************************************************)
(* reconcile_registry: the SELECT is outside the transaction of UPDATEs,   *)
(* which reject by name and look at nothing else.                          *)
(***************************************************************************)
ReadRegistry ==
  /\ sweep = {}
  /\ sweep' = {r \in Repos : Unproven(r, findings[r])}
  /\ UNCHANGED <<findings, writeLock, revalidation>>

\* Mutant: the sweep leaves what the analyst kept.
RejectConfirmedOnly ==
  /\ sweep # {}
  /\ ~writeLock
  /\ findings' = [r \in Repos |->
                    IF r \in sweep /\ findings[r].status = "confirmed"
                    THEN WithStatus(findings[r], "rejected") ELSE findings[r]]
  /\ sweep' = {}
  /\ UNCHANGED <<writeLock, revalidation>>

RejectUnproven ==
  /\ sweep # {}
  /\ ~writeLock
  /\ findings' = [r \in Repos |-> IF r \in sweep THEN WithStatus(findings[r], "rejected")
                                                 ELSE findings[r]]
  /\ sweep' = {}
  /\ UNCHANGED <<writeLock, revalidation>>

-----------------------------------------------------------------------------
(***************************************************************************)
(* revalidate_findings.                                                    *)
(***************************************************************************)

\* --limit re-scans only some of the rows.
BeginRevalidation ==
  /\ ~revalidating
  /\ revalidating' = TRUE
  /\ todo' \in SUBSET {r \in Repos : Revalidatable(findings[r])}
  /\ seen' = [r \in Repos |-> [tier     |-> findings[r].tier,
                               evidence |-> findings[r].evidence]]
  /\ UNCHANGED <<findings, writeLock, sweep, pending>>

Rescanned(r) ==
  /\ revalidating
  /\ r \in todo
  /\ todo' = todo \ {r}

\* The repo does not confirm any more, or its README reads as security tooling.
Demote(r) ==
  /\ Rescanned(r)
  /\ pending' = [pending EXCEPT ![r] = "rejected"]
  /\ writeLock' = TRUE
  /\ UNCHANGED <<findings, sweep, revalidating, seen>>

\* Confirmed with another tier than the one read: the payload is rewritten.
Retier(r, tier) ==
  /\ Rescanned(r)
  /\ tier # seen[r].tier
  /\ pending' = [pending EXCEPT ![r] = tier]
  /\ writeLock' = TRUE
  /\ UNCHANGED <<findings, sweep, revalidating, seen>>

Keep(r) ==
  /\ Rescanned(r)
  /\ seen[r].tier \in {"auto", "review"}
  /\ UNCHANGED <<findings, writeLock, sweep, revalidating, seen, pending>>

\* Mutants: a new tier comes with the evidence of the new scan; with no
\* evidence at all; or in a row written anew, without its delivery columns.
RevisedProves(r) ==
  CASE pending[r] = "none"     -> findings[r]
    [] pending[r] = "rejected" -> WithStatus(findings[r], "rejected")
    [] OTHER -> [findings[r] EXCEPT !.tier = pending[r], !.evidence = "code"]

RevisedUnproves(r) ==
  CASE pending[r] = "none"     -> findings[r]
    [] pending[r] = "rejected" -> WithStatus(findings[r], "rejected")
    [] OTHER -> [findings[r] EXCEPT !.tier = pending[r], !.evidence = "none"]

RevisedAnew(r) ==
  CASE pending[r] = "none"     -> findings[r]
    [] pending[r] = "rejected" -> WithStatus(findings[r], "rejected")
    [] OTHER -> [findings[r] EXCEPT !.tier = pending[r], !.delivered = FALSE,
                                    !.submitted = FALSE]

\* A row after the UPDATEs of the transaction: a demotion looks at nothing of
\* the row, a new tier comes with the evidence as it was read at the start.
Revised(r) ==
  CASE pending[r] = "none"     -> findings[r]
    [] pending[r] = "rejected" -> WithStatus(findings[r], "rejected")
    [] OTHER -> [findings[r] EXCEPT !.tier = pending[r], !.evidence = seen[r].evidence]

EndRevalidation ==
  /\ revalidating' = FALSE
  /\ todo' = {}
  /\ seen' = [r \in Repos |-> NoPayload]
  /\ pending' = [r \in Repos |-> "none"]
  /\ writeLock' = FALSE
  /\ UNCHANGED sweep

CommitRevalidation ==
  /\ revalidating
  /\ todo = {}
  /\ findings' = [r \in Repos |-> Revised(r)]
  /\ EndRevalidation

\* A clone raises or the process is killed: the transaction is rolled back.
RevalidationDies ==
  /\ revalidating
  /\ EndRevalidation
  /\ UNCHANGED findings

Rescan(r) ==
  \/ Demote(r)
  \/ \E tier \in {"auto", "review"} : Retier(r, tier)
  \/ Keep(r)

Revalidate ==
  \/ BeginRevalidation
  \/ \E r \in Repos : Rescan(r)
  \/ CommitRevalidation
  \/ RevalidationDies

Reconcile == ReadRegistry \/ RejectUnproven

Next ==
  \/ \E r \in Repos : Approve(r) \/ Reject(r)
  \/ Reconcile
  \/ Revalidate

Spec == Init /\ [][Next]_vars

(***************************************************************************)
(* The workflow reconciles on every run, and a run that is refused the     *)
(* write lock is followed by another; a revalidation comes to an end.      *)
(***************************************************************************)
Fairness ==
  /\ WF_vars(ReadRegistry)
  /\ SF_vars(RejectUnproven)
  /\ WF_vars(CommitRevalidation)
  /\ \A r \in Repos : WF_vars(Rescan(r))

FairSpec == Spec /\ Fairness

-----------------------------------------------------------------------------
\* What a sweep is about to reject by name still deserves it when it does:
\* between its read and its writes neither the analyst nor the commit of a
\* revalidation turns an unproven confirmation into a proven one.
SweepStillStands ==
  \A r \in sweep : findings[r].status = "rejected" \/ Unproven(r, findings[r])

\* reconcile_registry: "so the wall self-heals".  A published row whose
\* confirmation does not stand leaves the wall, even when the analyst or a
\* revalidation rewrites it between the sweep's read and its writes.
WallSelfHeals ==
  \A r \in Repos :
    Published(findings[r]) /\ Unproven(r, findings[r])
      ~> ~(Published(findings[r]) /\ Unproven(r, findings[r]))

=============================================================================
