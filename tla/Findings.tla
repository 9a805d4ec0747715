------------------------------ MODULE Findings ------------------------------
(***************************************************************************)
(* The rows of the repo_findings table (db/schema.sql) and what the        *)
(* statements of db/database.py and osm_submit.py do to one row or select  *)
(* from the table.  This module has no state of its own: Hunt, Review and  *)
(* Submit hold the table in their variable "findings" and change it only   *)
(* through the operators defined here.                                     *)
(*                                                                         *)
(* Of a row's columns the model keeps those a decision depends on:         *)
(*   status     the analyst/pipeline verdict ("absent": there is no row)   *)
(*   method     detection_method, written by the first INSERT only         *)
(*   tier       raw_payload.confidence ("none": the key is missing)        *)
(*   evidence   raw_payload.bash_findings: empty, only in security-data    *)
(*              files (a scanner's own rule set), or real code             *)
(*   hash       whether code_hash is set                                   *)
(*   delivered  delivered_gold                                             *)
(*   submitted  submitted_osm                                              *)
(***************************************************************************)

CONSTANTS
  Repos,          \* normalized owner/name keys of the table
  Owner,          \* Owner[r]: the account part of the key
  OsmArtifacts,   \* repos OSM already reports, from the ingested artifacts
  KnownGood       \* repos whose owner is in config.KNOWN_GOOD_OWNERS

ASSUME WorldAssumption ==
  /\ OsmArtifacts \subseteq Repos
  /\ KnownGood \subseteq Repos
  /\ \A r \in KnownGood, q \in Repos : Owner[q] = Owner[r] => q \in KnownGood

Statuses == {"candidate", "screened", "confirmed", "validated", "rejected"}

Methods == {"ioc_search", "package_ref", "package_source", "signature_match",
            "news_mention", "redteam_lineage", "actor_account",
            "malicious_owner", "osm_repository"}

Tiers == {"none", "auto", "review"}

Evidence == {"none", "data", "code"}

Row == [status    : Statuses \cup {"absent"},
        method    : Methods \cup {"none"},
        tier      : Tiers,
        evidence  : Evidence,
        hash      : BOOLEAN,
        delivered : BOOLEAN,
        submitted : BOOLEAN]

NoRow == [status |-> "absent", method |-> "none", tier |-> "none",
          evidence |-> "none", hash |-> FALSE, delivered |-> FALSE,
          submitted |-> FALSE]

Present(row) == row.status # "absent"

Confirmed(row) == row.status \in {"confirmed", "validated"}

-----------------------------------------------------------------------------
(***************************************************************************)
(* The finding a hunt holds in memory (models.RepoFinding) and hands to    *)
(* upsert_finding: before a scan confirms it, it carries no tier, no       *)
(* evidence and no code hash.                                              *)
(***************************************************************************)
Finding == [status : Statuses, method : Methods, tier : Tiers,
            evidence : Evidence, hash : BOOLEAN]

Unscanned(status, method) ==
  [status |-> status, method |-> method, tier |-> "none",
   evidence |-> "none", hash |-> FALSE]

\* Mutant: the confidence tier is not written to the payload.
ScanConfirmedUntiered(method, tier, evidence) ==
  [status |-> "confirmed", method |-> method, tier |-> "none",
   evidence |-> evidence, hash |-> TRUE]

ScanConfirmed(method, tier, evidence) ==
  [status |-> "confirmed", method |-> method, tier |-> tier,
   evidence |-> evidence, hash |-> TRUE]

\* Mutant: the delivery columns, added at run time, are missing.
InsertedBare(f) == f

(***************************************************************************)
(* upsert_finding.  A new key is inserted whole.  On conflict the payload  *)
(* (tier, evidence) is replaced even by an empty one, a stored code hash   *)
(* survives a finding without one, and only "rejected" is kept against the *)
(* incoming status.  detection_method and the delivery columns stay.       *)
(***************************************************************************)
Inserted(f) ==
  [NoRow EXCEPT !.status = f.status, !.method = f.method, !.tier = f.tier,
                !.evidence = f.evidence, !.hash = f.hash]

\* Mutant: the incoming status wins on every conflict.
UpsertRevives(row, f) ==
  IF ~Present(row)
  THEN Inserted(f)
  ELSE [row EXCEPT !.status = f.status, !.tier = f.tier,
                   !.evidence = f.evidence, !.hash = @ \/ f.hash]

Upsert(row, f) ==
  IF ~Present(row)
  THEN Inserted(f)
  ELSE [row EXCEPT !.status   = IF row.status = "rejected" THEN @ ELSE f.status,
                   !.tier     = f.tier,
                   !.evidence = f.evidence,
                   !.hash     = @ \/ f.hash]

\* set_finding_status: an UPDATE, so it touches an existing row only.
WithStatus(row, status) ==
  IF Present(row) THEN [row EXCEPT !.status = status] ELSE row

\* set_gold_delivered: one UPDATE over all the rows of a cluster.
WithGold(table, names, flag) ==
  [r \in Repos |->
     IF r \in names /\ Present(table[r])
     THEN [table[r] EXCEPT !.delivered = flag] ELSE table[r]]

\* mark_osm_submitted and unmark_osm_submitted, also UPDATEs.
WithSubmitted(row, flag) ==
  IF Present(row) THEN [row EXCEPT !.submitted = flag] ELSE row

-----------------------------------------------------------------------------
(***************************************************************************)
(* The queries.                                                            *)
(***************************************************************************)

\* Mutant: the repos already in the table are not skipped.
OsmNamesOnly(table) == OsmArtifacts

\* known_repo_names: OSM repo artifacts and every existing finding.
KnownRepoNames(table) == OsmArtifacts \cup {r \in Repos : Present(table[r])}

\* osm_repo_targets: OSM repo artifacts that have no finding yet.
OsmRepoTargets(table) == {r \in OsmArtifacts : ~Present(table[r])}

\* Mutant: any confirmation brands its owner.
AnySeedsOwnerPivot(row) == Confirmed(row) /\ row.tier # "review"

\* malicious_repo_owners: a missing tier counts as auto here.
SeedsOwnerPivot(row) ==
  /\ Confirmed(row)
  /\ row.method \notin {"redteam_lineage", "malicious_owner"}
  /\ row.tier # "review"

MaliciousRepoOwners(table) ==
  {Owner[r] : r \in {q \in Repos : SeedsOwnerPivot(table[q])}}

\* Mutant: findings by association are delivered too.
GoldByAnyMethod(r, row) == row.status = "confirmed" /\ r \notin OsmArtifacts

\* undelivered_gold: novel, confirmed, not yet delivered, not by association.
Gold(r, row) ==
  /\ row.status = "confirmed"
  /\ row.method \notin {"osm_repository", "redteam_lineage",
                        "malicious_owner", "actor_account"}
  /\ r \notin OsmArtifacts

\* Mutant: delivered_gold is not looked at.
AllGold(table) == {r \in Repos : Gold(r, table[r])}

UndeliveredGold(table) == {r \in Repos : Gold(r, table[r]) /\ ~table[r].delivered}

\* gold_for_submission with the default min_confidence ("auto"); a row
\* without a tier counts as review (finding_confidence).
Submittable(r, row) ==
  /\ Confirmed(row)
  /\ row.method \notin {"osm_repository", "redteam_lineage"}
  /\ r \notin OsmArtifacts
  /\ row.evidence # "none"
  /\ row.tier = "auto"

\* Mutant: submitted_osm is not looked at.
AllForSubmission(table) == {r \in Repos : Submittable(r, table[r])}

GoldForSubmission(table) ==
  {r \in Repos : Submittable(r, table[r]) /\ ~table[r].submitted}

\* reconcile_registry: a confirmation that does not stand any more.
Unproven(r, row) ==
  /\ Confirmed(row)
  /\ \/ r \in KnownGood
     \/ row.method # "redteam_lineage" /\ row.evidence # "code"

\* revalidate_findings: confirmed, unsubmitted, not OSM's and not lineage.
Revalidatable(row) ==
  /\ row.status = "confirmed"
  /\ ~row.submitted
  /\ row.method \notin {"osm_repository", "redteam_lineage"}

\* published_findings, the public Wall of Shame: a missing tier is kept.
Published(row) ==
  /\ Confirmed(row)
  /\ row.method \notin {"redteam_lineage", "malicious_owner", "actor_account"}
  /\ row.tier # "review"

=============================================================================
