------------------------------ MODULE Registry ------------------------------
(***************************************************************************)
(* The programs that share one database, side by side: hunts, the verdicts *)
(* of the analyst, the registry sweep and revalidation, and the submitter. *)
(* They meet in repo_findings and in SQLite's single write lock; none of   *)
(* them knows of the others.                                               *)
(***************************************************************************)
EXTENDS Findings, Naturals, FiniteSets

CONSTANTS
  Hunts, Serial, Options, DiscoverableAs, Pinned, ToolNamed, SecurityTools,
  Defensive, Verdicts, Buckets, OsmLive, MaxPosts, MaxCrashes,
  Hosts, EvidenceHosts, LearnedHosts, Truncations, MinCorroboration, Modes,
  Contested, Gone, SearchFails, LongWrites, MaxTries, MaxReports, MaxDeaths

VARIABLES
  findings, writeLock,
  pc, opts, known, work, rows, cluster, acked, shown, lost, crashes,
  sweep, revalidating, todo, seen, pending,
  ledger, mode, step, queue, current, tries, osm, bus, reports, confirmations,
  abandoned, overlooked, deaths

\* What the three programs assume of their constants.
ASSUME RegistryAssumption ==
  /\ Serial \in BOOLEAN
  /\ Options \subseteq [scan : BOOLEAN, gold : BOOLEAN, resume : BOOLEAN]
  /\ DiscoverableAs \in [Repos -> SUBSET Methods]
  /\ Verdicts \subseteq [tier : {"auto", "review"}, evidence : Evidence]
  /\ Pinned \subseteq Repos
  /\ OsmLive \subseteq Repos
  /\ MaxPosts \in Nat \ {0}
  /\ MaxCrashes \in Nat
  /\ Repos \cap Hosts = {}
  /\ EvidenceHosts \in [Repos -> SUBSET Hosts]
  /\ LearnedHosts \in [Repos -> SUBSET Hosts]
  /\ Truncations \in [Hosts -> SUBSET Hosts]
  /\ Modes \subseteq {"batch", "wizard"}
  /\ Contested \subseteq Repos \cup Hosts
  /\ SearchFails \in BOOLEAN
  /\ LongWrites \in BOOLEAN
  /\ MinCorroboration \in Nat
  /\ MaxTries \in Nat \ {0}
  /\ MaxReports \in Nat \ {0}
  /\ MaxDeaths \in Nat

\* The table starts empty: every row in it is one that a hunt inserted.
Seeds == {NoRow}

Hunting  == INSTANCE Hunt
Revising == INSTANCE Review
Sending  == INSTANCE Submit

huntVars   == <<pc, opts, known, work, rows, cluster, acked, shown, lost, crashes>>
reviewVars == <<sweep, revalidating, todo, seen, pending>>
submitVars == <<ledger, mode, step, queue, current, tries, osm, bus, reports,
                confirmations, abandoned, overlooked, deaths>>
vars       == <<findings, writeLock, huntVars, reviewVars, submitVars>>

TypeOK == Hunting!TypeOK /\ Revising!TypeOK /\ Sending!TypeOK

Init == Hunting!Init /\ Revising!Init /\ Sending!Init

HuntStep   == Hunting!Next /\ UNCHANGED <<reviewVars, submitVars>>
ReviewStep == Revising!Next /\ UNCHANGED <<huntVars, submitVars>>
SubmitStep == Sending!Next /\ UNCHANGED <<huntVars, reviewVars>>

Next == HuntStep \/ ReviewStep \/ SubmitStep

Spec == Init /\ [][Next]_vars

-----------------------------------------------------------------------------
\* delivered_gold and submitted_osm survive whatever the other programs write
\* to the row meanwhile, also when revalidate holds the write lock while an
\* answer of OSM is to be recorded: the feed stays claim-first, and OSM gets no
\* second report that its search could have prevented.
BothFeedsKeepTheirClaims ==
  /\ Hunting!ImplementsClaimFirst
  /\ [](Sending!SubmittedIsAccountedFor /\ Sending!ReportedAtMostOnce)

\* What proves a confirmation is not lost while its verdict stands or is
\* revised: neither a hunt nor a stale revalidation rewrites the evidence of
\* a confirmed row, drops its tier, or sends it back to candidate.
ProofKept ==
  [][\A r \in Repos :
       findings[r].status = "confirmed" =>
         /\ findings'[r].evidence = findings[r].evidence
         /\ findings'[r].tier # "none"
         /\ findings'[r].status \in {"confirmed", "validated", "rejected"}]_vars

\* upsert_finding: "never revive a manually REJECTED finding".  Nor does any
\* of the other programs; only the analyst's --approve does.
OnlyAnalystRevives ==
  [][\A r \in Repos :
       findings[r].status = "rejected" /\ findings'[r].status # "rejected"
         => Revising!Approve(r)]_vars

=============================================================================
