-------------------------------- MODULE Hunt --------------------------------
(***************************************************************************)
(* "git-warden hunt" (hunt.hunt): discovery, the Tier-1 screen, the Tier-2 *)
(* scan and the delivery of gold to the Discord review feed, all through   *)
(* the repo_findings table.                                                *)
(*                                                                         *)
(* A hunt is a process that takes hours.  What it keeps in memory is lost  *)
(* when it dies; each write to the table is a committed transaction of its *)
(* own.  The workflow of .github/workflows/run.yml runs one hunt at a time *)
(* (its concurrency group); nothing stops an operator from running one     *)
(* beside another on the same database.  "Serial" selects which.           *)
(***************************************************************************)
EXTENDS Findings, Naturals, FiniteSets

CONSTANTS
  Hunts,           \* invocations that may be alive at the same time
  Serial,          \* TRUE: a hunt starts only when no other one is running
  Options,         \* the command lines used: [scan, gold, resume : BOOLEAN]
  DiscoverableAs,  \* DiscoverableAs[r]: the methods whose source surfaces r
  Pinned,          \* the repos of the pinned red-team tools themselves
  ToolNamed,       \* repos whose name matches a pinned red-team tool
  SecurityTools,   \* repos whose README says they are security tooling
  Defensive,       \* repos named like a scanner, sample set or catalog
  Verdicts,        \* what a confirming scan may say: [tier, evidence]
  Buckets,         \* sets of repos sharing an IOC or a code hash
  OsmLive,         \* repos only the live OSM feed knows of
  MaxPosts,        \* where the message counters saturate
  MaxCrashes       \* how many hunts may die

VARIABLES
  findings,        \* the repo_findings table
  writeLock,       \* another process holds SQLite's write lock
  pc,              \* where each hunt is
  opts,            \* its command line
  known,           \* its snapshot of the repos already tracked
  work,            \* its candidates, and how far each one has come
  rows,            \* the gold rows it read and has not claimed yet
  cluster,         \* the cluster it has claimed and is posting
  acked,           \* acked[r]: messages about r Discord acknowledged
  shown,           \* shown[r]: messages about r that appeared in the feed
  lost,            \* repos in a cluster whose claimant died
  crashes          \* hunts that have died

local == <<pc, opts, known, work, rows, cluster>>
feed  == <<acked, shown, lost>>
vars  == <<findings, writeLock, local, feed, crashes>>

ASSUME HuntAssumption ==
  /\ Serial \in BOOLEAN
  /\ Options \subseteq [scan : BOOLEAN, gold : BOOLEAN, resume : BOOLEAN]
  /\ DiscoverableAs \in [Repos -> SUBSET Methods]
  /\ Verdicts \subseteq [tier : {"auto", "review"}, evidence : Evidence]
  /\ Pinned \subseteq Repos
  /\ OsmLive \subseteq Repos
  /\ MaxPosts \in Nat \ {0}
  /\ MaxCrashes \in Nat

\* The methods whose candidates reach Tier-2 on the discovery signal alone.
IntelMethods == {"ioc_search", "package_ref", "package_source", "malicious_owner",
                 "actor_account", "osm_repository", "signature_match"}

\* What a hunt knows of a candidate: once found, by which method.
Item ==
  {i \in [stage  : {"none", "found", "queued", "scanning"},
          method : Methods \cup {"none"},
          status : {"candidate", "screened"},
          tool   : BOOLEAN] : i.stage # "none" => i.method # "none"}

NoItem == [stage |-> "none", method |-> "none", status |-> "candidate",
           tool |-> FALSE]

NoWork == [r \in Repos |-> NoItem]

Running == {"discover", "tier1", "tier2", "gold", "deliver", "posting", "release"}

Active(h) == pc[h] \in Running

TypeOK ==
  /\ findings \in [Repos -> Row]
  /\ writeLock \in BOOLEAN
  /\ pc \in [Hunts -> Running \cup {"idle", "completed", "crashed"}]
  /\ opts \in [Hunts -> [scan : BOOLEAN, gold : BOOLEAN, resume : BOOLEAN]]
  /\ known \in [Hunts -> SUBSET Repos]
  /\ work \in [Hunts -> [Repos -> Item]]
  /\ rows \in [Hunts -> SUBSET Repos]
  /\ cluster \in [Hunts -> SUBSET Repos]
  /\ acked \in [Repos -> Nat]
  /\ shown \in [Repos -> Nat]
  /\ lost \in SUBSET Repos
  /\ crashes \in Nat

NoOptions == [scan |-> FALSE, gold |-> FALSE, resume |-> FALSE]

Init ==
  /\ findings = [r \in Repos |-> NoRow]
  /\ writeLock = FALSE
  /\ pc = [h \in Hunts |-> "idle"]
  /\ opts = [h \in Hunts |-> NoOptions]
  /\ known = [h \in Hunts |-> {}]
  /\ work = [h \in Hunts |-> NoWork]
  /\ rows = [h \in Hunts |-> {}]
  /\ cluster = [h \in Hunts |-> {}]
  /\ acked = [r \in Repos |-> 0]
  /\ shown = [r \in Repos |-> 0]
  /\ lost = {}
  /\ crashes = 0

GoTo(h, there) == pc' = [pc EXCEPT ![h] = there]

-----------------------------------------------------------------------------
(***************************************************************************)
(* Start and discovery.                                                    *)
(***************************************************************************)

\* start_run, then the one read of the repos already tracked.
StartRun(h) ==
  /\ pc[h] \in {"idle", "completed", "crashed"}
  /\ ~writeLock
  /\ Serial => \A g \in Hunts : ~Active(g)
  /\ \E o \in Options : opts' = [opts EXCEPT ![h] = o]
  /\ known' = [known EXCEPT ![h] = KnownRepoNames(findings) \cup Pinned]
  /\ GoTo(h, "discover")
  /\ UNCHANGED <<findings, writeLock, work, rows, cluster, feed, crashes>>

\* Which sources would offer r now: all but the OSM targets skip the repos
\* of the snapshot; the owner pivot follows the owners branded by the table.
Surfaces(h, r, m) ==
  /\ m \in DiscoverableAs[r]
  /\ m = "osm_repository" => r \in OsmRepoTargets(findings)
  /\ m # "osm_repository" => r \notin known[h]
  /\ m = "malicious_owner" => Owner[r] \in MaliciousRepoOwners(findings)
  /\ m \in {"osm_repository", "news_mention"} => r \notin Defensive

\* candidates.setdefault: the first source to name a repo keeps it.
Discover(h, r, m) ==
  /\ pc[h] = "discover"
  /\ work[h][r].stage = "none"
  /\ Surfaces(h, r, m)
  /\ work' = [work EXCEPT ![h][r] = [NoItem EXCEPT !.stage = "found", !.method = m]]
  /\ UNCHANGED <<findings, writeLock, pc, opts, known, rows, cluster, feed, crashes>>

\* A candidate cut by --limit is one this run has not discovered.
EndDiscovery(h) ==
  /\ pc[h] = "discover"
  /\ GoTo(h, "tier1")
  /\ UNCHANGED <<findings, writeLock, opts, known, work, rows, cluster, feed, crashes>>

-----------------------------------------------------------------------------
(***************************************************************************)
(* Tier-1: README and name triage, one upsert per candidate.               *)
(***************************************************************************)

\* scored: the name and README score alone sends it to Tier-2.
Advances(r, m, scored) ==
  /\ r \notin KnownGood
  /\ scored \/ (m \in IntelMethods /\ r \notin Defensive)

Save(r, f) == findings' = [findings EXCEPT ![r] = Upsert(@, f)]

Tier1(h, r) ==
  LET item == work[h][r] IN
  /\ pc[h] = "tier1"
  /\ item.stage = "found"
  /\ ~writeLock
  /\ \E scored \in BOOLEAN, high \in BOOLEAN, tool \in BOOLEAN :
       LET advances == Advances(r, item.method, scored)
           status   == IF advances THEN "screened" ELSE "candidate"
       IN /\ tool => r \in SecurityTools
          /\ Save(r, Unscanned(status, item.method))
          /\ work' = [work EXCEPT ![h][r] =
                        IF opts[h].scan /\ (advances \/ high)
                        THEN [item EXCEPT !.stage = "queued", !.status = status,
                                          !.tool = tool]
                        ELSE NoItem]
  /\ UNCHANGED <<writeLock, pc, opts, known, rows, cluster, feed, crashes>>

\* Without --gold there is nothing left to deliver.
AfterTier2(h) == IF opts[h].gold THEN "gold" ELSE "deliver"

EndTier1(h) ==
  /\ pc[h] = "tier1"
  /\ \A r \in Repos : work[h][r].stage # "found"
  /\ GoTo(h, IF opts[h].scan THEN "tier2" ELSE AfterTier2(h))
  /\ UNCHANGED <<findings, writeLock, opts, known, work, rows, cluster, feed, crashes>>

-----------------------------------------------------------------------------
(***************************************************************************)
(* Tier-2: the gates before the clone, the scan, and its verdict.          *)
(***************************************************************************)
Forget(h, r) == work' = [work EXCEPT ![h][r] = NoItem]

\* The loop takes up one repo at a time.
Next2(h, r) ==
  /\ pc[h] = "tier2"
  /\ work[h][r].stage = "queued"
  /\ \A q \in Repos : work[h][q].stage # "scanning"

\* --resume skips a repo that already has a code hash.
HasHash(h, r) == opts[h].resume /\ findings[r].hash

ResumeSkip(h, r) ==
  /\ Next2(h, r)
  /\ HasHash(h, r)
  /\ Forget(h, r)
  /\ UNCHANGED <<findings, writeLock, pc, opts, known, rows, cluster, feed, crashes>>

\* The verdicts reached without a clone: a well-known-legit owner, a
\* security tool, an unmodified mirror of a red-team tool, red-team tooling
\* that cannot be compared, and a repo named like a pinned tool.
GateVerdicts(r, item) ==
  IF r \in KnownGood THEN {"rejected"}
  ELSE IF item.tool THEN {"screened"}
  ELSE IF item.method = "redteam_lineage" THEN {"rejected", "screened"}
  ELSE IF r \in ToolNamed THEN {"screened"}
  ELSE {}

\* Mutant: the name of a pinned tool and a legit owner stop nothing.
ScannableByAnyName(r, item) == ~item.tool

\* Whether some outcome of the gates lets the clone go ahead; for a fork it
\* does when GitHub could compare it and it is ahead of its upstream.
Scannable(r, item) ==
  /\ r \notin KnownGood
  /\ ~item.tool
  /\ item.method = "redteam_lineage" \/ r \notin ToolNamed

Gate(h, r) ==
  LET item == work[h][r] IN
  /\ Next2(h, r)
  /\ ~HasHash(h, r)
  /\ ~writeLock
  /\ \E status \in GateVerdicts(r, item) : Save(r, Unscanned(status, item.method))
  /\ Forget(h, r)
  /\ UNCHANGED <<writeLock, pc, opts, known, rows, cluster, feed, crashes>>

BeginScan(h, r) ==
  LET item == work[h][r] IN
  /\ Next2(h, r)
  /\ ~HasHash(h, r)
  /\ Scannable(r, item)
  /\ work' = [work EXCEPT ![h][r].stage = "scanning"]
  /\ UNCHANGED <<findings, writeLock, pc, opts, known, rows, cluster, feed, crashes>>

Scanning(h, r) ==
  /\ pc[h] = "tier2"
  /\ work[h][r].stage = "scanning"

\* No Docker, clone failed, scanner raised, or a near miss: no write.
ScanDrops(h, r) ==
  /\ Scanning(h, r)
  /\ Forget(h, r)
  /\ UNCHANGED <<findings, writeLock, pc, opts, known, rows, cluster, feed, crashes>>

\* Not confirmed, but it publishes a compromised package version: saved
\* with the Tier-1 status and the Tier-1 payload.
ScanSpreads(h, r) ==
  LET item == work[h][r] IN
  /\ Scanning(h, r)
  /\ ~writeLock
  /\ Save(r, Unscanned(item.status, item.method))
  /\ Forget(h, r)
  /\ UNCHANGED <<writeLock, pc, opts, known, rows, cluster, feed, crashes>>

\* Confirmed; a red-team fork confirmed below the auto tier stays screened.
ScanConfirms(h, r) ==
  LET item == work[h][r] IN
  /\ Scanning(h, r)
  /\ ~writeLock
  /\ \E v \in Verdicts :
       Save(r, IF item.method = "redteam_lineage" /\ v.tier # "auto"
               THEN Unscanned("screened", item.method)
               ELSE ScanConfirmed(item.method, v.tier, v.evidence))
  /\ Forget(h, r)
  /\ UNCHANGED <<writeLock, pc, opts, known, rows, cluster, feed, crashes>>

EndTier2(h) ==
  /\ pc[h] = "tier2"
  /\ \A r \in Repos : work[h][r].stage = "none"
  /\ GoTo(h, AfterTier2(h))
  /\ UNCHANGED <<findings, writeLock, opts, known, work, rows, cluster, feed, crashes>>

-----------------------------------------------------------------------------
(***************************************************************************)
(* Gold delivery: read once, then claim, post and perhaps release one      *)
(* cluster at a time.                                                      *)
(***************************************************************************)

\* The live re-check is best effort: a failed fetch filters nothing.
ReadGold(h) ==
  /\ pc[h] = "gold"
  /\ \E live \in {OsmLive, {}} :
       rows' = [rows EXCEPT ![h] =
                  {r \in UndeliveredGold(findings) \ live : findings[r].tier = "auto"}]
  /\ GoTo(h, "deliver")
  /\ UNCHANGED <<findings, writeLock, opts, known, work, cluster, feed, crashes>>

\* cluster_findings: the connected components of the rows, two rows being
\* connected when they share an owner, an IOC or a code hash.
Related == Buckets \cup {{q \in Repos : Owner[q] = Owner[r]} : r \in Repos}

Closed(c, read) == \A b \in Related : b \cap c # {} => b \cap read \subseteq c

Clusters(read) ==
  {c \in SUBSET read :
     /\ c # {}
     /\ Closed(c, read)
     /\ \A d \in SUBSET c : d # {} /\ Closed(d, read) => d = c}

\* set_gold_delivered(names, True): an UPDATE that asks nothing of the rows.
Claim(h, c) ==
  /\ pc[h] = "deliver"
  /\ c \in Clusters(rows[h])
  /\ ~writeLock
  /\ findings' = WithGold(findings, c, TRUE)
  /\ rows' = [rows EXCEPT ![h] = @ \ c]
  /\ cluster' = [cluster EXCEPT ![h] = c]
  /\ GoTo(h, "posting")
  /\ UNCHANGED <<writeLock, opts, known, work, feed, crashes>>

Bump(count, names) ==
  [r \in Repos |-> IF r \in names /\ count[r] < MaxPosts THEN count[r] + 1 ELSE count[r]]

\* Mutant: the claim is released whether or not the post went through.
PostOkReleases(h) ==
  /\ pc[h] = "posting"
  /\ acked' = Bump(acked, cluster[h])
  /\ shown' = Bump(shown, cluster[h])
  /\ GoTo(h, "release")
  /\ UNCHANGED <<findings, writeLock, opts, known, work, rows, cluster, lost, crashes>>

\* post_discord returned True.
PostOk(h) ==
  /\ pc[h] = "posting"
  /\ acked' = Bump(acked, cluster[h])
  /\ shown' = Bump(shown, cluster[h])
  /\ cluster' = [cluster EXCEPT ![h] = {}]
  /\ GoTo(h, "deliver")
  /\ UNCHANGED <<findings, writeLock, opts, known, work, rows, lost, crashes>>

\* It returned False: nothing was posted, or the message was accepted and
\* the answer did not arrive within the timeout.
PostFails(h) ==
  /\ pc[h] = "posting"
  /\ shown' \in {shown, Bump(shown, cluster[h])}
  /\ GoTo(h, "release")
  /\ UNCHANGED <<findings, writeLock, opts, known, work, rows, cluster, acked, lost, crashes>>

\* Mutant: the claim is not released after a failed post.
ReleaseForgets(h) ==
  /\ pc[h] = "release"
  /\ cluster' = [cluster EXCEPT ![h] = {}]
  /\ GoTo(h, "deliver")
  /\ UNCHANGED <<findings, writeLock, opts, known, work, rows, feed, crashes>>

\* set_gold_delivered(names, False), as unconditional as the claim.
Release(h) ==
  /\ pc[h] = "release"
  /\ ~writeLock
  /\ findings' = WithGold(findings, cluster[h], FALSE)
  /\ cluster' = [cluster EXCEPT ![h] = {}]
  /\ GoTo(h, "deliver")
  /\ UNCHANGED <<writeLock, opts, known, work, rows, feed, crashes>>

FinishRun(h) ==
  /\ pc[h] = "deliver"
  /\ rows[h] = {}
  /\ ~writeLock
  /\ known' = [known EXCEPT ![h] = {}]
  /\ GoTo(h, "completed")
  /\ UNCHANGED <<findings, writeLock, opts, work, rows, cluster, feed, crashes>>

\* The process dies (killed, rate limited, "database is locked"): memory is
\* gone, the runs row stays "running", a message under way may still arrive.
Crash(h) ==
  /\ Active(h)
  /\ crashes < MaxCrashes
  /\ crashes' = crashes + 1
  /\ shown' \in {shown} \cup
       (IF pc[h] = "posting" THEN {Bump(shown, cluster[h])} ELSE {})
  /\ lost' = lost \cup cluster[h]
  /\ GoTo(h, "crashed")
  /\ known' = [known EXCEPT ![h] = {}]
  /\ work' = [work EXCEPT ![h] = NoWork]
  /\ rows' = [rows EXCEPT ![h] = {}]
  /\ cluster' = [cluster EXCEPT ![h] = {}]
  /\ UNCHANGED <<findings, writeLock, opts, acked>>

-----------------------------------------------------------------------------
Screen(h) ==
  \/ StartRun(h)
  \/ \E r \in Repos, m \in Methods : Discover(h, r, m)
  \/ EndDiscovery(h)
  \/ \E r \in Repos : Tier1(h, r)
  \/ EndTier1(h)

Scan(h) ==
  \/ \E r \in Repos :
       \/ ResumeSkip(h, r)
       \/ Gate(h, r)
       \/ BeginScan(h, r)
       \/ ScanDrops(h, r)
       \/ ScanSpreads(h, r)
       \/ ScanConfirms(h, r)
  \/ EndTier2(h)

Deliver(h) ==
  \/ ReadGold(h)
  \/ \E c \in SUBSET Repos : Claim(h, c)
  \/ PostOk(h)
  \/ PostFails(h)
  \/ Release(h)
  \/ FinishRun(h)

Progress(h) == Screen(h) \/ Scan(h) \/ Deliver(h)

Next == \E h \in Hunts : Progress(h) \/ Crash(h)

Spec == Init /\ [][Next]_vars

(***************************************************************************)
(* A hunt that is alive keeps going and the operator starts the next one;  *)
(* Discord accepts a message if it is offered one again and again.         *)
(***************************************************************************)
Fairness == \A h \in Hunts : WF_vars(Progress(h)) /\ SF_vars(PostOk(h))

FairSpec == Spec /\ Fairness

-----------------------------------------------------------------------------
(***************************************************************************)
(* Safety.                                                                 *)
(***************************************************************************)

\* Discord acknowledges at most one message about a repo, whatever crashes
\* and failed posts come between (the claim-first delivery of hunt()).
AckedAtMostOnce == \A r \in Repos : acked[r] <= 1

\* delivered_gold tells the truth: it is set on exactly the repos whose
\* message was acknowledged, is being posted, or died with its claimant.
DeliveredIsAccountedFor ==
  \A r \in Repos :
    findings[r].delivered <=>
      acked[r] > 0 \/ r \in lost \/ \E h \in Hunts : r \in cluster[h]

\* A confirmation, with its tier, evidence and code hash, outlives every
\* later step of every hunt: a repo once confirmed is not screened again and
\* its payload is not overwritten by a finding that was never scanned.
ConfirmationKept ==
  [][\A r \in Repos :
       findings[r].status = "confirmed" =>
         /\ findings'[r].status = "confirmed"
         /\ findings'[r].tier = findings[r].tier
         /\ findings'[r].evidence = findings[r].evidence
         /\ findings'[r].hash]_vars

\* Also when hunts overlap and work from stale snapshots: a confirmed row has
\* the tier that gates gold and submission, and a code hash.
ConfirmedIsTiered ==
  \A r \in Repos :
    findings[r].status = "confirmed" => findings[r].tier # "none" /\ findings[r].hash

\* Nothing reaches the feed that OSM already reports or that was first seen
\* by association, lineage or OSM itself, even when overlapping hunts found
\* the repo by different methods.
OnlyNovelEvidenceShown ==
  \A r \in Repos :
    shown[r] > 0 => /\ r \notin OsmArtifacts
                    /\ findings[r].method \in
                         {"ioc_search", "package_ref", "package_source",
                          "signature_match", "news_mention"}

\* A rejected repo stays rejected, whichever hunt sees it again.
RejectionKept ==
  [][\A r \in Repos : findings[r].status = "rejected" =>
                         findings'[r].status = "rejected"]_vars

\* The gates of Tier-2 hold whatever Tier-1 scored and whichever source found
\* the repo: no well-known-legit owner, no repo named like a pinned tool
\* outside the lineage path, and no lineage fork below the auto tier.
GatedNeverConfirmed ==
  \A r \in Repos :
    findings[r].status = "confirmed" =>
      /\ r \notin KnownGood
      /\ IF findings[r].method = "redteam_lineage"
         THEN findings[r].tier = "auto"
         ELSE r \notin ToolNamed

\* malicious_repo_owners: the owner pivot starts from an owner with a repo
\* found by some method other than lineage and the pivot itself.
PivotHasSeed ==
  \A r \in Repos :
    findings[r].method = "malicious_owner" =>
      \E q \in Repos :
        /\ Owner[q] = Owner[r]
        /\ findings[q].method \notin {"none", "redteam_lineage", "malicious_owner"}

(***************************************************************************)
(* Delivery implements the claim-first protocol: the claims are the rows   *)
(* with delivered_gold set, and Discord's acknowledgement is the telling.  *)
(***************************************************************************)
Delivery == INSTANCE ClaimFirst WITH
  Items   <- Repos,
  claimed <- {r \in Repos : findings[r].delivered},
  told    <- {r \in Repos : acked[r] > 0}

ImplementsClaimFirst == Delivery!Spec

(***************************************************************************)
(* Liveness.                                                               *)
(***************************************************************************)
Wanted(r) ==
  Gold(r, findings[r]) /\ findings[r].tier = "auto" /\ r \notin OsmLive

\* A gold finding reaches the feed, through failed posts and later runs,
\* unless its claimant died with the claim: "it retries next run".
GoldEventuallyAcked ==
  \A r \in Repos : Wanted(r) ~> (acked[r] > 0 \/ r \in lost \/ ~Wanted(r))

\* A resumed sweep continues where it stopped: what Tier-1 queued is scanned
\* in the end, if not by the run that queued it then by a later one.
QueuedIsScanned ==
  \A r \in Repos :
    (\E h \in Hunts : work[h][r].stage = "queued")
      ~> (\E h \in Hunts : work[h][r].stage = "scanning")

=============================================================================
