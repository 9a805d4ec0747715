# git_warden, verified

A TLA+ development kept beside git_warden: modules that model the program, TLC
configurations that check them on small instances, and TLAPS proofs of what
matters most. Paths such as `hunt.py:933` are under `src/src/git_warden/`
unless they say otherwise; `PROJECT.json` maps every definition to its lines.

## 1. The system

git_warden hunts for repositories on GitHub that distribute malware. It collects
intelligence (actors, indicators), searches GitHub by it, scans what it finds in
a sandbox, delivers confirmed findings ("gold") to a Discord review feed, lets
an analyst overrule verdicts, re-scans old confirmations, and reports findings to
OpenSourceMalware (OSM). Everything meets in one SQLite database in WAL mode: any
number of readers, one write transaction at a time, a busy timeout of 30 s.

### Inventory

| Component | State | Operations | Talks to |
|---|---|---|---|
| Registry of findings (`db/database.py`, `db/schema.sql`) | `repo_findings`: status, method, payload (tier, evidence), code hash, `delivered_gold`, `submitted_osm` | `upsert_finding`, `set_finding_status`, `set_gold_delivered`, `mark/unmark_osm_submitted`, the selections | everything below |
| Hunt (`hunt.py`) | memory of a run: tracked repos, candidates, Tier-2 queue, gold rows | discovery, Tier-1, Tier-2 gates and scan, delivery, `--resume` | registry, GitHub, OSM feed, Discord, sandbox |
| Gold delivery (`hunt.py:925-960`, `notify.py`) | the cluster in hand | read, cluster, claim, post, release | registry, Discord |
| Review (`cli.py:488-525`) | none | `--approve`, `--reject`, `--reconcile` | registry |
| Revalidation (`hunt.py:991-1050`) | rows read at the start; an open transaction | re-scan, demote, re-tier, commit | registry (and its write lock) |
| OSM submission (`osm_submit.py`) | queue, claim in hand; `osm_submitted_domains` | query-latest, search, claim, POST with 429 retry, record, release; wizard | registry, OSM, bus |
| Ingestion (`pipeline.py`, `validator.py`) | actors, artifacts, observations, runs | collect, store, corroborate, finish | feeds, self-healing calls |
| Self-healing calls (`orchestration/`) | attempt counters, alert list | call, classify, retry, alert | feeds |
| Code search (`scanning/discovery.py`, `github/client.py`) | the persisted cursor of each query, the pacing interval | page, advance, back off, retry | GitHub |
| Other discovery sources (`scanning/actor_search.py`, `lineage.py`, `newsdiscovery.py`, ...) | none | one query each; compare a fork with its upstream; mine a confirmed repo | GitHub, npm, PyPI, news |
| Tier-1 (`scanning/screening.py`) | none | score a repo's metadata | hunt |
| Tier-2 (`scanning/tier2.py`, scanners) | none | scan a clone, confirm, tier | sandbox |
| Sandbox (`scanning/sandbox_runner.py`, `sandbox_entry.py`) | containers of scans, trees cloned on the host | start, wait, remove; clone, remove | hunt, Docker |
| Learned IOCs (`hunt.py:897-918`, `scanning/ioc.py`, `signatures.py`) | `learned_iocs` | mine a confirmed clone, search for what was mined | hunt |
| Correlation (`correlate.py`, `attribution.py`, `actors.py`, `dprk.py`) | `actor_key` of a finding | group by loader, stamp, assess | registry, submission |
| Lockfile audit, package spread (`lockfile_audit.py`, `package_spread.py`) | none | match pinned versions against intel | Tier-2 |
| Shared bus (`intel_exchange.py`) | a JSON-lines file shared with the tool knorr | append, compact, read | submission, discovery |
| Search telemetry (`github/telemetry.py`) | a JSON-lines file | append, trim | dashboard |
| Artifacts, dashboard (`artifacts.py`, `dashboard/`) | none | render selections | registry, read only |
| Configuration (`config.py`, `env.py`, ...) | none | | |

### What is hard, and what makes each part correct

* **Delivery and reporting** must not tell the outside world twice, whatever dies,
  times out or is refused in between, and must in the end tell it once. Both use
  "claim first": set a column, talk, clear the column if talking failed. The claim
  is an UPDATE that looks at nothing; everything rests on who reads when.
* **The upsert** has four conflict rules for the columns of one row. Several
  sources find the same repo, and runs overlap: a confirmation must not lose its
  proof, a rejection must not be revived, and a repo must not slip past the gate
  of one method because another method met it first.
* **Snapshots**: a hunt excludes the repos it read hours ago, a revalidation
  writes verdicts on rows it read hours ago, a submitter works through a queue it
  read hours ago, the sweep rejects by names it read outside its transaction.
* **Crashes** lose a run's memory and keep its committed writes; what Tier-1
  committed, or the search cursor passed, is never looked at again.
* **The owner pivot** feeds on confirmations: it must not chain on itself.
* **The write lock**: revalidation holds it from its first verdict to its last
  clone, and the other programs see "database is locked".
* **Retries** (search, POSTs, feeds) must be bounded, and paced within bounds.
* **Two ways to scan**: in a container, which is told the name of a repo and nothing
  else, or on the host. They should agree, and neither may leave malware behind.
* **Learning compounds**: a confirmation teaches terms that find the next repo, and an
  attribution spreads to the repos that carry the same loader, from snapshots that are
  stale when they are used. A claim of who is behind a repo must not feed on itself.
* **The bus** is compacted under a lock that the other tool does not know.
* **Ingestion** must not let a computed status overwrite a rejection by hand,
  and must finish its run's row as failed exactly when nothing came in.

`PROJECT.json` lists each hazard at its line with the properties that cover it.

## 2. The modules

```
Findings      one row: every statement and selection over repo_findings
  |-- Hunt        hunts: discovery, Tier-1, Tier-2, gold delivery    --> ClaimFirst
  |-- Review      analyst, registry sweep, revalidation
  |-- Submit      reports to OSM, batch and wizard                   --> ClaimFirst
  `-- Registry    Hunt, Review and Submit over one table and one write lock
SearchCursor  code search by hunts that share its cursor
Ingest        ingestion, self-healing calls, the validator
StaticScan    what Tier-2 reads in a clone and concludes
  `-- Attribution   who is behind a repo, by the hits saved with it
        `-- Campaign     scan, learn, correlate: from one repo to the next
SharedLog     the breadcrumb file, shared with another tool
ClaimFirst    what the claim-first protocol promises (abstract)
HuntProofs, ReviewProofs, SubmitProofs    theorems about one program alone
RegistryProofs                            theorems about the programs together,
                                          from instances of the three
SearchProofs, IngestProofs, CampaignProofs, SharedLogProofs
                                          theorems about the module of that name
                                          (SearchProofs: SearchCursor)
MC*           instances for TLC
```

**Findings** has no state: a row is a record of the columns a decision depends on,
and each SQL statement is an operator on a row (`Upsert`, `WithStatus`, `WithGold`,
`WithSubmitted`) or a set of rows (`KnownRepoNames`, `MaliciousRepoOwners`,
`UndeliveredGold`, `GoldForSubmission`, `Unproven`, `Revalidatable`, `Published`).
A missing row is the row with status `absent`. A payload is reduced to its tier and
to what its findings prove: nothing, a match in security data only, or code.

**Hunt** is `hunt()`. `pc[h]` is where hunt `h` is, `known[h]` its one read of the
tracked repos, `work[h][r]` how far candidate `r` has come, `rows[h]` the gold read
and not yet claimed, `cluster[h]` the cluster claimed and being posted. Every action
is one committed transaction or one answer from outside: `StartRun`, `Discover`,
`Tier1`, `Gate` (a verdict without a clone), `BeginScan`, `ScanDrops`, `ScanSpreads`,
`ScanConfirms`, `ReadGold`, `Claim`, `PostOk`, `PostFails`, `Release`, `FinishRun`,
`Crash`. `acked`, `shown` and `lost` are history: messages Discord acknowledged,
messages readers saw, repos whose claimant died. What a source returns
(`DiscoverableAs`), a Tier-1 score and a scan's verdict (`Verdicts`) are choices.
`Serial` says whether hunts exclude each other: they do in the workflow
(`.github/workflows/run.yml`, its concurrency group); a person running the command
by hand excludes nobody.

**Review** is the analyst, the sweep and revalidation. The sweep is a read
(`ReadRegistry`) and a transaction (`RejectUnproven`). A revalidation reads
(`BeginRevalidation`), decides row by row (`Demote`, `Retier`, `Keep`) and commits
all of it at once or nothing: what it has written but not committed is `pending`,
and `writeLock` is held from the first write on, as sqlite3's implicit transaction
holds it.

**Submit** is one submitter. `queue` is what is left of what it read, `current` the
resource claimed, `ledger` the table of reported C2 hosts; `osm` is what OSM knows,
from whomever; `reports`, `confirmations`, `abandoned`, `overlooked` are history.
`StartSubmit` is the queue less the recent window of OSM, `SearchGate` the search of
its full history, and then resource by resource a claim, the POST (`Accepted`,
`Fails`, `RateLimited`) and `Record` or `Release`. `OthersReport` and `LongWrite` are
other reporters and other holders of the write lock.

**ClaimFirst** has two sets, `claimed` and `told`, and three steps: claim items that
are not claimed, tell items that are claimed and untold, release untold claims.
`Hunt` implements it with the rows marked `delivered_gold` and Discord's
acknowledgements, `Submit` with the rows marked `submitted_osm` plus the ledger and
OSM's confirmations. The mappings are instances at the end of both modules.

**SearchCursor** is `search_iocs` in the hunts that share one database. A hunt walks
its queries in the order of `Terms`: `SkipQuery`, or `BeginQuery` at the page the
cursor names, then a request per page, answered (`PageAnswered`), `Throttled` (the two
nested loops of `search_code` and `_search_one_page`; `retry` counts both, `interval`
is the pacing) or failed (`PageFails`), and at the end of the walk `AdvanceCursor`.
`EndSearch` cuts at `--limit`, `Tier1` saves. What a query returns per page is the
constant `Results`; `cut` and `lost` are history. Seconds are rounded down.

**Ingest** is `run_ingestion`, one run at a time, as the workflow has it. The feeds are
called in order (`Answers`, `Fails`, with `Respond` for what `resilient_call` makes of a
failure and `Tally` for `RunHealth`); what a feed names is stored actor by actor in two
transactions (`Observe`, `LinkSource`, the actor in `hand` between them), then the
indicators (`CollectArtifacts`, `Label`), and in the end every actor in `touched` is
read (`Examine`) and its verdict written (`SetStatus`), in two steps again. `sources` is
the ledger `actor_sources`; `cache` is the MITRE bundle, which is written before it is
parsed and may thus be `bad` until it is `stale` (`Expire`). `HuntNames` and `Reject` come
from outside at any time, the latter by hand: no command of the program rejects an
actor, `validator.py` says that a person does. `orphaned` is history: actors a dead run
left unjudged. Of the counters of `RunHealth` only those some threshold names are kept.

**StaticScan** has no state. A clone is a set of lines, each a place where a rule of some
scanner matches, with the hosts it names and *marks* for what surrounds the match and
decides on it (a comment, a literal that decodes to a payload, a pinned version, ...).
`BashHits`, `ContentHits` and `ManifestHits` are what the scanners report, `Benign` what
they forgive, `Confirming` the two tiers of `analyze_repo`, `Confidence` the tier it
assigns, `Analyze` the whole, restricted to the files and categories a caller names;
`SpreadSource` and `SpreadVector` are `package_spread.py`.

**Attribution** has no state either: `Signals` are the independent signals of
`dprk.assess`, `EvidenceTier` how it weighs them, `Attribute` how `actors.py` weighs them
against an actor that intel names.

**Campaign** is the loop through both. `offers` is what the sources of a run return,
`todo` its candidates, `at` the repo in hand; `StartContainer`, `ContainerAnswers`,
`ContainerFails` and `ScanTimesOut` are the sandbox, `Clone`, `HostScan` and
`HostScanFails` the host, `Conclude` what the hunt makes of either. `Mine` stores one
indicator of the repo just confirmed in `learned`, by which `Offered` finds the next.
`Correlate` reads the table, `Stamp` writes one attribution. `containers` are those alive
under the daemon, and those of them in `astray` have nobody left to remove them: the one
attempt failed (`Reaps`), the client failed and nobody made one (`ContainerFails`), or the
hunt died. `clones` are the trees in a run's scratch directory, in `stuck` those whose
removal has raised, after a failed clone (`Clone`) or out of the scan's `finally` clause,
where it takes the place of the result (`HostScanFails`). `EndTier2` removes the directory
with what is left in it; if that raises too the run ends there (`ScratchStays`), and its
trees are `husks`, as are those of a hunt that was killed. `untaught` is history:
confirmations whose hunt died before it had stored their indicators. Which actor a source names (`Named`), who is offered what (`Fed`) and
whether Docker and GuardDog are there are choices.

**SharedLog** is the file of `intel_exchange.py`, by the numbers of its lines. `Record` is
an append with the look at the size it may end in, `ReadAll`, `Truncate` and `WriteBack`
the three steps of a compaction. `Fails` is a compaction whose `OSError` is swallowed, at any
of these steps or at the look at the size: the process lives on. `Exit` is the end of a
process, with which its count of writes is gone. Both may break off a write, which leaves
the file empty or with the first of the lines that were to be kept (`BreaksOff`). `Read`
is what the other tool gets. `exposed` is history: lines that a compaction by somebody
else, or one that broke off, may have cost; so are the counters `exits` and `failures`. Another `Keep`, `Cap` and `Every` make it the
file of `telemetry.py`.

**Registry** puts the three side by side by `INSTANCE`: a step of one leaves the
others' memory alone; the table and the lock are shared. The table starts empty, so
every row in it is one some hunt wrote.

## 3. What is checked

| Run | Question | Distinct states |
|---|---|---|
| `hunt` | Are successive hunts, one of which may die anywhere, claim-first, at most once, in the end complete, gated, and kind to old confirmations? | 110 thousand |
| `hunt_overlap` | What survives when two hunts with stale snapshots overlap? | 800 thousand |
| `review` | Do analyst, sweep and revalidation respect each other's verdicts, and does the wall heal? | 20 thousand |
| `submit` | Is the batch submitter claim-first, at most once and in the end complete under failures of OSM, the search, the lock and itself? | 250 thousand |
| `registry` | Does all of that survive composition, the wizard and revalidation's lock included? | 750 thousand |
| `ingest` | Are exactly the corroborated promoted, is every named actor judged, do rejections stick, does every run end, whatever fails or dies? | 410 thousand |
| `campaign` | Does every name have a source, every confirmation teach, what is downloaded go when it has been used, though removals fail, and a whole campaign get its name? | 250 thousand |
| `bus` | Is what one tool records found by the other, and is the file bounded, whoever compacts, dies or fails to compact? | 4.1 million |
| `search` | Does the shared cursor pass only what was seen, does every search end, is every query walked to its end? | 57 thousand |

The properties, by what they protect:

* *At most once.* `AckedAtMostOnce`, `ReportedAtMostOnce`; `DeliveredIsAccountedFor`
  and `SubmittedIsAccountedFor` (a claim always has a reason); `ImplementsClaimFirst`
  in both modules; `BothFeedsKeepTheirClaims` in composition.
* *In the end.* `GoldEventuallyAcked`, `DueIsReported`, `WallSelfHeals`.
* *Proof and verdicts.* `ConfirmationKept` (one hunt at a time), `ConfirmedIsTiered`
  (any overlap), `ProofKept` and `OnlyAnalystRevives` (all programs), `SweepStillStands`.
* *Search.* `PassedIsAccountedFor`, `PaceWithinBounds`, `SearchEnds`, `EveryQueryWalked`.
* *Ingestion.* `PromotedIsCorroborated`, `SettledUnlessOrphaned` and
  `CorroboratedIsPromoted` (nobody is promoted too early, forgotten, or held back for
  ever), `RejectionSticky` with the one exception the code has,
  `FlaggedIsStopped`, `RunEnds`; `TypeOK` bounds the calls of a feed.
* *Learning.* `ConfirmedIsLearned`; `AttributionTraced` and `ClaimIsEarned` (nobody is
  named without a source, and no repo is its own witness); `CampaignNamed`.
* *Sandbox.* `NothingLeftBehind`.
* *Bus.* `OthersFind`, `FileBounded`.
* *Gates.* `GatedNeverConfirmed`, `PivotHasSeed`, `OnlyNovelEvidenceShown`.

Each property comes with a mutant, a small plausible bug in one mapped definition
(an operator in front of it, marked "Mutant"), under which the same run fails.

### Runs that find a violation

Three runs check what a comment or a document says and show a behaviour of the code
that contradicts it.

* `hunt_double`: "a crash or a concurrent run can never repost it" (`hunt.py:938`).
  Two overlapping hunts both read a row before either claims it; both post it. With
  one hunt at a time, as in the workflow, it holds, which `hunt` checks and
  `AlwaysAckedAtMostOnce` proves.
* `hunt_resume`: a resumed sweep "continues where it stopped"
  (`docs/IMPLEMENTATION.md:225`). Tier-1 saves its candidates before Tier-2 scans
  them, and every saved repo is excluded from discovery: what a killed run had queued
  is not discovered again, with or without `--resume`.
* `scan_sandbox`: "red-team forks confirm only on weaponization (added install hooks /
  exfil / obfuscation), never the tool's own code" (`hunt.py:736`). The restriction is
  passed to the scan on the host; the container, which is the default, is called with the
  name of the repo alone (`hunt.py:788`), and the tool's own code confirms the fork.

### Other observations

The models show these too; no run is kept for them.

* A failed POST leaves a C2 host in `osm_submitted_domains`, which is written first
  and has no release (`osm_submit.py:1528`): the host is never reported, though the ledger
  is there so that it "is reported to OSM once" (`osm_submit.py:708`).
* Revalidation asks `submitted_osm=0` when it reads and not when it writes
  (`hunt.py:1025`), and may change a row submitted meanwhile, which `hunt.py:1002` denies.
* Errors are counted under the name of their class, thresholds are called `feed_errors`,
  `clone_failures` and `scan_errors` (`resilience.py:74`, `config/settings.yaml:27`): no
  threshold is ever reached, and nothing is ever alerted.
* The container is not told the list of malicious packages either, so a
  `malicious_dependency` never confirms there, and of the intel on package spread it has
  only what the image bundles. Its image has no GuardDog, and it does not check the size
  of a clone before it scans it.
* A fork whose difference GitHub lists without files is judged by all of its tree, and a
  GuardDog flag confirms a fork whatever was to be left out (`tier2.py`).
* `corroborated_c2` takes its infrastructure from all repos, the reporting ones
  included (`osm_submit.py:625`), where the assessment of a repo excludes it
  (`dprk.py:168`): a host can corroborate itself there. Two copies of one lure corroborate
  each other in either.
* An attribution may overwrite one written since the read (`set_attribution`), which
  `correlate.py:54` denies; it comes from the same campaign all the same
  (`AttributionTraced`).
* `learned_iocs` names one repo per indicator, the first; nothing is unlearned when that
  repo is rejected. Telegram handles are learned and never searched.
* The keys of `dprk.py` and the table of `actors.py` differ on who is North Korean; the
  lists of harmless hosts exist four times (`bash_scanner.py`, `dprk.py`, `osm_submit.py`,
  `queries.py`) and differ.
* The bus is called append-only and bounded; a process that writes fewer than 200 lines
  never looks at its size, and one whose compaction fails says nothing and looks again 200
  lines later. `FileBounded` has a term for each.
* "The clone is force-removed on every exit path" (`tier2.py:570`), but for a removal that
  fails: the exception then takes the place of the result of the scan, a confirmation
  included, `hunt.py:798` passes over it, and the tree stays until the end of Tier-2. If the
  scratch directory cannot be removed either (`hunt.py:918`), the run ends before it delivers.
* "A leaked malware container must never be left alive" (`sandbox_runner.py:127`): it is
  removed by name when the scan times out or the client cannot be run, not when the client
  ends with an error (`sandbox_runner.py:145`), as one that lost its daemon does.
* A message whose answer is lost after Discord took it is posted again
  (`notify.py:243`): what is at most once is the acknowledgement.
* A failed OSM search reads as a miss (`osm_submit.py:823`); this is the one way to a
  duplicate report, and `ReportedAtMostOnce` says exactly that.
* The wizard releases the claim of a confirmed report when recording the answer meets
  a locked database (`osm_submit.py:1098`); the batch submitter does not. Only the
  search then prevents a second report, so the claim-first refinement is stated for
  the batch and `registry`, where the wizard takes part, checks the weaker promise.
* A repo found by `actor_account` seeds the owner pivot (`database.py:740`), which the
  docstring's "intrinsic" would exclude; a `malicious_owner` finding of the auto tier
  enters the submit queue (`osm_submit.py:1254`), which `database.py:555` denies.
* What the cursor passed and Tier-1 did not save (cut by `--limit`, or in the memory of
  a hunt that died) is not found again by that query: `PassedIsAccountedFor` names
  exactly these two exceptions. A failed page makes the next run restart at the page
  the walk started from, not at the page that failed (`discovery.py:235`).
* `PaceWithinBounds` needs a base no larger than the ceiling of 60 s. With
  `GW_SEARCH_MIN_INTERVAL` above it, a throttled search would shorten the interval.
* A verdict the validator reached before a rejection is written over it
  (`validator.py:50`): `RejectionSticky` names this exception. The next run judges by the
  ledger again, so the rejection is gone for good.
* An artifact feed keeps its failures to itself (`osm.py:182`, `osv.py:122`), so a run
  with one is never failed, whatever happened; and a feed that is skipped
  (`skip_and_log`) counts as one that answered with nothing.
* A run that dies leaves its row `running`, and nothing ever closes it; the dashboard
  (`queries.py:555`) shows it as live.
* A demotion by revalidation overwrites an approval made after it read the row, and
  a finding rejected after the submitter read its queue is submitted all the same.

### Bounds, and why they are enough

* Repos: four in `hunt` (two that can be gold, in clusters of their own; one that only
  gates or the pivot concern; one of OSM's and of a legit owner), two with a shared
  cluster in `hunt_overlap`, two in `review` and `submit`, one in `registry`. Rows
  interact only through owner, cluster and the corroboration of a host, each a relation
  between two rows; the programs interact through one row at a time.
* Hunts: one identity with `Serial` stands for any sequence of runs, since an idle,
  finished or dead hunt starts again. Overlap needs two.
* `MaxCrashes` (in `campaign` also what ends a run at its scratch directory), `MaxDeaths` = 1: a death resets memory and leaves the table; a second
  one starts from a state the first one's successor also reaches.
* `MaxPosts`, `MaxReports` = 2 saturate the counters: "at most once" needs a second
  message to be visible, more add nothing (1 in `registry`, which only asks whether).
  `MaxTries` = 2 has one retry and one exhaustion; `registry` does without retries.
* `search` has one query of three full pages, two of them walked per run, so that two
  walks reach the end and two hunts can overtake each other; 2 attempts in 2 rounds
  stand for the 4 in 2 of the code; an interval of 50 to 60 s reaches its ceiling with
  one throttled request and its base after a few clean ones; two repos against a limit
  of one make `--limit` cut. Queries interact only through `--limit`.
* `ingest` has two feeds, the caching one and another, because promotion takes two; two
  actors, one that both know and one that only the first names; the four kinds of
  response with 2 and 1 retries for the 4, 3 and 5 of `trigger.yaml` (different ones, so
  that the shared counter meets both limits); one death. `Reject` after `SetStatus` and
  the other way round need no second actor.
* `campaign` has three repos (a lure some source names, a sibling only its loader leads to,
  a changed fork), since every property relates at most two; two hunts, one with either
  setting of the sandbox, one on the host and learning; one loader, one host, one group,
  one death. Two groups for one loader are covered by the proofs. Every line of a lure is
  one that `analyze_repo` treats differently (hook, decoded payload, shell, fetch).
* `bus` has a process of each tool and compacts two lines beyond two, every second write,
  up to nine lines: two full compactions that overlap, and one fault (`MaxFaults`), a death
  or a failure in any step of one. With two processes and one fault the bound is eight
  lines, so the ninth could exceed it, and would without the term for either kind of fault.
  Values alternate between two, and every fourth line may repeat the line before it or
  the one after it, which is what the rule of the newest line per value is about.
* Seeds: `review` and `submit` start from rows that sequences of hunts leave behind;
  `registry` starts empty and grows its own.

No run limits depth, and none uses a state constraint or symmetry.

### Fairness

* Hunt: weak fairness of a hunt's own steps together with the start of the next one
  (that hunts are run again and again is up to the operator: `run.yml` is started by hand
  only; the loops end), strong fairness of `PostOk`
  (Discord, offered a message again and again, takes it). None on crashes, on failed
  posts or on any particular discovery.
* Review: the sweep is part of every run of the workflow, which the operator repeats, and gets the lock in the end (strong,
  since revalidation may hold it now and again); a revalidation finishes its loop.
* Ingest: a run goes on and, at the operator's hand, another follows it (weak fairness of `Progress`), and files
  age (weak fairness of `Expire`). That each feed answers in full often enough is a
  hypothesis of `CorroboratedIsPromoted` alone; `RunEnds` holds though every call fails.
* Campaign: weak fairness of each hunt's `Progress`, which contains the start of the next
  run (again the operator's part: nothing schedules it) and all steps of the current one
  (clones, containers and requests have time limits); `MaxCrashes` says that what ends a run
  early does not happen for ever. None on what a scan says, on Docker or on the analyst: `CampaignNamed` is
  that a campaign is never half named for good.
* SearchCursor: weak fairness of each hunt, nothing of GitHub. That GitHub answers a
  page asked for often enough is a hypothesis of `EveryQueryWalked` alone; `SearchEnds`
  holds though every request be throttled.
* Submit: as for Hunt, and whoever holds the lock lets it go, often enough for the
  30-second busy timeout to succeed at some run; strong fairness of `Accepted`.

## 4. What is proved

TLAPS checks the following for every set of repos and hunts, every command line, every
relation of owners and clusters and every bound.

* `HuntProofs`, for any overlap of hunts: `TypeCorrect`, `ConfirmedAlwaysTiered`,
  `RejectionAlwaysKept` (no step of a hunt revives a rejection), `PivotAlwaysHasSeed` and
  `AlwaysOnlyNovelShown`.
* `HuntProofs`, under `Serial` (the concurrency group of the workflow):
  `DeliveredAlwaysAccountedFor`, `AlwaysAckedAtMostOnce`, `DeliveryIsClaimFirst`
  (every behaviour of Hunt is one of ClaimFirst under the refinement mapping),
  `GatesAlwaysHold` and `ConfirmationAlwaysKept`.
* `ReviewProofs`, for any table: `ReviewTypeCorrect` and `SweepAlwaysStands`.
* `SubmitProofs`, for any rows, hosts, failures and deaths: `SubmitTypeCorrect`,
  `SubmittedAlwaysAccountedFor`, `AlwaysReportedAtMostOnce`, and for the batch submitter
  `BatchIsClaimFirst`.
* `RegistryProofs`, for all these programs on one table: `OnlyAnalystEverRevives` and
  `SourcesAlwaysStand` for any overlap of hunts; `ProofAlwaysKept`,
  `GatesHoldBesideTheRest` and `FeedsAlwaysKeepTheirClaims` under `Serial`.
* `SearchProofs`, for any number of overlapping hunts, queries and pages:
  `SearchTypeCorrect`, `PaceIsBounded` and `CursorPassesNothing`.
* `IngestProofs`, for any feeds, actors and playbook: `IngestTypeCorrect`,
  `OnlyCorroboratedPromoted`, `FlaggedAlwaysStopped`, `AlwaysSettledUnlessOrphaned` and
  `RejectionAlwaysSticky`.
* `CampaignProofs`, for any overlap of hunts, any clones, sources, actors and hosts:
  `CampaignTypeCorrect`, `AttributionAlwaysTraced`, `ConfirmedAlwaysLearned`,
  `NothingIsLeftBehind`, `ClaimAlwaysEarned`, and `BoxConfirmsWhatHostDoes` (the container
  misses nothing the host's static rules find; the converse is what `scan_sandbox` refutes).
* `SharedLogProofs`, for any number of processes, any sizes, any deaths and failures:
  `LogTypeCorrect`, `OthersAlwaysFind`, `FileAlwaysBounded`.

The invariant behind the three about delivery, `ClaimInv`, has six parts. That a repo is
acknowledged at most once is not inductive by itself: nothing in the claim prevents it.
One has to know that what is about to be claimed was never delivered
(`RowsUnclaimed`: the rows a hunt has read are still undelivered in the table), which
holds only because no other hunt is active (`OneActive`); that the cluster in hand
has not been told yet (`ClusterUntold`); that rows and cluster are empty outside the
delivery steps (`HandsMatchPc`), so that a start finds nothing left over; that a missing
row is undelivered (`AbsentIsUnclaimed`), since an insert resets the column; and that
`delivered_gold` equals acknowledged, in hand or lost (`DeliveredIsAccountedFor`). The
refinement then maps `Claim`, `PostOk` and `Release` to the abstract steps and every other
step to a stutter.

The rest about Hunt turns on what a step may do to a row, stated once: it saves one finding
of a candidate in hand, which may be confirmed only by a scan (`TableStep` with `Savable`),
or it flips `delivered_gold`. That a row keeps the method it was inserted with
(`StepMethods`) is what makes `PivotHasSeed` and `OnlyNovelEvidenceShown` last, and they
need it of what a hunt has in memory too: a candidate found through its owner already has
the seed (`PivotInv`), and what is read or posted is novel (`FeedInv`). This is why
overlapping hunts do them no harm. The gates are different. `GateInv` says of a hunt that
no candidate of an earlier phase or a dead run is left over, that what it has found is not
in the table yet, and that what it has queued is there, unconfirmed, under the method it was
found by. All three fail when another hunt saves the repo meanwhile, so `GatesAlwaysHold`
and `ConfirmationAlwaysKept` assume `Serial`. The assumption is needed: of two overlapping
hunts the later one puts a confirmed repo back to `screened`, and one that found a repo
named like a tool as a fork confirms it under the other method that the row already has.

`SweepStillStands` is not inductive, for an approval takes a rejection back: what lasts is
the reason a row was read for (`SweepUnsupported`), which only new evidence could remove.
A revalidation writes evidence, but that which it has read, and nobody but itself changes it
meanwhile (`SeenIsCurrent`).

`ReportedAtMostOnce` counts reports, and the counter says nothing of the next POST.
`SubmitInv` adds that every report of ours is on OSM (`ReportsOnOsm`), so that a queue that
was searched holds no reported item but those a failed search overlooked
(`ToPostUnreported`), and that only rows that exist are queued or claimed, an UPDATE of a
missing row being lost (`RowsExist`). For the refinement the batch submitter moreover never
takes an answer for a failure, so that a claim it releases was not acknowledged (`BatchInv`).
The wizard does, on the database error that recording the answer may raise; it is
excluded by `Modes = {"batch"}`, as in the run `submit`.

The theorems about the programs together are made from the invariants of each. Registry
instantiates Hunt, Review and Submit, RegistryProofs the modules that prove about them, and
`HuntSame`, `ReviewSame` and `SubmitSame` say that both instances describe the same steps. What is
left is what the others' steps do to an invariant: a hunt sees rows that stay, with their
method and claim, none of them confirmed by anybody else (`Harmless`, `HuntInvStays`); the submitters, rows
that nobody removes or claims (`SubmitInvStays`); a revalidation, evidence that stays. The
last is not true of a hunt in general, and takes an invariant that neither program has
alone: a row a revalidation has in hand was confirmed when it took it up, and so is in no
hunt's hands, and discovery never brings a known repo there (`TouchedAreOld`). TLC
checked `SerialInv`, the conjunction of it all, before it was proved. What
of this needs `Serial` is in `SerialInv`, the rest in `RegistryInv`.

The invariant behind `CursorPassesNothing` is `SearchInv`. The property speaks of the
cursor, and a step that moves it stores what a walk has read; so one has to know of the
walk what the property says of the cursor (`WalkedIsSeen`), that it started at a page
behind which nothing was unseen (which is the property itself, at the time the walk
began: what was seen then is seen now, lemma `SeenStays`), that a page passed over
because its repo was known has that repo tracked (`KnownIsTracked`), and that a walk that
met a short page has nothing beyond it (`ShortIsLast`). That is why overlapping hunts,
the slower of which puts the cursor back or forth, do no harm.

`PromotedIsCorroborated` is not inductive: a status is written long after the feeds were
counted. `IngestInv` adds that a promotion in hand is one the ledger has already earned
(`PromotionEarned`), which lasts because the ledger only grows (`CorroborationStays`), and
that what is in hand belongs to the loop the run is in (`HandMatchesPc`). Counting needs
the set of feeds to be finite, which `FeedsAreFinite` gets from their being a sequence.

`AttributionTraced` allows a name from a repo with the same loader. What correlation spreads
is itself spread on, so that kin of kin must be kin: that is `OneLoader`, an assumption on the
repos. `TraceInv` adds that the attributions a hunt has yet to stamp, and the actors of its
candidates, are traced too, and that the hits on a row are lines of its repo.

`LearnInv` adds to `ConfirmedIsLearned` that what is left to store and what is stored make
up what the repo in hand teaches (`MiningHonest`). `NothingLeftBehind` is inductive beside two
facts of a hunt: it has a repo in hand in the steps that scan and mine (`AtWork`), and it asks
for Docker only if it wants the sandbox (`DockerWanted`), so that a run that has trees on the
host starts no container. Its proof (`TreesStep`) goes by what the steps do to the trees of
one hunt: a scan that begins adds one and takes it in hand (`ScanBegins`), one that ends
removes it or leaves it stuck or astray (`BoxLeft`, `HostLeft`), Tier-2 ends with none
(`ScratchLeft`), and the trees of the other hunts stay as they are (`TreesKept`). `ClaimIsEarned` needs no
induction: a claim with fewer than two signals of its own and no named group has
`c2_infra_overlap`, whose host comes from another repo (`ClaimsRest`).

`OthersFind` needs more than that safe lines are in the file. A compaction writes back the
newest lines of a copy, and these are the newest recorded only because line numbers
grow along the file (`Ordered`: no line has more lines behind it than were recorded after
it); and who is about to write back must have every safe line in its copy (`Kept`). That
a reader then finds the value is that the lines of one value have a newest (`Greatest`).
`FileBounded` counts, in `Unlooked`, the writes no look has followed: each adds a line, a
look that finds too much turns its writer's share into a full one until it has written back;
a death moves that share to `exits`, a compaction that failed to `failures`, and a write that
broke off leaves no more lines than were there or than are kept (`FlushedIsOrdered`).

`SettledUnlessOrphaned` says nothing of a run under way. `SettledOrPending` does: an actor
with a source is settled, rejected, orphaned or still on the run's list, and the verdict in
hand is the one its feeds call for (`VerdictIsDue`), which lasts because nothing is observed
while verdicts are written. `FlaggedIsStopped` rests on the run never turning back to a feed
it has passed (`FlaggedIsPassed`). `RejectionSticky` is a property of single steps.

The proofs assume `WorldAssumption`, `HuntAssumption`, `SeedAssumption`,
`SubmitAssumption`, `RegistryAssumption`, `SearchAssumption`, `IngestAssumption`, `CloneAssumption`, `ActorAssumption`, `CampaignAssumption`, `OneLoader`
and `LogAssumption`, which say what the constants are; the one of the search includes
that a query has no results after its first short page and that the base interval is no
larger than the ceiling; the one of Submit that a history starts with no row submitted,
which is what `INSERT` leaves. Registry starts from an empty table, and its theorems assume
of the constants only what those of its parts do (`HuntFits`, `ReviewFits`, `SubmitFits`).

Model-checked and not proved: all liveness (`GoldEventuallyAcked`, `WallSelfHeals`,
`DueIsReported`, `SearchEnds`, `EveryQueryWalked`, `RunEnds`, `CorroboratedIsPromoted`,
`CampaignNamed`: fairness and ENABLED are out of the prover's reach), and with it the
counterexamples of the runs that expect a violation. Every safety and action property of the
other runs is stated by a theorem.

## 5. What is left out, and what is abstracted

* The order of discovery sources, Tier-1 scores and scan verdicts are nondeterministic;
  a candidate cut by `--limit` is one that was not discovered.
* The submitter's filters (`--limit`, `--owners`, `--min-severity`, ...) only shorten its
  queue. OSM's search, when it answers, is assumed to see every filed report.
* A Discord webhook is assumed configured and `min_confidence` at its default.
* Regular expressions, entropy and decoding: which line matches which rule, and its marks,
  are given with the repo. A row of Campaign keeps all hits, where the code keeps the first
  20 with the confirming ones leading, cut to 280 characters each. GitHub's list of a
  fork's files is taken as complete.
* Scoring of names and READMEs (Tier-1), report texts, rendering, the dashboard and
  the parsers of feeds are data or layout with no state of their own.
* The results of a query do not change while the cursor walks them, which GitHub does
  not promise; building the queries and classifying hits by their paths are left out.
* Ingestion's identifiers, campaigns and counts; the pruning of observations and the
  VACUUM that follow a run. Two ingestions at once, which the workflow excludes: a
  pruning could then delete an observation the other is about to link.
* A compaction writes over what was appended since the file was emptied; that the lines
  it keeps are longer than those is taken for granted (20,000 against a handful). One that
  breaks off within the length of what was appended counts as one that wrote nothing.
* A row has one `payload_key`, the first loader among its hits. Which is first is not
  modelled: that no repo carries two is the assumption `OneLoader`.
* `MinedSignatures` asks for the reputation of all the hosts on a line, where the code asks
  for that of the first, and takes one mark for the two patterns by which `signatures.py`
  and `dprk.py` recognise a dropper. The stubs and hosts decide what is learned; the path
  of a dropper is one more term beside them.
* Not modelled, having no state of their own or changing none: Tier-1's scores, the
  artifacts and README tables, the dashboard, the audits, configuration and logging.

## 6. The plan

Done: Findings, Hunt with its delivery, ClaimFirst, Review, Submit, Registry,
SearchCursor, Ingest, StaticScan, Attribution, Campaign, SharedLog, and the proofs above.
Next, in this order:

1. **StaticScan and Attribution**: what the operators promise for every clone, beyond
   `BoxConfirmsWhatHostDoes`: which marks a confirmation needs, and that a report's claim
   only grows with its signals.
2. **Registry**: the sweep beside hunts. `SweepStillStands` is proved of Review alone; an
   approved row that a hunt has still queued may gain evidence after the sweep read it.
3. **Submit**: what the wizard keeps of the claim-first protocol, as a weaker abstract
   specification.
