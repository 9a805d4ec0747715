------------------------------- MODULE Submit -------------------------------
(***************************************************************************)
(* Reporting to OpenSourceMalware (osm_submit.py): the batch submitter     *)
(* ("python -m git_warden.osm_submit --confirm") and the interactive       *)
(* --wizard.  Both build a queue, drop what OSM already has, and then      *)
(* claim, POST and record or release one resource at a time.  A resource   *)
(* is a repo, claimed in its row's submitted_osm, or a command-and-control *)
(* host, claimed in the table osm_submitted_domains.                       *)
(*                                                                         *)
(* OSM, the other people who report to it, and whoever else holds the      *)
(* database's write lock are the environment.                              *)
(***************************************************************************)
EXTENDS Findings, Naturals, FiniteSets

CONSTANTS
  Seeds,             \* the rows a table may start with
  Hosts,             \* command-and-control hosts
  EvidenceHosts,     \* EvidenceHosts[r]: hosts in r's confirming evidence
  LearnedHosts,      \* LearnedHosts[r]: domains mined from r (learned_iocs)
  Truncations,       \* Truncations[h]: hosts that are h cut off mid-label
  MinCorroboration,  \* --min-corroboration
  Modes,             \* the ways of submitting in use
  Contested,         \* resources other people may report to OSM
  Gone,              \* repos whose payload is no longer at HEAD
  SearchFails,       \* OSM's search endpoint may fail
  LongWrites,        \* others may hold the write lock beyond the busy timeout
  MaxTries,          \* POSTs per report before a 429 counts as a failure
  MaxReports,        \* where the report counters saturate
  MaxDeaths          \* how many submitters may die

VARIABLES
  findings,          \* the repo_findings table
  writeLock,         \* another process holds SQLite's write lock
  ledger,            \* hosts in osm_submitted_domains
  mode,              \* how the current submitter was started
  step,              \* where it is
  queue,             \* the repos and hosts it has still to report
  current,           \* the one it has claimed (at most one)
  tries,             \* POSTs made for it
  osm,               \* what OSM has a report on
  bus,               \* what the shared bus says was submitted
  reports,           \* reports[x]: reports of ours that reached OSM
  confirmations,     \* confirmations[x]: those whose answer reached us
  abandoned,         \* claimed by a submitter that died
  overlooked,        \* on OSM already when a failed search let them pass
  deaths

submitter  == <<mode, step, queue, current, tries>>
record     == <<reports, confirmations, abandoned, overlooked>>
submitVars == <<ledger, submitter, osm, bus, record, deaths>>
vars       == <<findings, writeLock, submitVars>>

Resources == Repos \cup Hosts

\* A history starts before the first report: the hunts' INSERT leaves
\* submitted_osm at its default, only the submitters set it.
ASSUME SubmitAssumption ==
  /\ Seeds \subseteq Row
  /\ \A row \in Seeds : ~row.submitted
  /\ Repos \cap Hosts = {}
  /\ EvidenceHosts \in [Repos -> SUBSET Hosts]
  /\ LearnedHosts \in [Repos -> SUBSET Hosts]
  /\ Truncations \in [Hosts -> SUBSET Hosts]
  /\ Modes \subseteq {"batch", "wizard"}
  /\ Contested \subseteq Resources
  /\ SearchFails \in BOOLEAN
  /\ LongWrites \in BOOLEAN
  /\ MinCorroboration \in Nat
  /\ MaxTries \in Nat \ {0}
  /\ MaxReports \in Nat \ {0}
  /\ MaxDeaths \in Nat

Steps == {"idle", "gate", "repos", "hosts", "posting", "answered", "failed"}

TypeOK ==
  /\ findings \in [Repos -> Row]
  /\ writeLock \in BOOLEAN
  /\ ledger \in SUBSET Hosts
  /\ mode \in {"batch", "wizard"}
  /\ step \in Steps
  /\ queue \in SUBSET Resources
  /\ current \in SUBSET Resources
  /\ tries \in Nat
  /\ osm \in SUBSET Resources
  /\ bus \in SUBSET Resources
  /\ reports \in [Resources -> Nat]
  /\ confirmations \in [Resources -> Nat]
  /\ abandoned \in SUBSET Resources
  /\ overlooked \in SUBSET Resources
  /\ deaths \in Nat

Init ==
  /\ findings \in [Repos -> Seeds]
  /\ writeLock = FALSE
  /\ ledger = {}
  /\ mode = "batch"
  /\ step = "idle"
  /\ queue = {}
  /\ current = {}
  /\ tries = 0
  /\ osm = {}
  /\ bus = {}
  /\ reports = [x \in Resources |-> 0]
  /\ confirmations = [x \in Resources |-> 0]
  /\ abandoned = {}
  /\ overlooked = {}
  /\ deaths = 0

-----------------------------------------------------------------------------
(***************************************************************************)
(* The queue.                                                              *)
(***************************************************************************)

\* The confirmed repos a host occurs in.
Carriers(h) ==
  {r \in Repos : /\ Confirmed(findings[r])
                 /\ \/ h \in EvidenceHosts[r] /\ findings[r].evidence # "none"
                    \/ h \in LearnedHosts[r]}

Seen(h) == Carriers(h) # {}

\* A cut-off host lends its repos to the whole one, and is itself dropped.
Corroborators(h) == Carriers(h) \cup UNION {Carriers(s) : s \in Truncations[h]}

CutOff(s) == \E h \in Hosts : s \in Truncations[h] /\ Seen(h)

CorroboratedC2 ==
  {h \in Hosts : /\ Seen(h)
                 /\ ~CutOff(h)
                 /\ Cardinality(Corroborators(h)) >= MinCorroboration}

\* What query-latest shows is a recent window of OSM, or nothing at all.
StartSubmit ==
  /\ step = "idle"
  /\ mode' \in Modes
  /\ \E window \in SUBSET osm :
       queue' = (GoldForSubmission(findings)
                   \cup (IF mode' = "batch" THEN CorroboratedC2 \ ledger ELSE {})) \ window
  /\ step' = "gate"
  /\ UNCHANGED <<findings, writeLock, ledger, current, tries, osm, bus, record, deaths>>

\* Mutant: the full history is not searched.
NoHits(erred) == {}

\* osm_search answers "[]" for an error as for a miss.
SearchHits(erred) == (queue \ erred) \cap osm

\* The whole queue is searched before the first POST; the bus is asked about
\* hosts only.
SearchGate ==
  /\ step = "gate"
  /\ \E erred \in IF SearchFails THEN SUBSET queue ELSE {{}} :
       /\ queue' = queue \ (SearchHits(erred) \cup (bus \cap Hosts))
       /\ overlooked' = overlooked \cup (erred \cap osm)
  /\ step' = "repos"
  /\ UNCHANGED <<findings, writeLock, ledger, mode, current, tries, osm, bus, reports,
                 confirmations, abandoned, deaths>>

-----------------------------------------------------------------------------
(***************************************************************************)
(* Claim, POST, record or release.                                         *)
(***************************************************************************)

\* Its payload is gone (batch), or the operator answers no (wizard).
Skip(r) ==
  /\ step = "repos"
  /\ r \in queue \cap Repos
  /\ mode = "batch" => r \in Gone
  /\ queue' = queue \ {r}
  /\ UNCHANGED <<findings, writeLock, ledger, mode, step, current, tries, osm, bus,
                 record, deaths>>

Claimed(x) ==
  /\ x \in queue
  /\ ~writeLock
  /\ queue' = queue \ {x}
  /\ current' = {x}
  /\ step' = "posting"
  /\ UNCHANGED <<writeLock, mode, tries, osm, bus, record, deaths>>

\* mark_osm_submitted(name, None): by name, whatever the row says by now.
ClaimRepo(r) ==
  /\ step = "repos"
  /\ Claimed(r)
  /\ findings' = [findings EXCEPT ![r] = WithSubmitted(@, TRUE)]
  /\ UNCHANGED ledger

EndRepos ==
  /\ step = "repos"
  /\ queue \cap Repos = {}
  /\ step' = "hosts"
  /\ UNCHANGED <<findings, writeLock, ledger, mode, queue, current, tries, osm, bus,
                 record, deaths>>

ClaimHost(h) ==
  /\ step = "hosts"
  /\ Claimed(h)
  /\ ledger' = ledger \cup {h}
  /\ UNCHANGED findings

EndSubmit ==
  /\ step = "hosts"
  /\ queue = {}
  /\ step' = "idle"
  /\ UNCHANGED <<findings, writeLock, ledger, mode, queue, current, tries, osm, bus,
                 record, deaths>>

Bump(count, names) ==
  [x \in Resources |-> IF x \in names /\ count[x] < MaxReports THEN count[x] + 1
                                                               ELSE count[x]]

\* OSM creates a report on whatever is POSTed, also a second one.
Filed ==
  /\ osm' = osm \cup current
  /\ reports' = Bump(reports, current)

Accepted ==
  /\ step = "posting"
  /\ Filed
  /\ confirmations' = Bump(confirmations, current)
  /\ step' = "answered"
  /\ UNCHANGED <<findings, writeLock, ledger, mode, queue, current, tries, bus,
                 abandoned, overlooked, deaths>>

\* An error that is not a 429: nothing was filed, or the answer was lost.
Fails ==
  /\ step = "posting"
  /\ Filed \/ UNCHANGED <<osm, reports>>
  /\ step' = "failed"
  /\ UNCHANGED <<findings, writeLock, ledger, mode, queue, current, tries, bus,
                 confirmations, abandoned, overlooked, deaths>>

\* Only the batch backs off and tries again.
RateLimited ==
  /\ step = "posting"
  /\ IF mode = "batch" /\ tries + 1 < MaxTries
     THEN tries' = tries + 1 /\ UNCHANGED step
     ELSE step' = "failed" /\ UNCHANGED tries
  /\ UNCHANGED <<findings, writeLock, ledger, mode, queue, current, osm, bus, record,
                 deaths>>

Back == IF current \subseteq Repos THEN "repos" ELSE "hosts"

Settled ==
  /\ current' = {}
  /\ tries' = 0
  /\ step' = Back
  /\ UNCHANGED <<writeLock, ledger, mode, queue, osm, record, deaths>>

\* The UPDATE by name of the repo in hand; for a host it concerns no row.
WithClaim(flag) ==
  [r \in Repos |-> IF r \in current THEN WithSubmitted(findings[r], flag)
                                     ELSE findings[r]]

\* The threat id is stored, and the bus told if its file can be written.
Record ==
  /\ step = "answered"
  /\ ~writeLock
  /\ findings' = WithClaim(TRUE)
  /\ bus' \in {bus} \cup (IF mode = "batch" THEN {bus \cup current} ELSE {})
  /\ Settled

\* "database is locked": the batch swallows it, the wizard takes it for a
\* failed submission.
RecordRefused ==
  /\ step = "answered"
  /\ writeLock
  /\ IF mode = "batch"
     THEN Settled /\ bus' \in {bus, bus \cup current}
     ELSE /\ step' = "failed"
          /\ UNCHANGED <<writeLock, ledger, mode, queue, current, tries, osm, bus,
                         record, deaths>>
  /\ UNCHANGED findings

\* Mutant: the claim is kept after a failed POST.
ReleaseForgets ==
  /\ step = "failed"
  /\ Settled
  /\ UNCHANGED <<findings, bus>>

\* unmark_osm_submitted for a repo; a host stays in the ledger.
Release ==
  /\ step = "failed"
  /\ current \subseteq Repos => ~writeLock
  /\ findings' = WithClaim(FALSE)
  /\ Settled
  /\ UNCHANGED bus

\* Killed, or a claim or a release was refused the write lock.
Dies ==
  /\ step # "idle"
  /\ deaths < MaxDeaths
  /\ deaths' = deaths + 1
  /\ \/ UNCHANGED <<osm, reports>>
     \/ step = "posting" /\ Filed
  /\ abandoned' = abandoned \cup current
  /\ step' = "idle"
  /\ queue' = {}
  /\ current' = {}
  /\ tries' = 0
  /\ UNCHANGED <<findings, writeLock, ledger, mode, bus, confirmations, overlooked>>

-----------------------------------------------------------------------------
(***************************************************************************)
(* The environment.                                                        *)
(***************************************************************************)

\* Someone else reports a resource; knorr also notes a host on the bus.
OthersReport(x) ==
  /\ osm' = osm \cup {x}
  /\ bus' \in {bus} \cup (IF x \in Hosts THEN {bus \cup {x}} ELSE {})
  /\ UNCHANGED <<findings, writeLock, ledger, submitter, record, deaths>>

\* Another process opens a transaction that outlasts the busy timeout of
\* 30 seconds, or ends it.
LongWrite ==
  /\ LongWrites
  /\ writeLock' = ~writeLock
  /\ UNCHANGED <<findings, submitVars>>

Gates == StartSubmit \/ SearchGate

Loop ==
  \/ \E r \in Repos : Skip(r) \/ ClaimRepo(r)
  \/ EndRepos
  \/ \E h \in Hosts : ClaimHost(h)
  \/ EndSubmit
  \/ Record
  \/ RecordRefused
  \/ Release

Post == Accepted \/ Fails \/ RateLimited

Submitting == Gates \/ Loop \/ Post \/ Dies

Next ==
  \/ Submitting
  \/ \E x \in Contested : OthersReport(x)
  \/ LongWrite

Spec == Init /\ [][Next]_vars

(***************************************************************************)
(* The submitter is run again and again and keeps going while it is alive; *)
(* whoever holds the write lock lets go of it, and often enough for a      *)
(* claim to get through; OSM accepts a report it is offered often enough.  *)
(***************************************************************************)
Fairness ==
  /\ WF_vars(writeLock /\ LongWrite)
  /\ SF_vars(Gates \/ Loop \/ Post)
  /\ SF_vars(Accepted)

FairSpec == Spec /\ Fairness

-----------------------------------------------------------------------------
\* OSM gets at most one report of ours on a resource: the claim covers the
\* crash and the recorded answer, and a report whose answer was lost, whose
\* claim is therefore released, is found by the next run's search.  The one
\* exception is a search that failed on a resource OSM already had.
ReportedAtMostOnce == \A x \in Resources : reports[x] <= 1 \/ x \in overlooked

\* The two claims, rows and ledger, implement the claim-first protocol.
Claims == {r \in Repos : findings[r].submitted} \cup ledger

Reporting == INSTANCE ClaimFirst WITH
  Items   <- Resources,
  claimed <- Claims,
  told    <- {x \in Resources : confirmations[x] > 0}

ImplementsClaimFirst == Reporting!Spec

\* A row says "submitted" only with a reason: OSM confirmed a report, the
\* claim is being worked on, or it was left behind by a submitter that died.
SubmittedIsAccountedFor ==
  \A r \in Repos :
    findings[r].submitted => confirmations[r] > 0 \/ r \in current \/ r \in abandoned

\* A finding fit for submission is reported in the end, by us or by someone
\* else, unless a submitter died holding its claim or its payload is gone.
Due(r) == Submittable(r, findings[r]) /\ r \notin Gone

DueIsReported == \A r \in Repos : Due(r) ~> (r \in osm \cup abandoned \/ ~Due(r))

=============================================================================
