------------------------------- MODULE Ingest -------------------------------
(***************************************************************************)
(* Ingestion (pipeline.py: run_ingestion; validator.py): one run at a      *)
(* time asks each feed which known actors it mentions, links feed and      *)
(* actor in the corroboration ledger, stores the indicators it is given,   *)
(* and then judges every actor it touched by the number of independent     *)
(* feeds.  Feeds are called through orchestration/resilience.py.  Each     *)
(* store is a transaction of its own and a run may die between two; hunts  *)
(* register actors and an analyst rejects them meanwhile.                  *)
(***************************************************************************)
EXTENDS Naturals, FiniteSets, Sequences

CONSTANTS
  Actors,
  Feeds,         \* the actor feeds, in the order they are called
  Cached,        \* the one that keeps its bundle in a file (MITRE ATT&CK)
  Mentions,      \* Mentions[f]: actors that feed f may name
  Artifacts,     \* indicators that the artifact feeds may bring
  Classes,       \* error classes of trigger.yaml
  Response,      \* Response[c]: "backoff", "flag_manual" or "skip_and_log"
  MaxRetries,    \* MaxRetries[c]
  Thresholds,    \* alerting thresholds of settings.yaml, by name
  MinSources,    \* feeds that must agree before an actor is promoted
  MaxCrashes     \* runs that may die

FeedNames == {Feeds[i] : i \in 1..Len(Feeds)}

ASSUME IngestAssumption ==
  /\ Feeds \in Seq(FeedNames)
  /\ \A i, j \in 1..Len(Feeds) : Feeds[i] = Feeds[j] => i = j
  /\ Mentions \in [FeedNames -> SUBSET Actors]
  /\ "unknown" \notin Classes
  /\ Response \in [Classes -> {"backoff", "flag_manual", "skip_and_log"}]
  /\ MaxRetries \in [Classes -> Nat]
  /\ \A n \in DOMAIN Thresholds : Thresholds[n] \in Nat
  /\ MinSources \in Nat \ {0}
  /\ MaxCrashes \in Nat

VARIABLES
  status,        \* threat_actors: status of each actor
  sources,       \* actor_sources: the feeds that have named it
  labelled,      \* malicious_artifacts
  cache,         \* the bundle file: absent, good, bad or stale
  runRow,        \* status of the newest row of runs
  pc,            \* where the run is
  feed,          \* which feed is next
  attempt,       \* failed calls of this feed
  errors,        \* RunHealth: counts, of the names that have a threshold
  alerted,       \* RunHealth: thresholds reported
  indicators,    \* an artifact feed is configured
  todo,          \* what the present loop has still to go through
  hand,          \* an actor between two transactions
  touched,       \* actors stored by this run
  feedErrors,    \* feeds given up by this run
  flagged,       \* feeds left to an operator by this run
  orphaned,      \* actors a dead run left without a verdict
  crashes

tables == <<status, sources, labelled, cache, runRow>>
calls  == <<feed, attempt, errors, alerted, feedErrors, flagged>>
vars   == <<tables, pc, calls, indicators, todo, hand, touched, orphaned, crashes>>

NoHand == [actor |-> "none", write |-> "none"]

Hands == {NoHand} \cup [actor : Actors, write : {"link", "promoted", "quarantined"}]

TypeOK ==
  /\ status \in [Actors -> {"absent", "candidate", "quarantined", "promoted", "rejected"}]
  /\ sources \in [Actors -> SUBSET FeedNames]
  /\ labelled \in SUBSET Artifacts
  /\ cache \in {"absent", "good", "bad", "stale"}
  /\ runRow \in {"none", "running", "completed", "failed"}
  /\ pc \in {"idle", "call", "store", "label", "validate"}
  /\ feed \in 1..(Len(Feeds) + 1)
  /\ attempt \in Nat
  /\ attempt > 0 => \E c \in Classes : attempt <= MaxRetries[c]
  /\ errors \in [DOMAIN Thresholds -> Nat]
  /\ alerted \in SUBSET DOMAIN Thresholds
  /\ indicators \in BOOLEAN
  /\ todo \in SUBSET (IF pc = "label" THEN Artifacts ELSE Actors)
  /\ hand \in Hands
  /\ touched \in SUBSET Actors
  /\ feedErrors \in SUBSET FeedNames
  /\ flagged \in SUBSET FeedNames
  /\ orphaned \in SUBSET Actors
  /\ crashes \in Nat

NoErrors == [n \in DOMAIN Thresholds |-> 0]

Init ==
  /\ status = [a \in Actors |-> "absent"]
  /\ sources = [a \in Actors |-> {}]
  /\ labelled = {}
  /\ cache = "absent"
  /\ runRow = "none"
  /\ pc = "idle"
  /\ feed = 1
  /\ attempt = 0
  /\ errors = NoErrors
  /\ alerted = {}
  /\ indicators = FALSE
  /\ todo = {}
  /\ hand = NoHand
  /\ touched = {}
  /\ feedErrors = {}
  /\ flagged = {}
  /\ orphaned = {}
  /\ crashes = 0

-----------------------------------------------------------------------------
(***************************************************************************)
(* Calling the feeds.                                                      *)
(***************************************************************************)

\* A run starts with an empty memory; artifact feeds are on if configured.
StartRun ==
  /\ pc = "idle"
  /\ pc' = "call"
  /\ runRow' = "running"
  /\ indicators' \in BOOLEAN
  /\ feed' = 1
  /\ attempt' = 0
  /\ errors' = NoErrors
  /\ alerted' = {}
  /\ touched' = {}
  /\ feedErrors' = {}
  /\ flagged' = {}
  /\ UNCHANGED <<status, sources, labelled, cache, todo, hand, orphaned, crashes>>

Calling(f) == pc = "call" /\ feed <= Len(Feeds) /\ Feeds[feed] = f

\* Mutant: a bundle that has expired is not downloaded again.
AnswersFromFile(f, S) ==
  /\ Calling(f)
  /\ f = Cached => cache \in {"absent", "good"} /\ S = Mentions[f]
  /\ cache' = IF f = Cached THEN "good" ELSE cache
  /\ todo' = S
  /\ pc' = "store"
  /\ attempt' = 0
  /\ UNCHANGED <<status, sources, labelled, runRow, feed, errors, alerted, feedErrors,
                 flagged, indicators, hand, touched, orphaned, crashes>>

\* A feed answers with some of the actors it may name, the cached one with all.
\* A fresh bundle is read from its file, any other is downloaded; that it cannot
\* be written to its file, or only in part, does not matter this time.
Answers(f, S) ==
  /\ Calling(f)
  /\ f = Cached => cache # "bad" /\ S = Mentions[f]
  /\ IF f = Cached /\ cache # "good" THEN cache' \in {cache, "good", "bad"}
                                     ELSE UNCHANGED cache
  /\ todo' = S
  /\ pc' = "store"
  /\ attempt' = 0
  /\ UNCHANGED <<status, sources, labelled, runRow, feed, errors, alerted, feedErrors,
                 flagged, indicators, hand, touched, orphaned, crashes>>

\* RunHealth counts the failure; a threshold it reaches is reported once.
Tally(c) ==
  /\ errors' = [n \in DOMAIN Thresholds |-> errors[n] + (IF n = c THEN 1 ELSE 0)]
  /\ alerted' = alerted \cup {n \in DOMAIN Thresholds : errors'[n] >= Thresholds[n]}

PassOver == feed' = feed + 1 /\ attempt' = 0

GiveUp(f) ==
  /\ PassOver
  /\ feedErrors' = feedErrors \cup {f}

\* What the playbook says of an error; one it does not know is raised.
Reaction(c) == IF c \in Classes THEN Response[c] ELSE "raise"

\* Mutant: one retry too many.
MayRetryOnceMore(c) == Reaction(c) = "backoff" /\ attempt <= MaxRetries[c]

MayRetry(c) == Reaction(c) = "backoff" /\ attempt < MaxRetries[c]

\* Mutants: calls without end; a source flagged for an operator is called again.
RespondForEver(f, c) ==
  /\ attempt' = attempt
  /\ UNCHANGED <<feed, feedErrors, flagged>>

RespondBlindly(f, c) ==
  /\ flagged' = IF Reaction(c) = "flag_manual" THEN flagged \cup {f} ELSE flagged
  /\ \/ /\ c \in Classes
        /\ attempt < MaxRetries[c]
        /\ attempt' = attempt + 1
        /\ UNCHANGED <<feed, feedErrors>>
     \/ GiveUp(f)

\* What resilient_call does with a failure; what it raises the pipeline records
\* as an error of the feed, what it skips is none.
Respond(f, c) ==
  \/ /\ MayRetry(c)
     /\ attempt' = attempt + 1
     /\ UNCHANGED <<feed, feedErrors, flagged>>
  \/ /\ Reaction(c) \in {"backoff", "raise"}
     /\ ~MayRetry(c)
     /\ GiveUp(f)
     /\ UNCHANGED flagged
  \/ /\ Reaction(c) = "flag_manual"
     /\ GiveUp(f)
     /\ flagged' = flagged \cup {f}
  \/ /\ Reaction(c) = "skip_and_log"
     /\ PassOver
     /\ UNCHANGED <<feedErrors, flagged>>

\* _load_bundle writes what it has downloaded before it parses it: a bad body
\* stays in the file and is read until the file is stale.
BundleFails ==
  \/ cache \in {"absent", "stale"} /\ cache' \in {cache, "bad"}
  \/ cache = "bad" /\ UNCHANGED cache

Fails(f, c) ==
  /\ Calling(f)
  /\ IF f = Cached THEN BundleFails ELSE UNCHANGED cache
  /\ Tally(c)
  /\ Respond(f, c)
  /\ UNCHANGED <<status, sources, labelled, runRow, pc, indicators, todo, hand, touched,
                 orphaned, crashes>>

-----------------------------------------------------------------------------
(***************************************************************************)
(* Storing what they say.                                                  *)
(***************************************************************************)

\* ensure_actor inserts a candidate and never touches the status of a row.
Ensured(a) == [status EXCEPT ![a] = IF @ = "absent" THEN "candidate" ELSE @]

Observe(a) ==
  /\ pc = "store"
  /\ hand = NoHand
  /\ a \in todo
  /\ status' = Ensured(a)
  /\ hand' = [actor |-> a, write |-> "link"]
  /\ UNCHANGED <<sources, labelled, cache, runRow, pc, calls, indicators, todo, touched,
                 orphaned, crashes>>

\* Mutant: only the actors of the last feed are remembered.
LinkAndForget(a) ==
  /\ hand = [actor |-> a, write |-> "link"]
  /\ sources' = [sources EXCEPT ![a] = @ \cup {Feeds[feed]}]
  /\ touched' = {a}
  /\ todo' = todo \ {a}
  /\ hand' = NoHand
  /\ UNCHANGED <<status, labelled, cache, runRow, pc, calls, indicators, orphaned, crashes>>

LinkSource(a) ==
  /\ hand = [actor |-> a, write |-> "link"]
  /\ sources' = [sources EXCEPT ![a] = @ \cup {Feeds[feed]}]
  /\ touched' = touched \cup {a}
  /\ todo' = todo \ {a}
  /\ hand' = NoHand
  /\ UNCHANGED <<status, labelled, cache, runRow, pc, calls, indicators, orphaned, crashes>>

FeedStored ==
  /\ pc = "store"
  /\ todo = {}
  /\ pc' = "call"
  /\ feed' = feed + 1
  /\ UNCHANGED <<tables, attempt, errors, alerted, feedErrors, flagged, indicators, todo,
                 hand, touched, orphaned, crashes>>

\* The artifact feeds keep what each request brings and swallow its failure.
CollectArtifacts(S) ==
  /\ pc = "call"
  /\ feed > Len(Feeds)
  /\ S # {} => indicators
  /\ pc' = "label"
  /\ todo' = S
  /\ UNCHANGED <<tables, calls, indicators, hand, touched, orphaned, crashes>>

Label(x) ==
  /\ pc = "label"
  /\ x \in todo
  /\ labelled' = labelled \cup {x}
  /\ todo' = todo \ {x}
  /\ UNCHANGED <<status, sources, cache, runRow, pc, calls, indicators, hand, touched,
                 orphaned, crashes>>

-----------------------------------------------------------------------------
(***************************************************************************)
(* Judging the actors.                                                     *)
(***************************************************************************)

BeginValidation ==
  /\ pc = "label"
  /\ todo = {}
  /\ pc' = "validate"
  /\ todo' = touched
  /\ UNCHANGED <<tables, calls, indicators, hand, touched, orphaned, crashes>>

\* Mutant: one feed fewer is enough.
VerdictEarly(a) == IF Cardinality(sources[a]) + 1 >= MinSources THEN "promoted" ELSE "quarantined"

Verdict(a) == IF Cardinality(sources[a]) >= MinSources THEN "promoted" ELSE "quarantined"

\* Mutant: a rejected actor is judged again.
ExamineAnew(a) ==
  /\ pc = "validate"
  /\ hand = NoHand
  /\ a \in todo
  /\ hand' = [actor |-> a, write |-> Verdict(a)]
  /\ UNCHANGED <<tables, pc, calls, indicators, todo, touched, orphaned, crashes>>

\* The row is read, and for an actor not rejected its feeds are counted.
Examine(a) ==
  /\ pc = "validate"
  /\ hand = NoHand
  /\ a \in todo
  /\ \/ /\ status[a] = "rejected"
        /\ todo' = todo \ {a}
        /\ orphaned' = orphaned \ {a}
        /\ UNCHANGED hand
     \/ /\ status[a] # "rejected"
        /\ hand' = [actor |-> a, write |-> Verdict(a)]
        /\ UNCHANGED <<todo, orphaned>>
  /\ UNCHANGED <<tables, pc, calls, indicators, touched, crashes>>

\* The verdict is written on whatever the row says by now.
SetStatus(a) ==
  /\ hand.actor = a
  /\ hand.write \in {"promoted", "quarantined"}
  /\ status' = [status EXCEPT ![a] = hand.write]
  /\ todo' = todo \ {a}
  /\ orphaned' = orphaned \ {a}
  /\ hand' = NoHand
  /\ UNCHANGED <<sources, labelled, cache, runRow, pc, calls, indicators, touched, crashes>>

TotalFeeds == Cardinality(FeedNames) + (IF indicators THEN 1 ELSE 0)

AllFailed == TotalFeeds > 0 /\ Cardinality(feedErrors) = TotalFeeds

FinishRun ==
  /\ pc = "validate"
  /\ todo = {}
  /\ runRow' = IF AllFailed THEN "failed" ELSE "completed"
  /\ pc' = "idle"
  /\ UNCHANGED <<status, sources, labelled, cache, calls, indicators, todo, hand, touched,
                 orphaned, crashes>>

\* A run that dies leaves its row running and its actors without a verdict.
Crash ==
  /\ pc # "idle"
  /\ crashes < MaxCrashes
  /\ crashes' = crashes + 1
  /\ pc' = "idle"
  /\ orphaned' = orphaned \cup (IF pc = "validate" THEN todo
                                ELSE touched \cup ({hand.actor} \cap Actors))
  /\ todo' = {}
  /\ hand' = NoHand
  /\ touched' = {}
  /\ UNCHANGED <<tables, calls, indicators>>

-----------------------------------------------------------------------------
(***************************************************************************)
(* Others.                                                                 *)
(***************************************************************************)

\* A hunt registers the actor a finding is attributed to.
HuntNames(a) ==
  /\ status[a] = "absent"
  /\ status' = Ensured(a)
  /\ UNCHANGED <<sources, labelled, cache, runRow, pc, calls, indicators, todo, hand, touched,
                 orphaned, crashes>>

\* The analyst's verdict: upsert_actor with status rejected.
Reject(a) ==
  /\ status[a] \notin {"absent", "rejected"}
  /\ status' = [status EXCEPT ![a] = "rejected"]
  /\ UNCHANGED <<sources, labelled, cache, runRow, pc, calls, indicators, todo, hand, touched,
                 orphaned, crashes>>

\* The bundle exceeds its maximal age.
Expire ==
  /\ cache \in {"good", "bad"}
  /\ cache' = "stale"
  /\ UNCHANGED <<status, sources, labelled, runRow, pc, calls, indicators, todo, hand, touched,
                 orphaned, crashes>>

Call ==
  \E f \in FeedNames : \/ \E S \in SUBSET Mentions[f] : Answers(f, S)
                       \/ \E c \in Classes \cup {"unknown"} : Fails(f, c)

Progress ==
  \/ StartRun
  \/ Call
  \/ \E a \in Actors : Observe(a) \/ LinkSource(a) \/ Examine(a) \/ SetStatus(a)
  \/ FeedStored
  \/ \E S \in SUBSET Artifacts : CollectArtifacts(S)
  \/ \E x \in Artifacts : Label(x)
  \/ BeginValidation
  \/ FinishRun

Next ==
  \/ Progress
  \/ Crash
  \/ Expire
  \/ \E a \in Actors : HuntNames(a) \/ Reject(a)

Spec == Init /\ [][Next]_vars

\* A run goes on while it lives, another one follows, and time passes.
FairSpec == Spec /\ WF_vars(Progress) /\ WF_vars(Expire)

-----------------------------------------------------------------------------
Corroborated(a) == Cardinality(sources[a]) >= MinSources

\* "An actor is only PROMOTED once at least two independent feeds corroborate
\* it" (enums.py), whatever dies, whoever interferes and in whichever runs the
\* feeds named it.
PromotedIsCorroborated ==
  \A a \in Actors : status[a] = "promoted" => Corroborated(a)

\* Between runs every actor some feed has named has the status its ledger calls
\* for, or was rejected, or was orphaned by a run that died and has not been
\* named since.
SettledUnlessOrphaned ==
  pc = "idle" => \A a \in Actors :
    sources[a] # {} => \/ status[a] = IF Corroborated(a) THEN "promoted" ELSE "quarantined"
                       \/ status[a] = "rejected"
                       \/ a \in orphaned

JudgedBefore(a) == hand.actor = a /\ hand.write \in {"promoted", "quarantined"}

\* A rejection is sticky (validator.py): no verdict on a rejected actor is ever
\* begun, and the only one ever written was reached before the rejection.
RejectionSticky ==
  [][\A a \in Actors : status[a] = "rejected" =>
       /\ JudgedBefore(a)' => JudgedBefore(a)
       /\ status'[a] = "rejected" \/ JudgedBefore(a)]_vars

\* trigger.yaml: "no blind retry; alert and stop this source".
FlaggedIsStopped ==
  \A f \in flagged : f \in feedErrors /\ ~Calling(f)

\* Every run comes to its end, though every call of every feed fails.
RunEnds == pc # "idle" ~> pc = "idle"

\* Feeds answer in full often enough.
FeedsAnswer == \A f \in FeedNames : SF_vars(Answers(f, Mentions[f]))

\* An actor enough feeds keep naming is promoted or rejected in the end: no
\* death in mid-run and no bad bundle keeps it back for ever.
CorroboratedIsPromoted ==
  FeedsAnswer => \A a \in Actors :
    Cardinality({f \in FeedNames : a \in Mentions[f]}) >= MinSources =>
      <>(status[a] \in {"promoted", "rejected"})

=============================================================================
