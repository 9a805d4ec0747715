------------------------------ MODULE Campaign ------------------------------
(***************************************************************************)
(* How one confirmed repo leads to the next and to a name: hunts that scan *)
(* their candidates in a container or on the host, mine what they confirm, *)
(* search for what was mined, and after each run spread an attribution     *)
(* over the repos that share a loader (correlate.py).                      *)
(*                                                                         *)
(* Discovery, Tier-1 and delivery are those of Hunt, kept here to what the *)
(* learning loop needs: which untracked repos a run is offered.  A row     *)
(* keeps every hit of the scan, where the program keeps the first 20 with  *)
(* the confirming ones leading.  "validated" counts as "confirmed" in all  *)
(* the reads modelled here, so one status stands for both.                 *)
(***************************************************************************)
EXTENDS Attribution

CONSTANTS
  Repos,
  Hunts,        \* runs that may be alive at the same time
  Lines,        \* Lines[r]: where patterns match in the clone of r
  Mentions,     \* Mentions[r]: the hosts any text of r names
  Publishes,    \* Publishes[r]: the package versions r publishes
  Flagged,      \* repos GuardDog flags, where it is installed
  Relation,     \* Relation[r]: to a pinned red-team tool
  Added,        \* Added[r]: the files a fork changed, as GitHub lists them
  Named,        \* Named[r]: the actors the source that offers r may name
  Fed,          \* Fed[h]: repos the sources of h's command line offer
  Learning,     \* hunts that also search for what was learned
  Listed,       \* package versions OSM lists as compromised
  Manifest,     \* those of the incident manifest on the host
  Bundled,      \* those of the manifest in the container's image
  Sandboxed,    \* Sandboxed[h]: the settings of GW_SANDBOX h is run with
  Doubted,      \* repos the analyst may reject
  MaxCrashes

Relations == {"none", "namesake", "mirror", "fork"}

\* What a repo teaches: hosts, loader stubs and the path of a dropper.
Iocs == Hosts \cup Stubs \cup {"dropper-path"}

ASSUME CampaignAssumption ==
  /\ Lines \in [Repos -> SUBSET Line]
  /\ Mentions \in [Repos -> SUBSET Hosts]
  /\ \A r \in Repos : \A l \in Lines[r] : l.hosts \subseteq Mentions[r]
  /\ Publishes \in [Repos -> SUBSET Packages]
  /\ Relation \in [Repos -> Relations]
  /\ Added \in [Repos -> SUBSET Files]
  /\ Named \in [Repos -> SUBSET (Actors \cup {"none"})]
  /\ Fed \in [Hunts -> SUBSET Repos]
  /\ Learning \subseteq Hunts
  /\ "none" \notin Repos \cup Stubs \cup Iocs
  /\ Sandboxed \in [Hunts -> SUBSET BOOLEAN]
  /\ MaxCrashes \in Nat

\* A row has one payload_key, that of the first of its hits that carries a
\* loader.  Nobody injects two loaders into one repo, so it does not matter
\* which comes first.
ASSUME OneLoader ==
  \A r \in Repos : \A k, l \in Lines[r] :
    k.stub # "none" /\ l.stub # "none" => k.stub = l.stub

VARIABLES
  row,         \* the repo_findings table, as far as it matters here
  learned,     \* learned[v]: the repo v was first mined from, or "none"
  pc,          \* where each hunt is
  wants,       \* it wants the sandbox
  docker,      \* Docker answered when Tier-2 began
  offers,      \* untracked repos its sources offer
  todo,        \* its candidates with the actor named, or "absent"
  at,          \* the repo it is scanning or mining
  left,        \* what it still has to store of that repo's IOCs
  stamps,      \* the attributions its correlation has yet to write
  containers,  \* scan containers that are alive, by hunt and repo
  astray,      \* those whose removal or client failed, or whose hunt died
  clones,      \* trees in the scratch directory of a run, by hunt and repo
  stuck,       \* those whose removal failed, in part or altogether
  husks,       \* trees a run left on the disk for good
  untaught,    \* confirmed by a hunt that died before all was stored
  crashes

local == <<pc, wants, docker, offers, todo, at, left, stamps>>
trees == <<containers, astray, clones, stuck, husks>>
vars  == <<row, learned, local, trees, untaught, crashes>>

NoRow == [status |-> "none", actor |-> "none", hits |-> {}]

Nothing == [r \in Repos |-> "absent"]

TypeOK ==
  /\ row \in [Repos -> [status : {"none", "screened", "confirmed", "rejected"},
                        actor  : Actors \cup {"none"},
                        hits   : SUBSET Line]]
  /\ learned \in [Iocs -> Repos \cup {"none"}]
  /\ pc \in [Hunts -> {"idle", "track", "tier2", "box", "host", "mine",
                       "correlate", "stamp"}]
  /\ wants \in [Hunts -> BOOLEAN]
  /\ docker \in [Hunts -> BOOLEAN]
  /\ offers \in [Hunts -> SUBSET Repos]
  /\ todo \in [Hunts -> [Repos -> Actors \cup {"none", "absent"}]]
  /\ at \in [Hunts -> Repos \cup {"none"}]
  /\ left \in [Hunts -> SUBSET Iocs]
  /\ stamps \in [Hunts -> SUBSET (Repos \X Actors)]
  /\ containers \subseteq Hunts \X Repos
  /\ astray \subseteq Hunts \X Repos
  /\ clones \subseteq Hunts \X Repos
  /\ stuck \subseteq Hunts \X Repos
  /\ husks \subseteq Hunts \X Repos
  /\ untaught \subseteq Repos
  /\ crashes \in Nat

Init ==
  /\ row = [r \in Repos |-> NoRow]
  /\ learned = [v \in Iocs |-> "none"]
  /\ pc = [h \in Hunts |-> "idle"]
  /\ wants = [h \in Hunts |-> FALSE]
  /\ docker = [h \in Hunts |-> FALSE]
  /\ offers = [h \in Hunts |-> {}]
  /\ todo = [h \in Hunts |-> Nothing]
  /\ at = [h \in Hunts |-> "none"]
  /\ left = [h \in Hunts |-> {}]
  /\ stamps = [h \in Hunts |-> {}]
  /\ containers = {}
  /\ astray = {}
  /\ clones = {}
  /\ stuck = {}
  /\ husks = {}
  /\ untaught = {}
  /\ crashes = 0

GoTo(h, there) == pc' = [pc EXCEPT ![h] = there]

\* upsert_finding: a rejection stays, an actor that is there stays.  Every
\* source registers the actor it names first, so the foreign key holds.
Upsert(old, status, actor, hits) ==
  [status |-> IF old.status = "rejected" THEN "rejected" ELSE status,
   actor  |-> IF old.actor # "none" THEN old.actor ELSE actor,
   hits   |-> hits]

Save(h, r, status, hits) ==
  row' = [row EXCEPT ![r] = Upsert(@, status, todo[h][r], hits)]

-----------------------------------------------------------------------------
(***************************************************************************)
(* Discovery.                                                              *)
(***************************************************************************)

\* What a code search for a learned term can find r by.
Carries(r) ==
  Mentions[r] \cup {l.stub : l \in Lines[r]}
              \cup {"dropper-path" : l \in {m \in Lines[r] : "dropper" \in m.marks}}

\* A repo related to a red-team tool comes from the lineage source; found by
\* a search it would be stopped for its name (Hunt).
Offered(h, r) ==
  /\ row[r].status = "none"
  /\ \/ r \in Fed[h]
     \/ /\ h \in Learning
        /\ Relation[r] = "none"
        /\ \E v \in Carries(r) \cap Iocs : learned[v] # "none"

Start(h) ==
  /\ pc[h] = "idle"
  /\ offers' = [offers EXCEPT ![h] = {r \in Repos : Offered(h, r)}]
  /\ GoTo(h, "track")
  /\ UNCHANGED <<row, learned, wants, docker, todo, at, left, stamps, trees,
                 untaught, crashes>>

\* A source offers r, naming an actor or none, and Tier-1 lets it pass.
Track(h, r) ==
  /\ pc[h] = "track"
  /\ r \in offers[h]
  /\ \E actor \in Named[r] :
       /\ row' = [row EXCEPT ![r] = Upsert(@, "screened", actor, {})]
       /\ todo' = [todo EXCEPT ![h][r] = actor]
  /\ offers' = [offers EXCEPT ![h] = @ \ {r}]
  /\ UNCHANGED <<learned, pc, wants, docker, at, left, stamps, trees, untaught, crashes>>

\* What a source does not return this time is offered again.  Tier-2 begins
\* by asking once whether Docker is there.
EndTracking(h) ==
  /\ pc[h] = "track"
  /\ \E wanted \in Sandboxed[h], up \in BOOLEAN :
       /\ wants' = [wants EXCEPT ![h] = wanted]
       /\ docker' = [docker EXCEPT ![h] = wanted /\ up]
  /\ offers' = [offers EXCEPT ![h] = {}]
  /\ GoTo(h, "tier2")
  /\ UNCHANGED <<row, learned, todo, at, left, stamps, trees, untaught, crashes>>

-----------------------------------------------------------------------------
(***************************************************************************)
(* Tier-2, one candidate at a time.                                        *)
(***************************************************************************)
Queued(h, r) == pc[h] = "tier2" /\ todo[h][r] # "absent"

Drop(h, r) == todo' = [todo EXCEPT ![h][r] = "absent"]

Lineage(r) == Relation[r] # "none"

\* _intent_gate: an unmodified fork is dropped; a namesake, and a fork that
\* cannot be compared, stays a lead.
IntentVerdicts(r) ==
  CASE Relation[r] = "none"     -> {}
    [] Relation[r] = "mirror"   -> {"rejected", "screened"}
    [] OTHER                    -> {"screened"}

Gate(h, r) ==
  /\ Queued(h, r)
  /\ \E status \in IntentVerdicts(r) : Save(h, r, status, {})
  /\ Drop(h, r)
  /\ UNCHANGED <<learned, pc, wants, docker, offers, at, left, stamps, trees,
                 untaught, crashes>>

\* Past the gate, for a fork because it differs from its upstream.
Scannable(h, r) == Queued(h, r) /\ Relation[r] \in {"none", "fork"}

\* The host is used only when nobody asked for the sandbox.
UsesHost(h) == ~wants[h]

\* The sandbox is wanted and Docker is not there: the repo is not scanned.
Unscanned(h, r) ==
  /\ Scannable(h, r)
  /\ wants[h]
  /\ ~docker[h]
  /\ Drop(h, r)
  /\ UNCHANGED <<row, learned, pc, wants, docker, offers, at, left, stamps, trees,
                 untaught, crashes>>

StartContainer(h, r) ==
  /\ Scannable(h, r)
  /\ docker[h]
  /\ containers' = containers \cup {<<h, r>>}
  /\ at' = [at EXCEPT ![h] = r]
  /\ GoTo(h, "box")
  /\ UNCHANGED <<row, learned, wants, docker, offers, todo, left, stamps, astray,
                 clones, stuck, husks, untaught, crashes>>

\* git clone into the run's scratch directory.  One that fails leaves no tree,
\* unless what is there of it cannot be removed either.
Clone(h, r) ==
  /\ Scannable(h, r)
  /\ UsesHost(h)
  /\ \/ /\ clones' = clones \cup {<<h, r>>}
        /\ at' = [at EXCEPT ![h] = r]
        /\ GoTo(h, "host")
        /\ UNCHANGED <<todo, stuck>>
     \/ /\ Drop(h, r)
        /\ \/ UNCHANGED <<clones, stuck>>
           \/ /\ clones' = clones \cup {<<h, r>>}
              /\ stuck' = stuck \cup {<<h, r>>}
        /\ UNCHANGED <<pc, at>>
  /\ UNCHANGED <<row, learned, wants, docker, offers, left, stamps, containers,
                 astray, husks, untaught, crashes>>

\* Mutant: a scan that timed out is given up without removing its container.
GivesUpOnContainer(h, r) ==
  /\ containers' = containers
  /\ astray' = astray

\* _reap: one attempt to remove a container that may still be running.
Reaps(h, r) ==
  \/ /\ containers' = containers \ {<<h, r>>}
     /\ astray' = astray
  \/ /\ containers' = containers
     /\ astray' = astray \cup {<<h, r>>}

BackToQueue(h, r) ==
  /\ Drop(h, r)
  /\ at' = [at EXCEPT ![h] = "none"]
  /\ GoTo(h, "tier2")

\* The scan took longer than the limit, or the client could not be run.
ScanTimesOut(h) ==
  /\ pc[h] = "box"
  /\ Reaps(h, at[h])
  /\ BackToQueue(h, at[h])
  /\ UNCHANGED <<row, learned, wants, docker, offers, left, stamps, clones, stuck,
                 husks, untaught, crashes>>

\* Exit code, output or clone_failed: no result.  Of an exit code the code
\* asks no more, though the client may have lost a container that runs on.
ContainerFails(h) ==
  /\ pc[h] = "box"
  /\ \/ /\ containers' = containers \ {<<h, at[h]>>}
        /\ astray' = astray
     \/ /\ containers' = containers
        /\ astray' = astray \cup {<<h, at[h]>>}
  /\ BackToQueue(h, at[h])
  /\ UNCHANGED <<row, learned, wants, docker, offers, left, stamps, clones, stuck,
                 husks, untaught, crashes>>

\* A container nobody waits for comes to its end; --rm removes it.
ContainerExits(h, r) ==
  /\ <<h, r>> \in containers
  /\ ~(pc[h] = "box" /\ at[h] = r)
  /\ containers' = containers \ {<<h, r>>}
  /\ astray' = astray \ {<<h, r>>}
  /\ UNCHANGED <<row, learned, local, clones, stuck, husks, untaught, crashes>>

-----------------------------------------------------------------------------
(***************************************************************************)
(* What a scan says, and what becomes of it.                               *)
(***************************************************************************)

\* The container is given the name of the repo and nothing else, and its
\* image has no GuardDog.
BoxedResult(r) == Analyze(Lines[r], Files, AllCategories, {}, FALSE)

\* A changed fork counts by what it changed; if GitHub lists no file of the
\* difference, by all of it.
Restricted(r) == IF Lineage(r) /\ Added[r] # {} THEN Added[r] ELSE Files

HostResult(r, guarddog) ==
  Analyze(Lines[r], Restricted(r),
          IF Lineage(r) THEN WeaponizationCategories ELSE AllCategories,
          Listed, guarddog /\ r \in Flagged)

\* extract_repo_iocs: throwaway hosts that any text of the repo names.
MinedHosts(r) == {h \in Mentions[r] : HostClass[h] = "throwaway"}

\* Mutant: a pattern without a loader yields an empty signature.
MinedSignaturesOrBlanks(r) == {l.stub : l \in Lines[r]}

\* extract_code_signatures: loader stubs and the path of a dropper.  The code
\* asks for the reputation of the first host on the line: one that names a
\* reputable host beside another is taken not to begin with it.  Its pattern
\* for a dropper and that of dprk.py differ; the mark stands for both.
MinedSignatures(r) ==
  LET read == {l \in Lines[r] : l.file \notin Ignored}
  IN {l.stub : l \in {m \in read : m.stub # "none"}} \cup
     {"dropper-path" : l \in {m \in read : "dropper" \in m.marks /\ ~OnlyReputable(m)}}

Mines(r) == MinedHosts(r) \cup MinedSignatures(r)

\* A fork confirmed below the auto tier stays a lead; a repo that did not
\* confirm is saved again only if it publishes a compromised package.
Conclude(h, r, result, intel) ==
  IF ~result.confirmed \/ (Lineage(r) /\ result.confidence # "auto")
  THEN /\ IF result.confirmed \/ SpreadSource(Publishes[r], intel)
          THEN Save(h, r, "screened", {})
          ELSE row' = row
       /\ BackToQueue(h, r)
       /\ left' = left
  ELSE /\ Save(h, r, "confirmed", result.hits)
       /\ left' = [left EXCEPT ![h] = Mines(r)]
       /\ GoTo(h, "mine")
       /\ UNCHANGED <<todo, at>>

ContainerAnswers(h) ==
  /\ pc[h] = "box"
  /\ Conclude(h, at[h], BoxedResult(at[h]), Bundled)
  /\ containers' = containers \ {<<h, at[h]>>}
  /\ UNCHANGED <<learned, wants, docker, offers, stamps, astray, clones, stuck,
                 husks, untaught, crashes>>

\* Too large, the scanner raised, or the finally clause did, which could not
\* remove the tree: that takes the place of whatever the scan has found.
HostScanFails(h) ==
  /\ pc[h] = "host"
  /\ \/ /\ clones' = clones \ {<<h, at[h]>>}
        /\ stuck' = stuck
     \/ /\ clones' = clones
        /\ stuck' = stuck \cup {<<h, at[h]>>}
  /\ BackToQueue(h, at[h])
  /\ UNCHANGED <<row, learned, wants, docker, offers, left, stamps, containers,
                 astray, husks, untaught, crashes>>

\* The scan has a result and its tree is gone.
HostScan(h) ==
  /\ pc[h] = "host"
  /\ \E guarddog \in BOOLEAN :
       Conclude(h, at[h], HostResult(at[h], guarddog), Listed \cup Manifest)
  /\ clones' = clones \ {<<h, at[h]>>}
  /\ UNCHANGED <<learned, wants, docker, offers, stamps, containers, astray, stuck,
                 husks, untaught, crashes>>

\* record_learned_ioc, one transaction each: the first source keeps the value.
Mine(h, v) ==
  /\ pc[h] = "mine"
  /\ v \in left[h]
  /\ learned' = [learned EXCEPT ![v] = IF @ = "none" THEN at[h] ELSE @]
  /\ left' = [left EXCEPT ![h] = @ \ {v}]
  /\ UNCHANGED <<row, pc, wants, docker, offers, todo, at, stamps, trees,
                 untaught, crashes>>

\* Mutant: the first value that cannot be stored ends the loop.
GivesUpMining(h) ==
  /\ pc[h] = "mine"
  /\ left' = [left EXCEPT ![h] = {}]
  /\ BackToQueue(h, at[h])
  /\ UNCHANGED <<row, learned, wants, docker, offers, stamps, trees, untaught, crashes>>

EndMining(h) ==
  /\ pc[h] = "mine"
  /\ left[h] = {}
  /\ BackToQueue(h, at[h])
  /\ UNCHANGED <<row, learned, wants, docker, offers, left, stamps, trees,
                 untaught, crashes>>

Own(h, downloads) == {t \in downloads : t[1] = h}

\* Mutant: the scratch directory is left to the removals of the scans.
EndTier2InScratch(h) ==
  /\ pc[h] = "tier2"
  /\ todo[h] = Nothing
  /\ GoTo(h, "correlate")
  /\ UNCHANGED <<row, learned, wants, docker, offers, todo, at, left, stamps, trees,
                 untaught, crashes>>

\* The scratch directory goes, with what the scans could not remove from it.
EndTier2(h) ==
  /\ pc[h] = "tier2"
  /\ todo[h] = Nothing
  /\ clones' = clones \ Own(h, clones)
  /\ stuck' = stuck \ Own(h, stuck)
  /\ GoTo(h, "correlate")
  /\ UNCHANGED <<row, learned, wants, docker, offers, todo, at, left, stamps,
                 containers, astray, husks, untaught, crashes>>

-----------------------------------------------------------------------------
(***************************************************************************)
(* propagate_campaign_attribution: one read of the table, then one UPDATE  *)
(* per repo to be stamped.                                                 *)
(***************************************************************************)
Confirmed(r) == row[r].status = "confirmed"

\* payload_key: the loader among the hits saved with the row.
PayloadKeys(flags) == {l.stub : l \in flags} \ {"none"}

\* Mutant: repos that only share an attacker host are one campaign too.
SharesLoaderOrHost(q, r) ==
  \/ PayloadKeys(row[q].hits) \cap PayloadKeys(row[r].hits) # {}
  \/ C2Hosts(row[q].hits) \cap C2Hosts(row[r].hits) # {}

SharesLoader(q, r) == PayloadKeys(row[q].hits) \cap PayloadKeys(row[r].hits) # {}

Members(r) == {q \in Repos : Confirmed(q) /\ SharesLoader(q, r)}

\* The actors of the members of r's campaign: the code takes the first one
\* in the order of the table.
ActorsOf(campaign) == {row[q].actor : q \in campaign} \ {"none"}

\* Mutant: two repos are no campaign yet.
UnnamedOfThree ==
  {r \in Repos : /\ Confirmed(r) /\ row[r].actor = "none"
                 /\ Cardinality(Members(r)) > 2
                 /\ ActorsOf(Members(r)) # {}}

\* The repos to be stamped, each with some attributed member beside it.
Unnamed ==
  {r \in Repos : /\ Confirmed(r) /\ row[r].actor = "none"
                 /\ Cardinality(Members(r)) >= 2
                 /\ ActorsOf(Members(r)) # {}}

Correlate(h) ==
  /\ pc[h] = "correlate"
  /\ \E first \in [Unnamed -> Actors] :
       /\ \A r \in Unnamed : first[r] \in ActorsOf(Members(r))
       /\ \A q, r \in Unnamed : Members(q) = Members(r) => first[q] = first[r]
       /\ stamps' = [stamps EXCEPT ![h] = {<<r, first[r]>> : r \in Unnamed}]
  /\ GoTo(h, "stamp")
  /\ UNCHANGED <<row, learned, wants, docker, offers, todo, at, left, trees,
                 untaught, crashes>>

\* set_attribution asks nothing of the row it updates.
Stamp(h, s) ==
  /\ pc[h] = "stamp"
  /\ s \in stamps[h]
  /\ row' = [row EXCEPT ![s[1]].actor = s[2]]
  /\ stamps' = [stamps EXCEPT ![h] = @ \ {s}]
  /\ UNCHANGED <<learned, pc, wants, docker, offers, todo, at, left, trees,
                 untaught, crashes>>

Finish(h) ==
  /\ pc[h] = "stamp"
  /\ stamps[h] = {}
  /\ wants' = [wants EXCEPT ![h] = FALSE]
  /\ docker' = [docker EXCEPT ![h] = FALSE]
  /\ GoTo(h, "idle")
  /\ UNCHANGED <<row, learned, offers, todo, at, left, stamps, trees, untaught, crashes>>

-----------------------------------------------------------------------------
(***************************************************************************)
(* Hunts that end early, and a row the analyst rejects.                    *)
(***************************************************************************)
Aborts(h) ==
  /\ crashes < MaxCrashes
  /\ crashes' = crashes + 1
  /\ husks' = husks \cup Own(h, clones)
  /\ clones' = clones \ Own(h, clones)
  /\ stuck' = stuck \ Own(h, stuck)
  /\ GoTo(h, "idle")
  /\ wants' = [wants EXCEPT ![h] = FALSE]
  /\ docker' = [docker EXCEPT ![h] = FALSE]

\* The scratch directory cannot be removed either: the exception ends the run.
ScratchStays(h) ==
  /\ pc[h] = "tier2"
  /\ todo[h] = Nothing
  /\ Own(h, stuck) # {}
  /\ Aborts(h)
  /\ UNCHANGED <<row, learned, offers, todo, at, left, stamps, containers, astray,
                 untaught>>

\* A hunt that is killed leaves its container running, its clones on the disk
\* and its IOCs unlearned.  (One that another exception ends in Tier-2 removes
\* its clones first, and leaves no more than this.)
Die(h) ==
  /\ pc[h] # "idle"
  /\ Aborts(h)
  /\ astray' = astray \cup Own(h, containers)
  /\ untaught' = IF left[h] # {} THEN untaught \cup {at[h]} ELSE untaught
  /\ offers' = [offers EXCEPT ![h] = {}]
  /\ todo' = [todo EXCEPT ![h] = Nothing]
  /\ at' = [at EXCEPT ![h] = "none"]
  /\ left' = [left EXCEPT ![h] = {}]
  /\ stamps' = [stamps EXCEPT ![h] = {}]
  /\ UNCHANGED <<row, learned, containers>>

Reject(r) ==
  /\ r \in Doubted
  /\ row[r].status \in {"screened", "confirmed"}
  /\ row' = [row EXCEPT ![r].status = "rejected"]
  /\ UNCHANGED <<learned, local, trees, untaught, crashes>>

Discovery(h) == Start(h) \/ (\E r \in Repos : Track(h, r)) \/ EndTracking(h)

Tier2(h) ==
  \/ \E r \in Repos :
       Gate(h, r) \/ Unscanned(h, r) \/ StartContainer(h, r) \/ Clone(h, r)
  \/ ScanTimesOut(h) \/ ContainerFails(h) \/ ContainerAnswers(h)
  \/ HostScanFails(h) \/ HostScan(h)
  \/ (\E v \in Iocs : Mine(h, v)) \/ EndMining(h) \/ EndTier2(h)

Correlation(h) ==
  Correlate(h) \/ (\E s \in Repos \X Actors : Stamp(h, s)) \/ Finish(h)

Progress(h) == Discovery(h) \/ Tier2(h) \/ Correlation(h)

Next ==
  \/ \E h \in Hunts : Progress(h) \/ ScratchStays(h) \/ Die(h)
  \/ \E h \in Hunts, r \in Repos : ContainerExits(h, r)
  \/ \E r \in Repos : Reject(r)

Spec == Init /\ [][Next]_vars

\* Hunts are run again and again, which is up to the operator: the workflow
\* runs on demand only.  A hunt that runs goes on: clones, containers and
\* requests all have time limits, and what ends one early happens now and then.
FairSpec == Spec /\ \A h \in Hunts : WF_vars(Progress(h))

-----------------------------------------------------------------------------
(***************************************************************************)
(* Properties.                                                             *)
(***************************************************************************)
Loaders(r) == {l.stub : l \in Lines[r]} \ {"none"}

\* r itself, and the repos that carry the same loader.
Kin(r) == {r} \cup {q \in Repos : Loaders(q) \cap Loaders(r) # {}}

\* An actor on a row was named by some source, for that repo or for one with
\* the same loader ("it can never invent an attribution", correlate.py:56),
\* whatever two hunts and their stale snapshots do to the table.
AttributionTraced ==
  \A r \in Repos :
    row[r].actor # "none" => \E q \in Kin(r) : row[r].actor \in Named[q]

\* What a confirmed repo teaches has been learned, unless its hunt is still
\* storing it or died doing so: the confirmation is saved first, and --resume
\* skips a repo that has its code hash.
ConfirmedIsLearned ==
  \A r \in Repos :
    \/ ~Confirmed(r)
    \/ r \in untaught
    \/ \E h \in Hunts : pc[h] = "mine" /\ at[h] = r
    \/ \A v \in Mines(r) : learned[v] # "none"

\* A tree on the host is that of the scan under way, or could not be removed
\* and waits for the end of Tier-2; its hunt did not want the sandbox.
CloneInUse(h, r) ==
  /\ ~wants[h]
  /\ \/ pc[h] = "host" /\ at[h] = r
     \/ <<h, r>> \in stuck /\ pc[h] \in {"tier2", "host", "mine"}

ContainerInUse(h, r) == pc[h] = "box" /\ at[h] = r

\* What was downloaded does not outlast its use: no scan, whatever becomes of
\* it, leaves a tree that the end of Tier-2 does not remove, or else the run
\* ends there ("the clone is force-removed on every exit path", tier2.py:570,
\* promises more than that), and no container runs that nobody waits for.
\* What remains are the trees of a run that was cut short (husks), and the
\* containers of such a run, those that Docker did not remove at the one
\* attempt, and those that outlived a client which failed, as then nobody
\* makes one (astray).
NothingLeftBehind ==
  /\ \A h \in Hunts, r \in Repos :
       /\ <<h, r>> \in clones => CloneInUse(h, r)
       /\ <<h, r>> \in containers \ astray => ContainerInUse(h, r)
  /\ husks = {} \/ crashes > 0

\* Mutant: the repo under assessment counts among the others.
InfraHostsOfAll(exclude) ==
  UNION {C2Hosts(row[q].hits) :
           q \in {p \in Repos : /\ Confirmed(p)
                                /\ DprkActor(row[p].actor) \/ HasVector(row[p].hits)}}

\* dprk_infra_hosts: hosts of the other repos that are attributed or show the
\* tradecraft.
DprkInfraHosts(exclude) ==
  UNION {C2Hosts(row[q].hits) :
           q \in {p \in Repos \ {exclude} :
                    /\ Confirmed(p)
                    /\ DprkActor(row[p].actor) \/ HasVector(row[p].hits)}}

\* What is reported of r.
Claim(r) == Attribute(row[r].hits, row[r].actor, DprkInfraHosts(r))

\* A report that says who is behind a repo rests on two signals of the repo
\* itself, on a group some source named (AttributionTraced), or on another
\* confirmed repo that shares a host; never on the repo's own host counted
\* twice ("so a repo never self-corroborates", dprk.py:169).
ClaimIsEarned ==
  \A r \in Repos :
    Confirmed(r) /\ Asserted(Claim(r).tier) =>
      \/ Cardinality(OwnSignals(row[r].hits)) >= 2
      \/ NamedGroup(row[r].actor)
      \/ \E q \in Repos \ {r} :
           Confirmed(q) /\ C2Hosts(row[q].hits) \cap C2Hosts(row[r].hits) # {}

\* A confirmed repo does not stay without a name for good while a confirmed
\* repo with the same loader has one.
CampaignNamed ==
  \A q, r \in Repos :
    []<>~(/\ Confirmed(q) /\ Confirmed(r) /\ SharesLoader(q, r)
          /\ row[q].actor # "none" /\ row[r].actor = "none")

\* A fork of a red-team tool is confirmed only by something it added ("red-
\* team forks confirm only on weaponization (added install hooks / exfil /
\* obfuscation), never the tool's own code", hunt.py:736).
ForkConfirmsOnAddedOnly ==
  \A r \in Repos :
    Confirmed(r) /\ Relation[r] = "fork" /\ Added[r] # {} =>
      Confirming(row[r].hits, Added[r], WeaponizationCategories) # {} \/ r \in Flagged

=============================================================================
