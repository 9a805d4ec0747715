---------------------------- MODULE Attribution ----------------------------
(***************************************************************************)
(* Who is behind a confirmed repo: the independent signals of dprk.assess, *)
(* and actors.attribute, which weighs them against the actor intel names.  *)
(* No state: Campaign applies these operators to the rows it keeps.        *)
(*                                                                         *)
(* "flags" are the hits saved with a row, "infra" the attacker hosts the   *)
(* program has seen on other campaign repos.                               *)
(***************************************************************************)
EXTENDS StaticScan, Naturals, FiniteSets

CONSTANTS
  Actors,        \* normalised actor keys
  Origin,        \* Origin[a]: the country of the table ACTOR_ORIGIN, or "none"
  NationTerms,   \* keys that name a country and no group
  DprkKeys,      \* the keys dprk.py itself takes for North Korea
  CuratedHosts   \* hosts of the bundled intel file, or of its naming shape

ASSUME ActorAssumption ==
  /\ "none" \notin Actors
  /\ Origin \in [Actors -> STRING]
  /\ NationTerms \subseteq Actors
  /\ DprkKeys \subseteq Actors

-----------------------------------------------------------------------------
VectorRules == {"vscode-autorun", "eval-decoded", "base64-decode-exec", "py-decode-exec"}

\* campaign_vectors is not empty.
HasVector(flags) ==
  \E l \in flags : Name(l) \in VectorRules \/ "dropper" \in l.marks

C2Categories == {"download_exec", "network_exfil", "exfiltration"}

\* c2_hosts_from_flags: an address is never a host, and an installer only the
\* scanners know of is one.
C2Hosts(flags) ==
  {h \in UNION {l.hosts : l \in {m \in flags : \/ Name(m) \in VectorRules
                                               \/ Category(m) \in C2Categories}} :
     HostClass[h] \notin {"reputable", "platform", "local", "ip"}}

KnownInfra(flags) == C2Hosts(flags) \cap CuratedHosts

\* The signals a repo shows by itself, and the one that needs other repos.
OwnSignals(flags) ==
  UNION {
    IF HasVector(flags) THEN {"tradecraft_vector"} ELSE {},
    IF KnownInfra(flags) # {} THEN {"known_dprk_infra"} ELSE {},
    IF /\ \E l \in flags : "stage2" \in l.marks
       /\ \E l \in flags : "family" \in l.marks
    THEN {"decoded_family"} ELSE {},
    IF \E l \in flags : Category(l) = "malicious_dependency"
    THEN {"malicious_dependency"} ELSE {}}

Signals(flags, infra) ==
  OwnSignals(flags) \cup
    (IF (C2Hosts(flags) \cap infra) \ CuratedHosts # {}
     THEN {"c2_infra_overlap"} ELSE {})

EvidenceTier(signals) ==
  LET n == Cardinality(signals) IN
  IF \/ n >= 3
     \/ /\ "decoded_family" \in signals
        /\ signals \cap {"tradecraft_vector", "known_dprk_infra", "c2_infra_overlap"} # {}
  THEN "confirmed"
  ELSE IF n = 2 THEN "probable"
  ELSE IF n = 1 THEN "possible" ELSE "unattributed"

Asserted(tier) == tier \in {"confirmed", "probable"}

OriginOf(actor) == IF actor \in Actors THEN Origin[actor] ELSE "none"

\* is_named_group: a group of the table, not the name of a country.
NamedGroup(actor) == OriginOf(actor) # "none" /\ actor \notin NationTerms

\* is_dprk_actor_key.
DprkActor(actor) == actor \in DprkKeys

\* attribute: evidence first, then a named group, then a lead.
Attribute(flags, actor, infra) ==
  LET tier == EvidenceTier(Signals(flags, infra)) IN
  IF Asserted(tier) THEN [origin |-> "North Korea", tier |-> tier]
  ELSE IF NamedGroup(actor) THEN [origin |-> OriginOf(actor), tier |-> "probable"]
  ELSE IF tier = "possible" THEN [origin |-> "North Korea", tier |-> "possible"]
  ELSE IF OriginOf(actor) # "none" THEN [origin |-> OriginOf(actor), tier |-> "possible"]
  ELSE [origin |-> "none", tier |-> "unattributed"]

=============================================================================
