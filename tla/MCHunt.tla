------------------------------- MODULE MCHunt -------------------------------
(***************************************************************************)
(* Instances of Hunt for TLC.                                              *)
(***************************************************************************)
EXTENDS Hunt

CONSTANTS r1, r2, r3, r4

\* One account, so that a confirmation of r1 brands the owner of the others.
OneOwner == [r \in Repos |-> "acct"]
\* r1 and r3 share an account, r4 belongs to a well-known-legit organisation.
ThreeOwners ==
  [r \in Repos |-> CASE r = r2 -> "other" [] r = r4 -> "legit" [] OTHER -> "acct"]

\* --scan --gold, as the workflow runs it, and the same with --resume.
GoldRuns == {[scan |-> TRUE, gold |-> TRUE, resume |-> FALSE]}
ResumedRuns == {[scan |-> TRUE, gold |-> TRUE, resume |-> TRUE]}
\* That, --resume without --gold, and --gold without --scan.
MixedRuns ==
  GoldRuns \cup {[scan |-> TRUE, gold |-> FALSE, resume |-> TRUE],
                [scan |-> FALSE, gold |-> TRUE, resume |-> FALSE]}

OnlyIntel == [r \in Repos |-> {"ioc_search"}]
\* r1 is also a fork of a red-team tool.
IntelOrFork ==
  [r \in Repos |-> IF r = r1 THEN {"ioc_search", "redteam_lineage"} ELSE {"malicious_owner"}]
\* r1 by a signature or through its owner, r2 by an IOC; r3, named like a
\* red-team tool, as a fork or through the owner it shares with r1; r4 from OSM.
Gates ==
  [r \in Repos |-> CASE r = r1 -> {"signature_match", "malicious_owner"}
                     [] r = r2 -> {"ioc_search"}
                     [] r = r3 -> {"redteam_lineage", "malicious_owner"}
                     [] OTHER  -> {"osm_repository"}]

BothTiers == [tier : {"auto", "review"}, evidence : {"code"}]
AutoVerdict == [tier : {"auto"}, evidence : {"code"}]

\* r1 and r2 share a code hash.
Pair == {{r1, r2}}
=============================================================================
