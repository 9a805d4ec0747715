----------------------------- MODULE MCRegistry -----------------------------
(***************************************************************************)
(* Instances of Registry for TLC: one repo, one hunt at a time, one        *)
(* submitter, one sweep and one revalidation, all at once.                 *)
(***************************************************************************)
EXTENDS Registry

CONSTANT r1

OneOwner == [r \in Repos |-> "acct"]
GoldRuns == {[scan |-> TRUE, gold |-> TRUE, resume |-> FALSE]}
OnlyIntel == [r \in Repos |-> {"ioc_search"}]
Proven == [tier : {"auto", "review"}, evidence : {"code"}]
NoHosts == [r \in Repos |-> {}]
NoCuts == [h \in Hosts |-> {}]
=============================================================================
