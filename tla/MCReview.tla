------------------------------ MODULE MCReview ------------------------------
(***************************************************************************)
(* Instances of Review for TLC.                                            *)
(***************************************************************************)
EXTENDS Review

CONSTANTS r1, r2

OneOwner == [r \in Repos |-> "acct"]
TwoOwners == [r \in Repos |-> IF r = r2 THEN "legit" ELSE "acct"]

Hunted(method, tier, evidence) == Inserted(ScanConfirmed(method, tier, evidence))

\* What hunts and submissions leave behind: proven, scanner-only and data-only
\* confirmations, a lineage breadcrumb, one already reported, a rejection.
Hunts ==
  {Hunted("ioc_search", "auto", "code"),
   Hunted("ioc_search", "review", "none"),
   Hunted("news_mention", "auto", "data"),
   Hunted("redteam_lineage", "auto", "none"),
   WithSubmitted(Hunted("signature_match", "auto", "code"), TRUE),
   WithStatus(Hunted("ioc_search", "auto", "code"), "rejected")}
=============================================================================
