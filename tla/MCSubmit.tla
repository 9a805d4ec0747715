------------------------------ MODULE MCSubmit ------------------------------
(***************************************************************************)
(* Instances of Submit for TLC.                                            *)
(***************************************************************************)
EXTENDS Submit

CONSTANTS r1, r2, c2, cut

OneOwner == [r \in Repos |-> "acct"]

Hunted(method, tier, evidence) == Inserted(ScanConfirmed(method, tier, evidence))

\* Fit for submission, for review only, and a lineage breadcrumb.
Confirmations ==
  {Hunted("ioc_search", "auto", "code"),
   Hunted("malicious_owner", "review", "code"),
   Hunted("redteam_lineage", "auto", "code")}

\* Both repos talk to one host; a snippet of r2 cuts its name off.
Evidence1 == [r \in Repos |-> IF r = r1 THEN {c2} ELSE {cut}]
Learned1 == [r \in Repos |-> {}]
Cut1 == [h \in Hosts |-> IF h = c2 THEN {cut} ELSE {}]
=============================================================================
