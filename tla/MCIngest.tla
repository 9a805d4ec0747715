------------------------------ MODULE MCIngest ------------------------------
(***************************************************************************)
(* Instances of Ingest for TLC.                                            *)
(***************************************************************************)
EXTENDS Ingest

CONSTANTS a1, a2, x1

TwoFeeds == <<"google_rss", "mitre_attack">>

\* One actor two feeds know, one that only the news names.
OneCorroborated ==
  [f \in FeedNames |-> IF f = "mitre_attack" THEN {a1} ELSE {a1, a2}]

FourClasses == {"network", "api_error", "auth_failure", "not_found"}

\* trigger.yaml.
ShippedResponse ==
  [c \in Classes |-> CASE c = "auth_failure" -> "flag_manual"
                       [] c = "not_found" -> "skip_and_log"
                       [] OTHER -> "backoff"]

FewRetries == [c \in Classes |-> IF c = "network" THEN 2 ELSE 1]

\* settings.yaml; the other two thresholds have nothing that counts them either.
ShippedThresholds == [n \in {"feed_errors"} |-> 3]
=============================================================================
