----------------------------- MODULE ClaimFirst -----------------------------
(***************************************************************************)
(* What the claim-first protocol promises, for the Discord feed            *)
(* (hunt.py, "CLAIM the cluster ... At-most-once") and for the OSM reports *)
(* (osm_submit.py, "claim-first (at-most-once)"): a set of items is        *)
(* claimed before the outside world is told of it, the claim is released   *)
(* only when the attempt failed, and what was told and acknowledged is     *)
(* never claimed or told again.  A claim may also be kept for ever, by a   *)
(* process that died: a missed message rather than a second one.           *)
(***************************************************************************)
CONSTANT Items

VARIABLES claimed, told

TypeOK == claimed \in SUBSET Items /\ told \in SUBSET Items

Init == claimed = {} /\ told = {}

Claim(S) ==
  /\ S \cap claimed = {}
  /\ claimed' = claimed \cup S
  /\ told' = told

Tell(S) ==
  /\ S \subseteq claimed \ told
  /\ told' = told \cup S
  /\ claimed' = claimed

Release(S) ==
  /\ S \subseteq claimed \ told
  /\ claimed' = claimed \ S
  /\ told' = told

Next == \E S \in (SUBSET Items) \ {{}} : Claim(S) \/ Tell(S) \/ Release(S)

Spec == Init /\ [][Next]_<<claimed, told>>

\* What was told stays claimed, so nothing is told twice.
ToldIsClaimed == told \subseteq claimed
=============================================================================
