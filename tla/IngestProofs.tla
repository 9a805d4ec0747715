---------------------------- MODULE IngestProofs ----------------------------
(***************************************************************************)
(* No actor is promoted that too few feeds corroborate, for any feeds,     *)
(* actors and playbook, whatever dies and whoever interferes.              *)
(***************************************************************************)
EXTENDS Ingest, FiniteSetTheorems, TLAPS

\* What is in hand belongs to the loop the run is in.
HandMatchesPc ==
  /\ hand # NoHand => hand.actor \in todo
  /\ hand.write = "link" => pc = "store"
  /\ hand.write \in {"promoted", "quarantined"} => pc = "validate"
  /\ pc = "store" => feed <= Len(Feeds)

\* A promotion not yet written is one the ledger has already earned.
PromotionEarned == hand.write = "promoted" => Corroborated(hand.actor)

IngestInv ==
  /\ TypeOK
  /\ HandMatchesPc
  /\ PromotionEarned
  /\ PromotedIsCorroborated

-----------------------------------------------------------------------------
LEMMA FeedsAreFinite == Len(Feeds) \in Nat /\ IsFiniteSet(FeedNames)
<1>1. Len(Feeds) \in Nat /\ Feeds \in Seq(FeedNames)
  BY IngestAssumption
<1>2. IsFiniteSet(1..Len(Feeds))
  BY <1>1, FS_Interval
<1>3. Feeds \in Surjection(1..Len(Feeds), FeedNames)
  BY <1>1 DEF Surjection, FeedNames
<1> QED
  BY <1>1, <1>2, <1>3, FS_Surjection

\* A larger ledger corroborates no less.
LEMMA MoreFeeds ==
  ASSUME NEW S \in SUBSET FeedNames, NEW T \in SUBSET FeedNames, S \subseteq T,
         Cardinality(S) >= MinSources
  PROVE  Cardinality(T) >= MinSources
<1>1. IsFiniteSet(T) /\ IsFiniteSet(S)
  BY FeedsAreFinite, FS_Subset
<1>2. Cardinality(S) <= Cardinality(T) /\ Cardinality(S) \in Nat /\ Cardinality(T) \in Nat
  BY <1>1, FS_Subset, FS_CardinalityType
<1> QED
  BY <1>2, IngestAssumption

\* Reacting to a failed call keeps the bookkeeping of the run well typed.
LEMMA ResponseTypes ==
  ASSUME TypeOK, NEW f \in FeedNames, NEW c, Calling(f), Respond(f, c)
  PROVE  /\ feed' \in 1..(Len(Feeds) + 1)
         /\ attempt' \in Nat
         /\ attempt' > 0 => \E d \in Classes : attempt' <= MaxRetries[d]
         /\ feedErrors' \in SUBSET FeedNames
         /\ flagged' \in SUBSET FeedNames
<1>1. /\ feed \in 1..(Len(Feeds) + 1) /\ feed <= Len(Feeds) /\ Len(Feeds) \in Nat
      /\ feedErrors \in SUBSET FeedNames /\ flagged \in SUBSET FeedNames /\ attempt \in Nat
  BY FeedsAreFinite DEF TypeOK, Calling
<1>2. feed + 1 \in 1..(Len(Feeds) + 1)
  BY <1>1
<1>3. CASE MayRetry(c) /\ attempt' = attempt + 1 /\ UNCHANGED <<feed, feedErrors, flagged>>
  <2>1. c \in Classes /\ attempt < MaxRetries[c] /\ MaxRetries[c] \in Nat
    BY <1>3, IngestAssumption DEF MayRetry, Reaction
  <2>2. attempt' <= MaxRetries[c]
    BY <1>1, <1>3, <2>1
  <2> QED
    BY <1>1, <1>3, <2>1, <2>2
<1>4. CASE PassOver /\ feedErrors' \in {feedErrors, feedErrors \cup {f}}
                    /\ flagged' \in {flagged, flagged \cup {f}}
  BY <1>1, <1>2, <1>4 DEF PassOver
<1> QED
  BY <1>3, <1>4 DEF Respond, GiveUp

-----------------------------------------------------------------------------
LEMMA IngestInit == Init => IngestInv
<1> SUFFICES ASSUME Init PROVE IngestInv
  OBVIOUS
<1>1. 1 \in 1..(Len(Feeds) + 1) /\ NoErrors \in [DOMAIN Thresholds -> Nat]
  BY FeedsAreFinite DEF NoErrors
<1>2. NoHand.write = "none" /\ NoHand \in Hands
  BY DEF NoHand, Hands
<1>3. TypeOK
  <2>1. /\ status \in [Actors -> {"absent", "candidate", "quarantined", "promoted", "rejected"}]
        /\ sources \in [Actors -> SUBSET FeedNames]
    BY DEF Init
  <2>2. hand \in Hands /\ errors \in [DOMAIN Thresholds -> Nat]
    BY <1>1, <1>2 DEF Init
  <2>3. attempt \in Nat /\ ~(attempt > 0) /\ feed \in 1..(Len(Feeds) + 1)
    BY <1>1 DEF Init
  <2>4. todo \in SUBSET (IF pc = "label" THEN Artifacts ELSE Actors)
    BY DEF Init
  <2> QED
    BY <2>1, <2>2, <2>3, <2>4 DEF Init, TypeOK
<1>4. HandMatchesPc /\ PromotionEarned
  BY <1>2 DEF Init, HandMatchesPc, PromotionEarned
<1>5. PromotedIsCorroborated
  BY DEF Init, PromotedIsCorroborated
<1> QED
  BY <1>3, <1>4, <1>5 DEF IngestInv

LEMMA TypeStep == TypeOK /\ HandMatchesPc /\ [Next]_vars => TypeOK'
<1> SUFFICES ASSUME TypeOK, HandMatchesPc, [Next]_vars PROVE TypeOK'
  OBVIOUS
<1> USE DEF TypeOK, tables, calls
<1>1. Len(Feeds) \in Nat /\ NoErrors \in [DOMAIN Thresholds -> Nat] /\ NoHand \in Hands
  BY FeedsAreFinite DEF NoErrors, Hands
<1>2. CASE StartRun
  BY <1>1, <1>2 DEF StartRun
<1>3. ASSUME NEW f \in FeedNames, NEW S \in SUBSET Mentions[f], Answers(f, S) PROVE TypeOK'
  <2>1. S \subseteq Actors
    BY IngestAssumption
  <2> QED
    BY <1>3, <2>1 DEF Answers
<1>4. ASSUME NEW f \in FeedNames, NEW c \in Classes \cup {"unknown"}, Fails(f, c) PROVE TypeOK'
  <2>1. errors' \in [DOMAIN Thresholds -> Nat] /\ alerted' \in SUBSET DOMAIN Thresholds
    BY <1>4 DEF Fails, Tally
  <2>2. cache' \in {"absent", "good", "bad", "stale"}
    BY <1>4 DEF Fails, BundleFails
  <2>3. /\ feed' \in 1..(Len(Feeds) + 1)
        /\ attempt' \in Nat
        /\ attempt' > 0 => \E d \in Classes : attempt' <= MaxRetries[d]
        /\ feedErrors' \in SUBSET FeedNames
        /\ flagged' \in SUBSET FeedNames
    BY <1>4, ResponseTypes DEF Fails
  <2> QED
    BY <1>4, <2>1, <2>2, <2>3 DEF Fails
<1>5. ASSUME NEW a \in Actors, Observe(a) PROVE TypeOK'
  <2>1. [actor |-> a, write |-> "link"] \in Hands
    BY DEF Hands
  <2> QED
    BY <1>5, <2>1 DEF Observe, Ensured
<1>6. ASSUME NEW a \in Actors, LinkSource(a) PROVE TypeOK'
  <2>1. hand.write = "link"
    BY <1>6 DEF LinkSource
  <2>2. Feeds[feed] \in FeedNames
    BY <2>1 DEF HandMatchesPc, FeedNames
  <2> QED
    BY <1>1, <1>6, <2>2 DEF LinkSource
<1>7. ASSUME NEW a \in Actors, Examine(a) PROVE TypeOK'
  <2>1. [actor |-> a, write |-> Verdict(a)] \in Hands
    BY DEF Hands, Verdict
  <2> QED
    BY <1>7, <2>1 DEF Examine
<1>8. ASSUME NEW a \in Actors, SetStatus(a) PROVE TypeOK'
  BY <1>1, <1>8 DEF SetStatus
<1>9. CASE FeedStored
  <2>1. feed + 1 \in 1..(Len(Feeds) + 1)
    BY <1>1, <1>9 DEF FeedStored, HandMatchesPc
  <2> QED
    BY <1>9, <2>1 DEF FeedStored
<1>10. ASSUME NEW S \in SUBSET Artifacts, CollectArtifacts(S) PROVE TypeOK'
  BY <1>10 DEF CollectArtifacts
<1>11. ASSUME NEW x \in Artifacts, Label(x) PROVE TypeOK'
  BY <1>11 DEF Label
<1>12. CASE BeginValidation
  BY <1>12 DEF BeginValidation
<1>13. CASE FinishRun
  BY <1>13 DEF FinishRun
<1>14. CASE Crash
  BY <1>1, <1>14 DEF Crash
<1>15. CASE Expire
  BY <1>15 DEF Expire
<1>16. ASSUME NEW a \in Actors, HuntNames(a) \/ Reject(a) PROVE TypeOK'
  BY <1>16 DEF HuntNames, Reject, Ensured
<1>17. CASE UNCHANGED vars
  BY <1>17 DEF vars
<1> QED
  BY <1>2, <1>3, <1>4, <1>5, <1>6, <1>7, <1>8, <1>9, <1>10, <1>11, <1>12, <1>13, <1>14,
     <1>15, <1>16, <1>17 DEF Next, Progress, Call

LEMMA HandStep == TypeOK /\ HandMatchesPc /\ [Next]_vars => HandMatchesPc'
<1> SUFFICES ASSUME TypeOK, HandMatchesPc, [Next]_vars PROVE HandMatchesPc'
  OBVIOUS
<1> USE DEF HandMatchesPc, tables, calls
<1>1. NoHand.write = "none"
  BY DEF NoHand
<1>2. CASE StartRun
  BY <1>1, <1>2 DEF StartRun
<1>3. ASSUME NEW f \in FeedNames, NEW S, Answers(f, S) PROVE HandMatchesPc'
  BY <1>1, <1>3 DEF Answers, Calling, TypeOK, Hands
<1>4. ASSUME NEW f \in FeedNames, NEW c, Fails(f, c) PROVE HandMatchesPc'
  BY <1>4 DEF Fails, Calling
<1>5. ASSUME NEW a \in Actors, Observe(a) PROVE HandMatchesPc'
  BY <1>5 DEF Observe
<1>6. ASSUME NEW a \in Actors, LinkSource(a) PROVE HandMatchesPc'
  BY <1>1, <1>6 DEF LinkSource
<1>7. ASSUME NEW a \in Actors, Examine(a) PROVE HandMatchesPc'
  BY <1>1, <1>7 DEF Examine, Verdict
<1>8. ASSUME NEW a \in Actors, SetStatus(a) PROVE HandMatchesPc'
  BY <1>1, <1>8 DEF SetStatus
<1>9. CASE FeedStored
  BY <1>1, <1>9 DEF FeedStored
<1>10. ASSUME NEW S, CollectArtifacts(S) PROVE HandMatchesPc'
  BY <1>1, <1>10 DEF CollectArtifacts, TypeOK, Hands
<1>11. ASSUME NEW x \in Artifacts, Label(x) PROVE HandMatchesPc'
  BY <1>1, <1>11 DEF Label, TypeOK, Hands
<1>12. CASE BeginValidation
  BY <1>1, <1>12 DEF BeginValidation
<1>13. CASE FinishRun
  BY <1>1, <1>13 DEF FinishRun
<1>14. CASE Crash
  BY <1>1, <1>14 DEF Crash
<1>15. CASE Expire
  BY <1>15 DEF Expire
<1>16. ASSUME NEW a \in Actors, HuntNames(a) \/ Reject(a) PROVE HandMatchesPc'
  BY <1>16 DEF HuntNames, Reject
<1>17. CASE UNCHANGED vars
  BY <1>17 DEF vars
<1> QED
  BY <1>2, <1>3, <1>4, <1>5, <1>6, <1>7, <1>8, <1>9, <1>10, <1>11, <1>12, <1>13, <1>14,
     <1>15, <1>16, <1>17 DEF Next, Progress, Call

\* The ledger only grows, so what was corroborated stays so.
LEMMA CorroborationStays ==
  ASSUME TypeOK, TypeOK', [Next]_vars, NEW a \in Actors, Corroborated(a)
  PROVE  Corroborated(a)'
<1>1. sources[a] \subseteq sources'[a]
  <2>1. UNCHANGED sources \/ \E b \in Actors : LinkSource(b)
    BY DEF Next, Progress, Call, vars, tables, StartRun, Answers, Fails, Observe, Examine,
           SetStatus, FeedStored, CollectArtifacts, Label, BeginValidation, FinishRun, Crash,
           Expire, HuntNames, Reject
  <2>2. ASSUME NEW b \in Actors, LinkSource(b) PROVE sources[a] \subseteq sources'[a]
    BY <2>2 DEF LinkSource, TypeOK
  <2> QED
    BY <2>1, <2>2
<1>2. sources[a] \in SUBSET FeedNames /\ sources'[a] \in SUBSET FeedNames
  BY DEF TypeOK
<1> QED
  BY <1>1, <1>2, MoreFeeds DEF Corroborated

LEMMA PromotionStep ==
  ASSUME IngestInv, TypeOK', [Next]_vars
  PROVE  PromotionEarned' /\ PromotedIsCorroborated'
<1> USE DEF IngestInv
<1>1. hand \in Hands /\ NoHand.write = "none"
  BY DEF TypeOK, NoHand
<1>2. PromotionEarned'
  <2>1. CASE UNCHANGED hand
    <3> SUFFICES ASSUME hand.write = "promoted" PROVE Corroborated(hand.actor)'
      BY <2>1 DEF PromotionEarned
    <3>1. hand.actor \in Actors /\ Corroborated(hand.actor)
      BY <1>1 DEF Hands, PromotionEarned
    <3> QED
      BY <2>1, <3>1, CorroborationStays DEF Corroborated
  <2>2. CASE hand' = NoHand
    BY <1>1, <2>2 DEF PromotionEarned
  <2>3. ASSUME NEW a \in Actors, Observe(a) PROVE PromotionEarned'
    BY <2>3 DEF Observe, PromotionEarned
  <2>4. ASSUME NEW a \in Actors, hand' = [actor |-> a, write |-> Verdict(a)],
               UNCHANGED sources
        PROVE  PromotionEarned'
    BY <2>4 DEF PromotionEarned, Verdict, Corroborated
  <2>5. \/ UNCHANGED hand
        \/ hand' = NoHand
        \/ \E a \in Actors : Observe(a)
        \/ \E a \in Actors : hand' = [actor |-> a, write |-> Verdict(a)] /\ UNCHANGED sources
    BY DEF Next, Progress, Call, vars, tables, StartRun, Answers, Fails, LinkSource, Examine,
           SetStatus, FeedStored, CollectArtifacts, Label, BeginValidation, FinishRun, Crash,
           Expire, HuntNames, Reject
  <2> QED
    BY <2>1, <2>2, <2>3, <2>4, <2>5
<1>3. ASSUME NEW a \in Actors, status'[a] = "promoted" PROVE Corroborated(a)
  <2>1. CASE status'[a] = status[a]
    BY <1>3, <2>1 DEF PromotedIsCorroborated
  <2>2. CASE hand.actor = a /\ hand.write = "promoted"
    BY <2>2 DEF PromotionEarned
  <2>3. \/ status'[a] = status[a]
        \/ hand.actor = a /\ hand.write = "promoted"
    BY <1>3 DEF TypeOK, Next, Progress, Call, vars, tables, StartRun, Answers, Fails,
           Observe, Ensured, LinkSource, Examine, SetStatus, FeedStored, CollectArtifacts,
           Label, BeginValidation, FinishRun, Crash, Expire, HuntNames, Reject
  <2> QED
    BY <2>1, <2>2, <2>3
<1>4. PromotedIsCorroborated'
  BY <1>3, CorroborationStays DEF PromotedIsCorroborated
<1> QED
  BY <1>2, <1>4

LEMMA IngestStep == IngestInv /\ [Next]_vars => IngestInv'
BY TypeStep, HandStep, PromotionStep DEF IngestInv

\* Every reachable state of ingestion is well typed; in particular no feed is
\* ever called more often than the most patient class of the playbook allows.
THEOREM IngestTypeCorrect == Spec => []TypeOK
<1>1. IngestInv => TypeOK
  BY DEF IngestInv
<1> QED
  BY <1>1, IngestInit, IngestStep, PTL DEF Spec

\* validator.py: an actor is promoted only if enough feeds have named it, in
\* whichever runs, and whatever deaths, hunts and rejections come between.
THEOREM OnlyCorroboratedPromoted == Spec => []PromotedIsCorroborated
<1>1. IngestInv => PromotedIsCorroborated
  BY DEF IngestInv
<1> QED
  BY <1>1, IngestInit, IngestStep, PTL DEF Spec

-----------------------------------------------------------------------------
(***************************************************************************)
(* A source left to an operator.  FlaggedIsStopped is not inductive: it    *)
(* rests on the run never turning back to a feed it has passed.            *)
(***************************************************************************)
Passed(f) == \E i \in 1..Len(Feeds) : i < feed /\ Feeds[i] = f

FlaggedIsPassed == \A f \in flagged : f \in feedErrors /\ Passed(f)

\* What one answer to a call may do to the feeds flagged and given up.
LEMMA FlaggedStep ==
  ASSUME TypeOK, FlaggedIsPassed, [Next]_vars
  PROVE  FlaggedIsPassed'
<1> USE DEF FlaggedIsPassed
<1>1. Len(Feeds) \in Nat /\ feed \in Nat
  BY FeedsAreFinite DEF TypeOK
<1>2. ASSUME NEW f \in FeedNames, NEW c, Fails(f, c) PROVE FlaggedIsPassed'
  <2>1. /\ feed <= Len(Feeds) /\ Feeds[feed] = f
        /\ feed \in 1..Len(Feeds)
    BY <1>1, <1>2 DEF Fails, Calling, TypeOK
  <2>2. CASE UNCHANGED <<feed, feedErrors, flagged>>
    BY <2>2 DEF Passed
  <2>3. CASE /\ feed' = feed + 1
             /\ \/ UNCHANGED flagged /\ feedErrors \subseteq feedErrors'
                \/ flagged' = flagged \cup {f} /\ feedErrors' = feedErrors \cup {f}
    <3>1. \A g : Passed(g) => Passed(g)'
      BY <1>1, <2>3 DEF Passed
    <3>2. Passed(f)'
      BY <1>1, <2>1, <2>3 DEF Passed
    <3> QED BY <2>3, <3>1, <3>2
  <2> QED BY <1>2, <2>2, <2>3 DEF Fails, Respond, GiveUp, PassOver
<1>3. CASE /\ flagged' \in {flagged, {}}
           /\ flagged' = flagged => UNCHANGED feedErrors /\ feed' \in {feed, feed + 1}
  <2>1. CASE flagged' = {}
    BY <2>1
  <2>2. CASE UNCHANGED <<flagged, feedErrors>> /\ feed' \in {feed, feed + 1}
    <3>1. \A g : Passed(g) => Passed(g)'
      BY <1>1, <2>2 DEF Passed
    <3> QED BY <2>2, <3>1
  <2> QED BY <1>3, <2>1, <2>2
<1>4. StartRun => flagged' = {}
  BY DEF StartRun
<1>5. \/ StartRun
      \/ UNCHANGED <<flagged, feedErrors>> /\ feed' \in {feed, feed + 1}
      \/ \E f \in FeedNames : \E c \in Classes \cup {"unknown"} : Fails(f, c)
  BY DEF Next, Progress, Call, vars, calls, Answers, Observe, LinkSource, Examine, SetStatus,
         FeedStored, CollectArtifacts, Label, BeginValidation, FinishRun, Crash, Expire,
         HuntNames, Reject
<1> QED BY <1>2, <1>3, <1>4, <1>5

\* trigger.yaml: a source flagged for an operator is recorded as an error of
\* the run and is not called again by it.
THEOREM FlaggedAlwaysStopped == Spec => []FlaggedIsStopped
<1>1. Init => FlaggedIsPassed
  BY DEF Init, FlaggedIsPassed
<1>2. TypeOK /\ FlaggedIsPassed => FlaggedIsStopped
  <2> SUFFICES ASSUME TypeOK, FlaggedIsPassed, NEW f \in flagged, Calling(f) PROVE FALSE
    BY DEF FlaggedIsStopped, FlaggedIsPassed
  <2>1. PICK i \in 1..Len(Feeds) : i < feed /\ Feeds[i] = f
    BY DEF FlaggedIsPassed, Passed
  <2>2. feed \in 1..Len(Feeds) /\ Feeds[feed] = f
    BY FeedsAreFinite DEF Calling, TypeOK
  <2> QED BY <2>1, <2>2, IngestAssumption
<1> QED BY <1>1, <1>2, FlaggedStep, IngestTypeCorrect, PTL DEF Spec

-----------------------------------------------------------------------------
(***************************************************************************)
(* Verdicts.  Between runs an actor that is neither settled nor rejected   *)
(* was orphaned; during a run it may also be one the run has still to      *)
(* judge, and the verdict in hand is the one the ledger calls for.         *)
(***************************************************************************)
Due(a) == IF Corroborated(a) THEN "promoted" ELSE "quarantined"

Pending == IF pc = "validate" THEN todo ELSE IF pc = "idle" THEN {} ELSE touched

Settled(a) == status[a] = Due(a) \/ status[a] = "rejected" \/ a \in orphaned \/ a \in Pending

SettledOrPending == \A a \in Actors : sources[a] # {} => Settled(a)

VerdictIsDue ==
  hand.write \in {"promoted", "quarantined"} => hand.write = Due(hand.actor)

LEMMA VerdictDueStep ==
  ASSUME TypeOK, HandMatchesPc, VerdictIsDue, [Next]_vars
  PROVE  VerdictIsDue'
<1>1. NoHand.write = "none"
  BY DEF NoHand
<1>2. CASE UNCHANGED <<hand, sources>>
  BY <1>2 DEF VerdictIsDue, Due, Corroborated
<1>3. CASE hand' = NoHand
  BY <1>1, <1>3 DEF VerdictIsDue
<1>4. ASSUME NEW a \in Actors, Observe(a) PROVE VerdictIsDue'
  BY <1>4 DEF Observe, VerdictIsDue
<1>5. ASSUME NEW a \in Actors, Examine(a) PROVE VerdictIsDue'
  <2>1. CASE UNCHANGED hand
    BY <1>2, <1>5, <2>1 DEF Examine, tables
  <2>2. CASE hand' = [actor |-> a, write |-> Verdict(a)] /\ UNCHANGED sources
    BY <2>2 DEF VerdictIsDue, Due, Verdict, Corroborated
  <2> QED BY <1>5, <2>1, <2>2 DEF Examine, tables
<1>6. ASSUME NEW a \in Actors, LinkSource(a) \/ SetStatus(a) PROVE hand' = NoHand
  BY <1>6 DEF LinkSource, SetStatus
<1> QED
  BY <1>2, <1>3, <1>4, <1>5, <1>6
  DEF Next, Progress, Call, vars, tables, StartRun, Answers, Fails, FeedStored,
      CollectArtifacts, Label, BeginValidation, FinishRun, Crash, Expire, HuntNames, Reject

\* A step that leaves the ledger and the orphans alone, drops no actor that is
\* pending and makes no status but a rejection keeps everyone accounted for.
LEMMA SettledFrame ==
  ASSUME TypeOK, SettledOrPending, UNCHANGED <<sources, orphaned>>,
         Pending \subseteq Pending',
         \A a \in Actors : \/ status'[a] = status[a]
                           \/ status'[a] = "rejected"
                           \/ status[a] = "absent"
  PROVE  SettledOrPending'
<1> SUFFICES ASSUME NEW a \in Actors, sources'[a] # {} PROVE Settled(a)'
  BY DEF SettledOrPending
<1>1. Settled(a)
  BY DEF SettledOrPending
<1>2. Due(a)' = Due(a) /\ Due(a) # "absent"
  BY DEF Due, Corroborated
<1> QED BY <1>1, <1>2 DEF Settled

LEMMA SettledStep ==
  ASSUME TypeOK, HandMatchesPc, VerdictIsDue, SettledOrPending, [Next]_vars
  PROVE  SettledOrPending'
<1> USE DEF tables, calls
<1>1. CASE StartRun
  BY <1>1, SettledFrame DEF StartRun, Pending
<1>2. ASSUME NEW f \in FeedNames, NEW S, Answers(f, S) PROVE SettledOrPending'
  BY <1>2, SettledFrame DEF Answers, Calling, Pending
<1>3. ASSUME NEW f \in FeedNames, NEW c, Fails(f, c) PROVE SettledOrPending'
  BY <1>3, SettledFrame DEF Fails, Calling, Pending
<1>4. ASSUME NEW a \in Actors, Observe(a) PROVE SettledOrPending'
  BY <1>4, SettledFrame DEF Observe, Ensured, Pending, TypeOK
<1>5. ASSUME NEW a \in Actors, LinkSource(a) PROVE SettledOrPending'
  <2>1. pc = "store" /\ pc' = "store" /\ touched' = touched \cup {a}
        /\ UNCHANGED <<status, orphaned>>
        /\ \A b \in Actors : b # a => sources'[b] = sources[b]
    BY <1>5 DEF LinkSource, HandMatchesPc, TypeOK
  <2>2. \A b \in Actors : b # a => Due(b)' = Due(b)
    BY <2>1 DEF Due, Corroborated
  <2> QED BY <2>1, <2>2 DEF SettledOrPending, Settled, Pending
<1>6. CASE FeedStored
  BY <1>6, SettledFrame DEF FeedStored, Pending
<1>7. ASSUME NEW S, CollectArtifacts(S) PROVE SettledOrPending'
  BY <1>7, SettledFrame DEF CollectArtifacts, Pending
<1>8. ASSUME NEW x \in Artifacts, Label(x) PROVE SettledOrPending'
  BY <1>8, SettledFrame DEF Label, Pending
<1>9. CASE BeginValidation
  BY <1>9, SettledFrame DEF BeginValidation, Pending
<1>10. ASSUME NEW a \in Actors, Examine(a) PROVE SettledOrPending'
  <2>1. pc = "validate" /\ UNCHANGED <<pc, status, sources>>
    BY <1>10 DEF Examine
  <2>2. CASE UNCHANGED <<todo, orphaned>>
    BY <1>10, <2>1, <2>2, SettledFrame DEF Pending
  <2>3. CASE status[a] = "rejected" /\ todo' = todo \ {a} /\ orphaned' = orphaned \ {a}
    <3>1. \A b \in Actors : Due(b)' = Due(b)
      BY <2>1 DEF Due, Corroborated
    <3> QED BY <2>1, <2>3, <3>1 DEF SettledOrPending, Settled, Pending
  <2> QED BY <1>10, <2>2, <2>3 DEF Examine
<1>11. ASSUME NEW a \in Actors, SetStatus(a) PROVE SettledOrPending'
  <2>1. /\ pc = "validate" /\ UNCHANGED <<pc, sources>>
        /\ status' = [status EXCEPT ![a] = Due(a)]
        /\ todo' = todo \ {a} /\ orphaned' = orphaned \ {a}
    BY <1>11 DEF SetStatus, HandMatchesPc, VerdictIsDue
  <2>2. \A b \in Actors : Due(b)' = Due(b)
    BY <2>1 DEF Due, Corroborated
  <2> QED BY <2>1, <2>2 DEF SettledOrPending, Settled, Pending, TypeOK
<1>12. CASE FinishRun
  BY <1>12, SettledFrame DEF FinishRun, Pending
<1>13. CASE Crash
  <2>1. UNCHANGED <<status, sources>> /\ pc' = "idle"
    BY <1>13 DEF Crash
  <2>2. orphaned \cup Pending \subseteq orphaned'
    BY <1>13 DEF Crash, Pending
  <2>3. \A b \in Actors : Due(b)' = Due(b)
    BY <2>1 DEF Due, Corroborated
  <2> QED BY <2>1, <2>2, <2>3 DEF SettledOrPending, Settled
<1>14. CASE Expire
  BY <1>14, SettledFrame DEF Expire, Pending
<1>15. ASSUME NEW a \in Actors, HuntNames(a) \/ Reject(a) PROVE SettledOrPending'
  BY <1>15, SettledFrame DEF HuntNames, Reject, Ensured, Pending, TypeOK
<1>16. CASE UNCHANGED vars
  BY <1>16, SettledFrame DEF vars, Pending
<1> QED
  BY <1>1, <1>2, <1>3, <1>4, <1>5, <1>6, <1>7, <1>8, <1>9, <1>10, <1>11, <1>12, <1>13,
     <1>14, <1>15, <1>16 DEF Next, Progress, Call

(***************************************************************************)
(* validator.py: between runs every actor some feed has named has the      *)
(* status its ledger calls for, or was rejected, or was orphaned by a run  *)
(* that died; nothing else leaves an actor without its verdict.            *)
(***************************************************************************)
THEOREM AlwaysSettledUnlessOrphaned == Spec => []SettledUnlessOrphaned
<1>1. Init => VerdictIsDue /\ SettledOrPending
  BY DEF Init, VerdictIsDue, NoHand, SettledOrPending
<1>2. SettledOrPending => SettledUnlessOrphaned
  BY DEF SettledOrPending, Settled, Pending, Due, SettledUnlessOrphaned
<1>3. IngestInv => TypeOK /\ HandMatchesPc
  BY DEF IngestInv
<1> QED
  BY <1>1, <1>2, <1>3, IngestInit, IngestStep, VerdictDueStep, SettledStep, PTL DEF Spec

(***************************************************************************)
(* A rejection is sticky (validator.py): no verdict on a rejected actor is *)
(* ever begun, and the only one ever written on it was reached before.     *)
(***************************************************************************)
THEOREM RejectionAlwaysSticky == Spec => RejectionSticky
<1> DEFINE Sticky == \A a \in Actors : status[a] = "rejected" =>
                       /\ JudgedBefore(a)' => JudgedBefore(a)
                       /\ status'[a] = "rejected" \/ JudgedBefore(a)
<1>1. ASSUME TypeOK, [Next]_vars PROVE Sticky
  <2> SUFFICES ASSUME NEW a \in Actors, status[a] = "rejected"
               PROVE  /\ JudgedBefore(a)' => JudgedBefore(a)
                      /\ status'[a] = "rejected" \/ JudgedBefore(a)
    OBVIOUS
  <2>1. JudgedBefore(a)' => JudgedBefore(a)
    <3>1. CASE UNCHANGED hand
      BY <3>1 DEF JudgedBefore
    <3>2. CASE hand' = NoHand
      BY <3>2 DEF JudgedBefore, NoHand
    <3>3. ASSUME NEW b \in Actors, Observe(b) PROVE ~JudgedBefore(a)'
      BY <3>3 DEF Observe, JudgedBefore
    <3>4. ASSUME NEW b \in Actors, Examine(b), ~UNCHANGED hand PROVE ~JudgedBefore(a)'
      BY <3>4 DEF Examine, JudgedBefore
    <3> QED
      BY <1>1, <3>1, <3>2, <3>3, <3>4
      DEF Next, Progress, Call, vars, StartRun, Answers, Fails, LinkSource, SetStatus,
          FeedStored, CollectArtifacts, Label, BeginValidation, FinishRun, Crash, Expire,
          HuntNames, Reject
  <2>2. status'[a] = "rejected" \/ JudgedBefore(a)
    BY <1>1
    DEF TypeOK, JudgedBefore, Next, Progress, Call, vars, tables, StartRun, Answers, Fails,
        Observe, Ensured, LinkSource, Examine, SetStatus, FeedStored, CollectArtifacts,
        Label, BeginValidation, FinishRun, Crash, Expire, HuntNames, Reject
  <2> QED BY <2>1, <2>2
<1> QED BY <1>1, IngestTypeCorrect, PTL DEF Spec, RejectionSticky
=============================================================================
