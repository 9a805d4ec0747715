--------------------------- MODULE SharedLogProofs ---------------------------
(***************************************************************************)
(* What holds of the shared file for any number of processes, sizes and    *)
(* deaths, and whichever compactions fail: it is bounded by the processes  *)
(* that wrote to it and those failures, and what was not exposed to a      *)
(* compaction is found.                                                    *)
(***************************************************************************)
EXTENDS SharedLog, FiniteSetTheorems, SequenceTheorems, WellFoundedInduction, TLAPS

\* Every line of s has as many lines recorded after it as s has behind it:
\* the newest lines of s are among the newest ever recorded.
Ordered(s) ==
  \A j \in 1 .. Len(s) : s[j] \in Ids /\ Len(s) - j <= Len(recorded) - s[j]

\* The form of the state, and the order of the lines.
Shape ==
  /\ recorded \in Seq([tool : Tools, value : Values])
  /\ file \in Seq(Nat) /\ Ordered(file)
  /\ writes \in [Procs -> 0 .. Every - 1]
  /\ pc \in [Procs -> {"idle", "due", "read", "cut"}]
  /\ copy \in [Procs -> Seq(Nat)] /\ \A p \in Procs : Ordered(copy[p])
  /\ exposed \in SUBSET Ids
  /\ exits \in Nat
  /\ failures \in Nat

LEMMA RecordedGrows ==
  ASSUME Shape, NEW p \in Procs, NEW v \in Values, Record(p, v)
  PROVE  /\ recorded' \in Seq([tool : Tools, value : Values])
         /\ Len(recorded') = Len(recorded) + 1
         /\ \A i \in Ids : recorded'[i] = recorded[i]
         /\ Ids \subseteq Ids'
         /\ Len(recorded) + 1 \in Ids'
BY DEF Record, Shape, Tools, Ids

LEMMA NewestIsOrdered ==
  ASSUME NEW s \in Seq(Nat), Ordered(s), Len(recorded) \in Nat
  PROVE  /\ Newest(s) \in Seq(Nat)
         /\ Ordered(Newest(s))
         /\ Len(Newest(s)) <= Keep
         /\ \A j \in 1 .. Len(s) :
              Len(s) - j < Keep => \E k \in 1 .. Len(Newest(s)) : Newest(s)[k] = s[j]
<1>0. Keep \in Nat \ {0} /\ Len(s) \in Nat
  BY LogAssumption
<1>1. PICK first \in Nat \ {0} :
        /\ first <= Len(s) + 1
        /\ Len(s) - first + 1 <= Keep
        /\ first # 1 => Len(s) - first + 1 = Keep
        /\ Newest(s) = SubSeq(s, first, Len(s))
  <2>1. CASE Len(s) > Keep
    <3>1. /\ Len(s) - Keep + 1 \in Nat \ {0}
          /\ Newest(s) = SubSeq(s, Len(s) - Keep + 1, Len(s))
      BY <1>0, <2>1 DEF Newest
    <3>2. PICK n \in Nat \ {0} : n = Len(s) - Keep + 1
      BY <3>1
    <3>3. n <= Len(s) + 1 /\ Len(s) - n + 1 = Keep /\ Newest(s) = SubSeq(s, n, Len(s))
      BY <1>0, <2>1, <3>1, <3>2
    <3> QED
      BY <1>0, <3>3, SMTT(30)
  <2>2. CASE ~(Len(s) > Keep)
    <3>1. Newest(s) = SubSeq(s, 1, Len(s))
      BY <1>0, <2>2 DEF Newest
    <3> QED
      BY <1>0, <2>2, <3>1
  <2> QED
    BY <2>1, <2>2
<1>2. /\ Newest(s) \in Seq(Nat)
      /\ Len(Newest(s)) = Len(s) - first + 1
      /\ \A k \in 1 .. Len(Newest(s)) : Newest(s)[k] = s[first + k - 1]
  <2>1. \A i \in first .. Len(s) : s[i] \in Nat
    BY <1>1
  <2>2. /\ Newest(s) \in Seq(Nat)
        /\ Len(Newest(s)) = IF first <= Len(s) THEN Len(s) - first + 1 ELSE 0
        /\ \A k \in 1 .. Len(s) - first + 1 : Newest(s)[k] = s[first + k - 1]
    BY <1>0, <1>1, <2>1, SubSeqProperties
  <2>3. Len(Newest(s)) = Len(s) - first + 1
    BY <1>0, <1>1, <2>2
  <2> QED
    BY <2>2, <2>3
<1>3. \A j \in 1 .. Len(s) :
        Len(s) - j < Keep => \E k \in 1 .. Len(Newest(s)) : Newest(s)[k] = s[j]
  <2> SUFFICES ASSUME NEW j \in 1 .. Len(s), Len(s) - j < Keep
               PROVE  \E k \in 1 .. Len(Newest(s)) : Newest(s)[k] = s[j]
    OBVIOUS
  <2>1. PICK k \in Nat : k = j - first + 1 /\ k >= 1
    BY <1>0, <1>1
  <2>2. k \in 1 .. Len(Newest(s)) /\ first + k - 1 = j
    <3>1. Len(Newest(s)) = Len(s) - first + 1
      BY <1>2
    <3>2. k <= Len(s) - first + 1 /\ first + k - 1 = j
      BY <1>0, <2>1
    <3> QED
      BY <2>1, <3>1, <3>2
  <2> QED
    BY <1>2, <2>2
<1>4. Ordered(Newest(s))
  <2> SUFFICES ASSUME NEW k \in 1 .. Len(Newest(s))
               PROVE  /\ Newest(s)[k] \in Ids
                      /\ Len(Newest(s)) - k <= Len(recorded) - Newest(s)[k]
    BY DEF Ordered
  <2>1. PICK j \in 1 .. Len(s) : j = first + k - 1
    BY <1>0, <1>1, <1>2
  <2>a. Newest(s)[k] = s[first + k - 1] /\ Len(Newest(s)) = Len(s) - first + 1
    BY <1>2
  <2>2. Len(s) - j = Len(Newest(s)) - k /\ Newest(s)[k] = s[j]
    BY <1>0, <2>a, <2>1
  <2>3. \A i \in 1 .. Len(s) : s[i] \in Ids /\ Len(s) - i <= Len(recorded) - s[i]
    BY DEF Ordered
  <2> QED
    BY <2>1, <2>2, <2>3
<1> QED
  BY <1>0, <1>1, <1>2, <1>3, <1>4

\* A write that breaks off leaves the file as it is or a beginning of the lines
\* kept, no longer than those.
LEMMA FlushedIsOrdered ==
  ASSUME NEW p \in Procs, Shape, NEW s \in Flushed(p)
  PROVE  /\ s \in Seq(Nat)
         /\ Ordered(s)
         /\ s = file \/ Len(s) <= Keep
<1>1. CASE s = file
  BY <1>1 DEF Shape
<1>2. CASE s # file
  <2> DEFINE kept == Newest(copy[p])
  <2>1. copy[p] \in Seq(Nat) /\ Ordered(copy[p]) /\ Len(recorded) \in Nat /\ Len(file) \in Nat
    BY DEF Shape
  <2>2. /\ kept \in Seq(Nat) /\ Ordered(kept) /\ Len(kept) <= Keep
        /\ Len(kept) \in Nat /\ Keep \in Nat
    BY <2>1, NewestIsOrdered, LogAssumption
  <2>3. PICK n \in Len(file) + 1 .. Len(kept) : s = SubSeq(kept, 1, n)
    BY <1>2 DEF Flushed
  <2> HIDE DEF kept
  <2>4. n \in Nat /\ 1 <= n /\ n <= Len(kept)
    BY <2>1, <2>2, <2>3
  <2>5. s \in Seq(Nat) /\ Len(s) = n /\ \A k \in 1 .. n : s[k] = kept[k]
    BY <2>2, <2>3, <2>4
  <2>6. ASSUME NEW k \in 1 .. Len(s)
        PROVE  s[k] \in Ids /\ Len(s) - k <= Len(recorded) - s[k]
    <3>1. kept[k] \in Ids /\ Len(kept) - k <= Len(recorded) - kept[k]
      BY <2>2, <2>4, <2>5 DEF Ordered
    <3>2. s[k] = kept[k]
      BY <2>5
    <3>3. Len(kept) - k <= Len(recorded) - s[k] /\ s[k] \in Nat /\ k \in Nat /\ s[k] \in Ids
      BY <3>1, <3>2 DEF Ids
    <3>4. Len(s) <= Len(kept) /\ Len(s) \in Nat
      BY <2>4, <2>5
    <3>5. Len(s) - k <= Len(kept) - k
      BY <2>2, <3>3, <3>4
    <3> QED
      <4>1. \A x, y, z \in Int : x <= y /\ y <= z => x <= z
        OBVIOUS
      <4>2. Len(s) - k \in Int /\ Len(kept) - k \in Int /\ Len(recorded) - s[k] \in Int
        BY <2>1, <2>2, <3>3, <3>4
      <4> QED
        BY <3>3, <3>5, <4>1, <4>2
  <2>7. Ordered(s)
    BY <2>6 DEF Ordered
  <2> QED
    BY <2>2, <2>4, <2>5, <2>7
<1> QED
  BY <1>1, <1>2

LEMMA BreaksOffKeepsOrder ==
  ASSUME NEW p \in Procs, Shape, BreaksOff(p)
  PROVE  /\ file' \in Seq(Nat) /\ Ordered(file)'
         /\ Len(file') <= Len(file) \/ Len(file') <= Keep
         /\ copy' \in [Procs -> Seq(Nat)] /\ \A q \in Procs : Ordered(copy[q])'
         /\ pc' \in [Procs -> {"idle", "due", "read", "cut"}]
         /\ exposed' \in SUBSET Ids'
<1>0. recorded' = recorded /\ Ids' = Ids
  BY DEF BreaksOff, Ids
<1>a. ASSUME NEW s, Ordered(s) PROVE Ordered(s)'
  BY <1>0, <1>a DEF Ordered
<1>1. /\ file' \in Seq(Nat)
      /\ \A j \in 1 .. Len(file') : file'[j] \in Ids /\ Len(file') - j <= Len(recorded) - file'[j]
      /\ file' = file \/ Len(file') <= Keep
  <2>1. CASE pc[p] = "cut"
    <3>1. file' \in Flushed(p)
      BY <2>1 DEF BreaksOff
    <3>2. PICK s \in Flushed(p) : s = file'
      BY <3>1
    <3>3. s \in Seq(Nat) /\ Ordered(s) /\ (s = file \/ Len(s) <= Keep)
      BY FlushedIsOrdered
    <3> QED
      BY <3>2, <3>3 DEF Ordered
  <2>2. CASE pc[p] # "cut"
    BY <2>2 DEF BreaksOff, Shape, Ordered
  <2> QED
    BY <2>1, <2>2
<1>2. Ordered(file)'
  BY <1>0, <1>1 DEF Ordered
<1>3. Len(file) \in Nat /\ (Len(file') <= Len(file) \/ Len(file') <= Keep)
  BY <1>1 DEF Shape
<1>4. copy' \in [Procs -> Seq(Nat)] /\ \A q \in Procs : Ordered(copy[q])'
  <2>1. copy' = [copy EXCEPT ![p] = <<>>] /\ copy \in [Procs -> Seq(Nat)]
    BY DEF BreaksOff, Shape
  <2>2. \A q \in Procs : copy'[q] = <<>> \/ copy'[q] = copy[q]
    BY <2>1
  <2>3. Ordered(<< >>)
    BY DEF Ordered
  <2>4. \A q \in Procs : Ordered(copy'[q])
    BY <2>2, <2>3 DEF Shape
  <2> QED
    BY <1>0, <2>1, <2>4 DEF Ordered
<1>5. /\ pc' \in [Procs -> {"idle", "due", "read", "cut"}]
      /\ exposed' \in SUBSET Ids'
  BY <1>0 DEF BreaksOff, GoTo, Shape
<1> QED
  BY <1>1, <1>2, <1>3, <1>4, <1>5

LEMMA ShapeStep == Shape /\ [Next]_vars => Shape'
<1> SUFFICES ASSUME Shape, [Next]_vars PROVE Shape'
  OBVIOUS
<1>0. Every \in Nat \ {0} /\ Len(recorded) \in Nat
  BY LogAssumption DEF Shape
<1>a. ASSUME recorded' = recorded, NEW s, Ordered(s) PROVE Ordered(s)'
  BY <1>a DEF Ordered, Ids
<1>1. ASSUME NEW p \in Procs, NEW v \in Values, Record(p, v) PROVE Shape'
  <2>1. \A s \in Seq(Nat) : Ordered(s) => \A j \in 1 .. Len(s) :
          s[j] \in Ids' /\ Len(s) - j <= Len(recorded') - s[j]
    BY <1>0, <1>1, RecordedGrows DEF Ordered, Ids
  <2>2. file' \in Seq(Nat) /\ Ordered(file)'
    <3> DEFINE line == Len(recorded) + 1
    <3>a. file' = Append(file, line)
      BY <1>1 DEF Record
    <3>b. line \in Nat /\ file \in Seq(Nat)
      BY <1>0 DEF Shape
    <3>c. Len(recorded') = line /\ line \in Ids'
      BY <1>1, RecordedGrows
    <3>1. /\ file' = Append(file, line) /\ line \in Nat /\ file \in Seq(Nat)
          /\ file' \in Seq(Nat) /\ Len(file') = Len(file) + 1
          /\ Len(recorded') = line /\ line \in Ids'
      <4> HIDE DEF line
      <4> QED
        BY <3>a, <3>b, <3>c
    <3>2. \A j \in 1 .. Len(file) : file'[j] = file[j]
      BY <3>1
    <3>3. file'[Len(file) + 1] = line
      BY <3>1
    <3>4. ASSUME NEW j \in 1 .. Len(file')
          PROVE  file'[j] \in Ids' /\ Len(file') - j <= Len(recorded') - file'[j]
      <4>1. CASE j = Len(file) + 1
        BY <1>0, <3>1, <3>3, <4>1
      <4>2. CASE j \in 1 .. Len(file)
        <5>1. file[j] \in Ids /\ Len(file) - j <= Len(recorded) - file[j]
          BY <4>2 DEF Shape, Ordered
        <5>2. file'[j] = file[j] /\ file[j] \in Ids'
          BY <1>1, <3>2, <4>2, <5>1, RecordedGrows
        <5> QED
          BY <1>0, <3>1, <5>1, <5>2 DEF Ids
      <4> QED
        BY <3>1, <4>1, <4>2
    <3> QED
      BY <3>1, <3>4 DEF Ordered
  <2>3. copy' = copy /\ \A q \in Procs : Ordered(copy[q])'
    BY <1>1, <2>1 DEF Record, Shape, Ordered
  <2>4. writes' \in [Procs -> 0 .. Every - 1]
    BY <1>0, <1>1, SMTT(30) DEF Record, Looks, Shape
  <2>5. exposed' \in SUBSET Ids'
    BY <1>1, RecordedGrows DEF Record, Shape
  <2> QED
    BY <1>1, <2>2, <2>3, <2>4, <2>5, RecordedGrows DEF Record, GoTo, Shape
<1>2. ASSUME NEW p \in Procs, ReadAll(p) PROVE Shape'
  BY <1>a, <1>2 DEF ReadAll, GoTo, Shape, Ids
<1>3. ASSUME NEW p \in Procs, Truncate(p) PROVE Shape'
  BY <1>a, <1>3 DEF Truncate, GoTo, Shape, Ids, Ordered
<1>4. ASSUME NEW p \in Procs, WriteBack(p) PROVE Shape'
  <2>1. copy[p] \in Seq(Nat) /\ Ordered(copy[p])
    BY DEF Shape
  <2>2. file' \in Seq(Nat) /\ Ordered(file')
    BY <1>0, <1>4, <2>1, NewestIsOrdered DEF WriteBack
  <2>3. Ordered(file)'
    BY <1>4, <2>2 DEF WriteBack, Ordered, Ids
  <2>4. Ordered(<< >>)
    BY DEF Ordered
  <2> QED
    BY <1>a, <1>4, <2>2, <2>3, <2>4 DEF WriteBack, GoTo, Shape, Ids
<1>5. ASSUME NEW p \in Procs, Fails(p) \/ Exit(p) PROVE Shape'
  <2>1. BreaksOff(p) /\ recorded' = recorded
    BY <1>5 DEF Fails, Exit, BreaksOff
  <2>2. exits' \in Nat /\ failures' \in Nat /\ writes' \in [Procs -> 0 .. Every - 1]
    <3>1. exits' \in Nat /\ failures' \in Nat
      BY <1>5 DEF Fails, Exit, Shape
    <3>2. CASE Fails(p)
      <4>1. writes' = writes
        BY <3>2 DEF Fails
      <4> QED
        BY <3>1, <4>1 DEF Shape
    <3>3. CASE Exit(p)
      <4>1. 0 \in 0 .. Every - 1 /\ writes' = [writes EXCEPT ![p] = 0]
        BY <1>0, <3>3 DEF Exit
      <4> QED
        BY <3>1, <4>1 DEF Shape
    <3> QED
      BY <1>5, <3>2, <3>3
  <2> QED
    BY <2>1, <2>2, BreaksOffKeepsOrder DEF Shape
<1>6. CASE UNCHANGED vars
  BY <1>a, <1>6 DEF vars, Shape, Ids
<1> QED
  BY <1>1, <1>2, <1>3, <1>4, <1>5, <1>6 DEF Next

LEMMA ShapeInit == Init => Shape
BY LogAssumption DEF Init, Shape, Ordered, Ids

\* Every reachable state is well typed, and every line in the file is one that
\* was recorded.
THEOREM LogTypeCorrect == Spec => []TypeOK
<1>1. Shape => TypeOK
  <2> SUFFICES ASSUME Shape PROVE file \in Seq(Ids) /\ copy \in [Procs -> Seq(Ids)]
    BY DEF Shape, TypeOK
  <2>1. \A s \in Seq(Nat) : Ordered(s) => s \in Seq(Ids)
    BY DEF Ordered
  <2> QED
    BY <2>1 DEF Shape
<1> QED
  BY <1>1, ShapeInit, ShapeStep, PTL DEF Spec

-----------------------------------------------------------------------------
(***************************************************************************)
(* What others find.                                                       *)
(***************************************************************************)

\* A bounded set of numbers has a greatest.
LEMMA Greatest ==
  ASSUME NEW X \in SUBSET Nat, NEW n \in Nat, \A x \in X : x <= n, X # {}
  PROVE  \E x \in X : \A y \in X : y <= x
<1> DEFINE T == {n - x : x \in X}
<1>1. T \subseteq Nat /\ T # {}
  <2>1. \A x \in X : n - x \in Nat
    OBVIOUS
  <2>2. PICK x \in X : TRUE
    OBVIOUS
  <2> QED
    BY <2>1, <2>2
<1>2. PICK t \in T : \A u \in T : <<u, t>> \notin OpToRel(<, Nat)
  <2> HIDE DEF T
  <2> QED
    BY <1>1, NatLessThanWellFounded, WFMin
<1>3. \A u \in T : ~(u < t)
  BY <1>1, <1>2 DEF OpToRel
<1>4. PICK x \in X : t = n - x
  OBVIOUS
<1>5. ASSUME NEW y \in X PROVE y <= x
  <2>1. ~(n - y < n - x)
    BY <1>3, <1>4
  <2>2. x \in Nat /\ y \in Nat
    OBVIOUS
  <2> QED
    BY <2>1, <2>2
<1> QED
  BY <1>5

\* Line i is among the newest lines, and no compaction has put it at risk.
Safe(i) == i \in Ids \ exposed /\ Len(recorded) - i < Keep

In(i, s) == \E j \in 1 .. Len(s) : s[j] = i

Cutting == \E p \in Procs : pc[p] = "cut"

\* Every safe line is in the file, unless that is empty just now; and whoever
\* is about to write back what it has read has every one of them.
Kept ==
  /\ ~Cutting => \A i \in Ids : Safe(i) => In(i, file)
  /\ \A p \in Procs : pc[p] \in {"read", "cut"} =>
       \A i \in Ids : Safe(i) => In(i, copy[p])

LEMMA KeptStep == Shape /\ Kept /\ [Next]_vars => Kept'
<1> SUFFICES ASSUME Shape, Kept, [Next]_vars PROVE Kept'
  OBVIOUS
<1>0. Len(recorded) \in Nat /\ Keep \in Nat \ {0}
  BY LogAssumption DEF Shape
<1>1. ASSUME NEW p \in Procs, NEW v \in Values, Record(p, v) PROVE Kept'
  <2> DEFINE line == Len(recorded) + 1
  <2>1. /\ file' = Append(file, line) /\ Len(recorded') = line /\ copy' = copy
        /\ pc[p] = "idle" /\ pc'[p] \in {"idle", "due"}
        /\ \A q \in Procs \ {p} : pc'[q] = pc[q]
        /\ exposed \subseteq exposed'
        /\ (\E q \in Procs : pc[q] \in {"read", "cut"}) => line \in exposed'
    BY <1>1, RecordedGrows DEF Record, GoTo, Shape
  <2>2. \A i \in Ids' : Safe(i)' => Safe(i) \/ i = line
    BY <1>0, <2>1 DEF Safe, Ids
  <2>3. \A i \in Nat : In(i, file) => In(i, file')
    BY <2>1 DEF In, Shape
  <2>4. In(line, file')
    <3>1. file \in Seq(Nat)
      BY DEF Shape
    <3>2. Len(file') = Len(file) + 1 /\ file'[Len(file) + 1] = line
      BY <1>0, <2>1, <3>1
    <3>3. Len(file) + 1 \in 1 .. Len(file')
      BY <3>1, <3>2
    <3> QED
      BY <3>2, <3>3 DEF In
  <2>5. ASSUME ~Cutting', NEW i \in Ids', Safe(i)' PROVE In(i, file')
    <3>1. ~Cutting
      BY <2>1, <2>5 DEF Cutting
    <3>2. CASE i = line
      BY <2>4, <3>2
    <3>3. CASE Safe(i)
      <4>1. i \in Ids /\ i \in Nat
        BY <3>3 DEF Safe, Ids
      <4> QED
        BY <2>3, <3>1, <3>3, <4>1 DEF Kept
    <3> QED
      BY <2>2, <2>5, <3>2, <3>3
  <2>6. ASSUME NEW q \in Procs, pc'[q] \in {"read", "cut"}, NEW i \in Ids', Safe(i)'
        PROVE  In(i, copy'[q])
    <3>1. q # p /\ pc[q] \in {"read", "cut"} /\ i # line
      BY <2>1, <2>6 DEF Safe
    <3> QED
      BY <2>1, <2>2, <2>6, <3>1 DEF Kept, Safe
  <2> QED
    BY <2>5, <2>6 DEF Kept, In
<1>2. ASSUME NEW p \in Procs, ReadAll(p) PROVE Kept'
  <2>1. /\ file' = file /\ recorded' = recorded /\ copy'[p] = file
        /\ pc[p] = "due" /\ pc'[p] = "read"
        /\ \A q \in Procs \ {p} : pc'[q] = pc[q] /\ copy'[q] = copy[q]
        /\ Ids' = Ids
    BY <1>2 DEF ReadAll, GoTo, Shape, Ids
  <2>2. CASE Cutting
    <3>1. exposed' = Ids
      BY <1>2, <2>2 DEF ReadAll, Cutting
    <3>2. \A i \in Ids' : ~Safe(i)'
      BY <2>1, <3>1 DEF Safe
    <3> QED
      BY <3>2 DEF Kept
  <2>3. CASE ~Cutting
    <3>1. exposed' = exposed
      BY <1>2, <2>3 DEF ReadAll, Cutting
    <3>2. \A i \in Ids' : Safe(i)' => Safe(i) /\ In(i, file)
      BY <2>1, <2>3, <3>1 DEF Safe, Kept
    <3> QED
      BY <2>1, <3>2 DEF Kept, In
  <2> QED
    BY <2>2, <2>3
<1>3. ASSUME NEW p \in Procs, Truncate(p) PROVE Kept'
  <2>1. /\ recorded' = recorded /\ exposed' = exposed /\ copy' = copy /\ Ids' = Ids
        /\ pc[p] = "read" /\ pc'[p] = "cut"
        /\ \A q \in Procs \ {p} : pc'[q] = pc[q]
    BY <1>3 DEF Truncate, GoTo, Shape, Ids
  <2>2. \A i \in Ids' : Safe(i)' => Safe(i)
    BY <2>1 DEF Safe
  <2>3. \A q \in Procs : pc'[q] \in {"read", "cut"} => pc[q] \in {"read", "cut"}
    BY <2>1
  <2>4. Cutting'
    BY <2>1 DEF Cutting
  <2> QED
    BY <2>1, <2>2, <2>3, <2>4 DEF Kept, In
<1>4. ASSUME NEW p \in Procs, WriteBack(p) PROVE Kept'
  <2>1. /\ recorded' = recorded /\ exposed' = exposed /\ Ids' = Ids
        /\ pc[p] = "cut" /\ pc'[p] = "idle" /\ file' = Newest(copy[p])
        /\ \A q \in Procs \ {p} : pc'[q] = pc[q] /\ copy'[q] = copy[q]
    BY <1>4 DEF WriteBack, GoTo, Shape, Ids
  <2>2. copy[p] \in Seq(Nat) /\ Ordered(copy[p])
    BY DEF Shape
  <2>3. ASSUME NEW i \in Ids, Safe(i) PROVE In(i, file')
    <3>1. PICK j \in 1 .. Len(copy[p]) : copy[p][j] = i
      BY <2>1, <2>3 DEF Kept, In
    <3>2. Len(copy[p]) - j <= Len(recorded) - i
      BY <2>2, <3>1 DEF Ordered
    <3>3. Len(copy[p]) - j < Keep
      BY <1>0, <2>2, <2>3, <3>1, <3>2 DEF Safe, Ids
    <3> QED
      BY <1>0, <2>1, <2>2, <3>1, <3>3, NewestIsOrdered DEF In
  <2>4. \A i \in Ids' : Safe(i)' => Safe(i)
    BY <2>1 DEF Safe
  <2>5. ASSUME NEW q \in Procs, pc'[q] \in {"read", "cut"}, NEW i \in Ids', Safe(i)'
        PROVE  In(i, copy'[q])
    <3>1. q # p /\ pc[q] \in {"read", "cut"} /\ copy'[q] = copy[q]
      BY <2>1, <2>5
    <3> QED
      BY <2>1, <2>4, <2>5, <3>1 DEF Kept
  <2> QED
    BY <2>1, <2>3, <2>4, <2>5 DEF Kept, In
<1>5. ASSUME NEW p \in Procs, Fails(p) \/ Exit(p) PROVE Kept'
  <2>0. BreaksOff(p)
    BY <1>5 DEF Fails, Exit
  <2>1. /\ recorded' = recorded /\ Ids' = Ids /\ pc'[p] = "idle"
        /\ \A q \in Procs \ {p} : pc'[q] = pc[q] /\ copy'[q] = copy[q]
    BY <2>0 DEF BreaksOff, GoTo, Shape, Ids
  <2>2. CASE pc[p] = "cut"
    <3>1. exposed' = Ids
      BY <2>0, <2>2 DEF BreaksOff
    <3>2. \A i \in Ids' : ~Safe(i)'
      BY <2>1, <3>1 DEF Safe
    <3> QED
      BY <3>2 DEF Kept
  <2>3. CASE pc[p] # "cut"
    <3>1. exposed' = exposed /\ file' = file
      BY <2>0, <2>3 DEF BreaksOff
    <3>2. \A i \in Ids' : Safe(i)' => Safe(i)
      BY <2>1, <3>1 DEF Safe
    <3>3. ~Cutting' => ~Cutting
      BY <2>1, <2>3 DEF Cutting
    <3>4. \A q \in Procs : pc'[q] \in {"read", "cut"} =>
            pc[q] \in {"read", "cut"} /\ copy'[q] = copy[q]
      BY <2>1
    <3> QED
      BY <2>1, <3>1, <3>2, <3>3, <3>4 DEF Kept, In
  <2> QED
    BY <2>2, <2>3
<1>6. CASE UNCHANGED vars
  BY <1>6 DEF vars, Kept, Safe, In, Cutting, Ids
<1> QED
  BY <1>1, <1>2, <1>3, <1>4, <1>5, <1>6 DEF Next

LEMMA KeptFinds == Shape /\ Kept => OthersFind
<1> SUFFICES ASSUME Shape, Kept, ~Cutting,
                    NEW i \in Ids \ exposed, Len(recorded) - i < Keep,
                    NEW t \in Tools \ {recorded[i].tool}
             PROVE  recorded[i].value \in ValuesFor(t)
  BY DEF OthersFind, Cutting
<1> DEFINE Same == {j \in Present : /\ recorded[j].value = recorded[i].value
                                    /\ recorded[j].tool # t}
<1>1. i \in Same
  <2>1. In(i, file)
    BY DEF Kept, Safe
  <2>2. DOMAIN file = 1 .. Len(file)
    BY DEF Shape
  <2> QED
    BY <2>1, <2>2 DEF In, Present
<1>2. Len(recorded) \in Nat /\ Same \subseteq Ids
  <2>1. Present \subseteq Ids
    BY DEF Shape, Present, Ordered
  <2> QED
    BY <2>1 DEF Shape
<1>3. Same \in SUBSET Nat /\ \A j \in Same : j <= Len(recorded)
  BY <1>2 DEF Ids
<1>4. PICK m \in Same : \A j \in Same : j <= m
  <2> HIDE DEF Same
  <2> QED
    BY <1>1, <1>2, <1>3, Greatest
<1>5. m \in Read(t) /\ recorded[m].value = recorded[i].value
  BY <1>4 DEF Read
<1> QED
  BY <1>5 DEF ValuesFor

\* What one tool records the others find while fewer than Keep lines have been
\* recorded since, unless the line was recorded during a compaction, or a
\* write broke off, or another process read, while the file was empty.
THEOREM OthersAlwaysFind == Spec => []OthersFind
<1>1. Init => Kept
  BY DEF Init, Kept, Safe, Ids
<1> QED
  BY <1>1, ShapeInit, ShapeStep, KeptStep, KeptFinds, PTL DEF Spec

-----------------------------------------------------------------------------
(***************************************************************************)
(* The size.                                                               *)
(***************************************************************************)

\* Writes of the living processes that no look at the size has followed; one
\* that is compacting stands for as many as bring the next look about.
Unlooked ==
  {pk \in Procs \X (1 .. Every) : pc[pk[1]] # "idle" \/ pk[2] <= writes[pk[1]]}

\* Faults: ends of processes, and compactions that failed.
Faults == exits + failures

\* Each of those may have left that many.
Paid == Len(file) <= Cap + Cardinality(Unlooked) + Every * Faults

LEMMA UnlookedFinite ==
  ASSUME Every \in Nat \ {0}
  PROVE  /\ IsFiniteSet(Unlooked)
         /\ Cardinality(Unlooked) \in Nat
         /\ Cardinality(Unlooked) <= Cardinality(Procs) * Every
         /\ Cardinality(Procs) \in Nat
<1>1. IsFiniteSet(1 .. Every) /\ Cardinality(1 .. Every) = Every
  BY FS_Interval
<1>2. IsFiniteSet(Procs) /\ Cardinality(Procs) \in Nat
  BY LogAssumption, FS_CardinalityType
<1>3. /\ IsFiniteSet(Procs \X (1 .. Every))
      /\ Cardinality(Procs \X (1 .. Every)) = Cardinality(Procs) * Every
  BY <1>1, <1>2, FS_Product
<1>4. Unlooked \in SUBSET (Procs \X (1 .. Every))
  BY DEF Unlooked
<1> QED
  BY <1>2, <1>3, <1>4, FS_Subset, FS_CardinalityType

LEMMA Column ==
  ASSUME NEW p, NEW I, IsFiniteSet(I), Cardinality(I) \in Nat
  PROVE  IsFiniteSet({p} \X I) /\ Cardinality({p} \X I) = Cardinality(I)
<1>1. IsFiniteSet({p}) /\ Cardinality({p}) = 1
  BY FS_Singleton
<1>2. IsFiniteSet({p} \X I) /\ Cardinality({p} \X I) = Cardinality({p}) * Cardinality(I)
  BY <1>1, FS_Product
<1> QED
  BY <1>1, <1>2

LEMMA PaidStep == Shape /\ Paid /\ [Next]_vars => Paid'
<1> SUFFICES ASSUME Shape, Paid, [Next]_vars PROVE Paid'
  OBVIOUS
<1>0. /\ Every \in Nat \ {0} /\ Cap \in Nat /\ Keep \in Nat /\ Keep <= Cap
      /\ Len(file) \in Nat /\ Faults \in Nat /\ Every * Faults \in Nat
      /\ Cardinality(Unlooked) \in Nat /\ IsFiniteSet(Unlooked)
  <2>1. Every \in Nat \ {0} /\ Cap \in Nat /\ Keep \in Nat /\ Keep <= Cap
    BY LogAssumption
  <2>2. Len(file) \in Nat /\ Faults \in Nat
    BY DEF Shape, Faults
  <2> QED
    BY <2>1, <2>2, UnlookedFinite
<1>a. Cardinality(Unlooked') \in Nat /\ IsFiniteSet(Unlooked')
  <2>1. Shape'
    BY ShapeStep
  <2>2. Unlooked' \in SUBSET (Procs \X (1 .. Every))
    BY DEF Unlooked
  <2>3. IsFiniteSet(Procs) /\ IsFiniteSet(1 .. Every)
    <3>1. 1 \in Int /\ Every \in Int
      BY <1>0
    <3> QED
      BY <3>1, LogAssumption, FS_Interval
  <2>4. IsFiniteSet(Procs \X (1 .. Every))
    BY <2>3, FS_Product
  <2> QED
    BY <2>2, <2>4, FS_Subset, FS_CardinalityType
<1>1. ASSUME NEW p \in Procs, NEW v \in Values, Record(p, v) PROVE Paid'
  <2>1. Len(file') = Len(file) + 1 /\ Faults' = Faults
    BY <1>1 DEF Record, Shape, Faults
  <2>2. /\ pc[p] = "idle" /\ writes[p] \in 0 .. Every - 1
        /\ writes'[p] = IF Looks(p) THEN 0 ELSE writes[p] + 1
        /\ \A q \in Procs \ {p} : pc'[q] = pc[q] /\ writes'[q] = writes[q]
        /\ pc'[p] = IF Looks(p) /\ Len(file) + 1 > Cap THEN "due" ELSE "idle"
    BY <1>1 DEF Record, GoTo, Shape
  <2>3. CASE Len(file) + 1 <= Cap
    BY <1>0, <1>a, <2>1, <2>3 DEF Paid
  <2>4. CASE Len(file) + 1 > Cap
    <3> DEFINE new == <<p, writes[p] + 1>>
    <3>1. new \in Procs \X (1 .. Every) /\ new \notin Unlooked
      BY <1>0, <2>2 DEF Unlooked
    <3>2. new \in Unlooked'
      <4>1. CASE Looks(p)
        BY <2>2, <2>4, <3>1, <4>1 DEF Unlooked
      <4>2. CASE ~Looks(p)
        <5>1. writes'[p] = writes[p] + 1
          BY <1>0, <2>2, <4>2 DEF Looks
        <5> QED
          BY <1>0, <2>2, <3>1, <5>1 DEF Unlooked
      <4> QED
        BY <4>1, <4>2
    <3>3. ASSUME NEW q \in Procs, NEW k \in 1 .. Every, <<q, k>> \in Unlooked
          PROVE  <<q, k>> \in Unlooked'
      <4>1. CASE q # p
        BY <2>2, <3>3, <4>1 DEF Unlooked
      <4>2. CASE q = p /\ Looks(p)
        BY <2>2, <2>4, <3>3, <4>2 DEF Unlooked
      <4>3. CASE q = p /\ ~Looks(p)
        <5>1. writes'[p] = writes[p] + 1
          BY <1>0, <2>2, <4>3 DEF Looks
        <5>2. k <= writes[p]
          BY <2>2, <3>3, <4>3 DEF Unlooked
        <5> QED
          BY <1>0, <2>2, <4>3, <5>1, <5>2 DEF Unlooked
      <4> QED
        BY <4>1, <4>2, <4>3
    <3>4. Unlooked \cup {new} \in SUBSET Unlooked'
      BY <3>2, <3>3 DEF Unlooked
    <3>5. Cardinality(Unlooked \cup {new}) = Cardinality(Unlooked) + 1
      BY <1>0, <3>1, FS_AddElement
    <3>6. Cardinality(Unlooked) + 1 <= Cardinality(Unlooked')
      BY <1>a, <3>4, <3>5, FS_Subset
    <3> QED
      BY <1>0, <1>a, <2>1, <3>6 DEF Paid
  <2> QED
    BY <1>0, <2>3, <2>4
<1>2. ASSUME NEW p \in Procs, ReadAll(p) \/ Truncate(p) PROVE Paid'
  <2>1. Unlooked' = Unlooked /\ Faults' = Faults
    BY <1>2 DEF ReadAll, Truncate, GoTo, Shape, Unlooked, Faults
  <2>2. Len(file') <= Len(file) /\ Len(file') \in Nat
    BY <1>0, <1>2 DEF ReadAll, Truncate
  <2> QED
    BY <1>0, <2>1, <2>2 DEF Paid
<1>3. ASSUME NEW p \in Procs, WriteBack(p) PROVE Paid'
  <2>1. copy[p] \in Seq(Nat) /\ Ordered(copy[p]) /\ Len(recorded) \in Nat
    BY DEF Shape
  <2>2. Len(file') <= Keep /\ Len(file') \in Nat /\ Faults' = Faults
    BY <1>3, <2>1, NewestIsOrdered DEF WriteBack, Faults
  <2> QED
    BY <1>0, <1>a, <2>2 DEF Paid
<1>4. ASSUME NEW p \in Procs, Fails(p) \/ Exit(p) PROVE Paid'
  <2> DEFINE Own == {p} \X (1 .. Every)
  <2>1. /\ Len(file') \in Nat /\ (Len(file') <= Len(file) \/ Len(file') <= Keep)
        /\ Faults' = Faults + 1
        /\ \A q \in Procs \ {p} : pc'[q] = pc[q] /\ writes'[q] = writes[q]
    <3>1. BreaksOff(p)
      BY <1>4 DEF Fails, Exit
    <3>2. file' \in Seq(Nat) /\ (Len(file') <= Len(file) \/ Len(file') <= Keep)
      BY <3>1, BreaksOffKeepsOrder
    <3>3. Faults' = Faults + 1
      BY <1>4 DEF Fails, Exit, Faults, Shape
    <3>4. \A q \in Procs \ {p} : pc'[q] = pc[q] /\ writes'[q] = writes[q]
      BY <1>4 DEF Fails, Exit, BreaksOff, GoTo, Shape
    <3> QED
      BY <3>2, <3>3, <3>4
  <2>2. IsFiniteSet(Own) /\ Cardinality(Own) = Every
    <3>1. IsFiniteSet(1 .. Every) /\ Cardinality(1 .. Every) = Every
      <4>1. 1 \in Int /\ Every \in Int /\ ~(1 > Every) /\ Every - 1 + 1 = Every
        BY <1>0
      <4> QED
        BY <4>1, FS_Interval
    <3>2. Cardinality(1 .. Every) \in Nat
      BY <1>0, <3>1
    <3> QED
      BY <3>1, <3>2, Column
  <2>3. Unlooked \in SUBSET (Unlooked' \cup Own)
    BY <2>1 DEF Unlooked
  <2>4. /\ IsFiniteSet(Unlooked' \cup Own)
        /\ Cardinality(Unlooked' \cup Own) <= Cardinality(Unlooked') + Every
    <3> HIDE DEF Own
    <3>1. Cardinality(Unlooked' \cap Own) \in Nat
      BY <1>a, FS_Intersection, FS_CardinalityType
    <3>2. /\ IsFiniteSet(Unlooked' \cup Own)
          /\ Cardinality(Unlooked' \cup Own)
               = Cardinality(Unlooked') + Cardinality(Own) - Cardinality(Unlooked' \cap Own)
      BY <1>a, <2>2, FS_Union
    <3> QED
      BY <1>0, <1>a, <2>2, <3>1, <3>2
  <2>5. Cardinality(Unlooked) <= Cardinality(Unlooked') + Every
    BY <1>0, <1>a, <2>3, <2>4, FS_Subset, FS_CardinalityType
  <2>6. Every * Faults' = Every * Faults + Every
    BY <1>0, <2>1
  <2> QED
    BY <1>0, <1>a, <2>1, <2>5, <2>6, SMTT(30) DEF Paid
<1>5. CASE UNCHANGED vars
  BY <1>5 DEF vars, Paid, Unlooked, Faults
<1> QED
  BY <1>1, <1>2, <1>3, <1>4, <1>5 DEF Next

\* The file holds at most what makes a compaction worth while and, for every
\* process that lives or has ended and every compaction that failed, the writes
\* a process may make between two looks.
THEOREM FileAlwaysBounded == Spec => []FileBounded
<1>1. Init => Paid
  <2> SUFFICES ASSUME Init PROVE Paid
    OBVIOUS
  <2>1. Every \in Nat \ {0} /\ Cap \in Nat
    BY LogAssumption
  <2>2. Len(file) = 0 /\ Faults = 0 /\ Cardinality(Unlooked) \in Nat
    BY <2>1, UnlookedFinite DEF Init, Faults
  <2> QED
    BY <2>1, <2>2 DEF Paid
<1>2. Shape /\ Paid => FileBounded
  <2> SUFFICES ASSUME Shape, Paid PROVE FileBounded
    OBVIOUS
  <2>1. /\ Every \in Nat \ {0} /\ Cap \in Nat /\ Faults \in Nat /\ Len(file) \in Nat
    BY LogAssumption DEF Shape, Faults
  <2>2. /\ Cardinality(Unlooked) \in Nat /\ Cardinality(Procs) \in Nat
        /\ Cardinality(Unlooked) <= Cardinality(Procs) * Every
    BY <2>1, UnlookedFinite
  <2>3. Every * (Cardinality(Procs) + Faults) = Cardinality(Procs) * Every + Every * Faults
    BY <2>1, <2>2
  <2>4. Cardinality(Procs) + Faults = Cardinality(Procs) + exits + failures
    BY <2>2 DEF Faults, Shape
  <2> QED
    BY <2>1, <2>2, <2>3, <2>4 DEF Paid, FileBounded
<1> QED
  BY <1>1, <1>2, ShapeInit, ShapeStep, PaidStep, PTL DEF Spec

=============================================================================
