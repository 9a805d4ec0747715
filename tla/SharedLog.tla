----------------------------- MODULE SharedLog -----------------------------
(***************************************************************************)
(* The breadcrumb file warden and knorr share (intel_exchange.py): any     *)
(* number of processes append to it, and one whose own count of writes is  *)
(* due reads the whole file and writes its newest lines back, under a lock *)
(* no other process knows.  A compaction may fail without anybody being    *)
(* told.  github/telemetry.py keeps its search log the same way.           *)
(*                                                                         *)
(* Lines of one kind are modelled; the file holds their numbers in the     *)
(* order of recording.  Its size is counted in lines.                      *)
(***************************************************************************)
EXTENDS Naturals, Sequences, FiniteSets

CONSTANTS
  Procs,
  Tool,        \* Tool[p]: the tool p is a run of
  Values,
  Found,       \* Found[n]: the values the n-th line may carry
  Keep,        \* lines a compaction keeps (20,000; telemetry 1,500)
  Cap,         \* lines beyond which one is worth while (5 MB; 2 MB)
  Every,       \* writes of one process between two looks (200; 50)
  MaxWrites,   \* bound on the lines recorded
  MaxFaults    \* bound on processes that end and compactions that fail

ASSUME LogAssumption ==
  /\ IsFiniteSet(Procs)
  /\ Keep \in Nat \ {0}
  /\ Cap \in Nat
  /\ Keep <= Cap
  /\ Every \in Nat \ {0}
  /\ MaxWrites \in Nat
  /\ Found \in [1 .. MaxWrites -> SUBSET Values]
  /\ MaxFaults \in Nat

VARIABLES
  file,      \* numbers of the lines in the file
  recorded,  \* every line ever recorded: [tool, value]
  writes,    \* writes of each process since its last look at the size
  pc,        \* where each process is in a compaction
  copy,      \* what it has read
  exposed,   \* lines another's compaction, or one that broke off, may cost
  exits,     \* processes that have ended
  failures   \* compactions that failed in a process that lives on

vars == <<file, recorded, writes, pc, copy, exposed, exits, failures>>

Tools == {Tool[p] : p \in Procs}

Ids == 1 .. Len(recorded)

TypeOK ==
  /\ recorded \in Seq([tool : Tools, value : Values])
  /\ file \in Seq(Ids)
  /\ writes \in [Procs -> 0 .. Every - 1]
  /\ pc \in [Procs -> {"idle", "due", "read", "cut"}]
  /\ copy \in [Procs -> Seq(Ids)]
  /\ exposed \in SUBSET Ids
  /\ exits \in Nat
  /\ failures \in Nat

Init ==
  /\ file = <<>>
  /\ recorded = <<>>
  /\ writes = [p \in Procs |-> 0]
  /\ pc = [p \in Procs |-> "idle"]
  /\ copy = [p \in Procs |-> <<>>]
  /\ exposed = {}
  /\ exits = 0
  /\ failures = 0

GoTo(p, there) == pc' = [pc EXCEPT ![p] = there]

\* Mutant: the file is written back as it was read.
Everything(lines) == lines

\* The newest lines, or all of them.
Newest(lines) ==
  SubSeq(lines, IF Len(lines) > Keep THEN Len(lines) - Keep + 1 ELSE 1, Len(lines))

-----------------------------------------------------------------------------
(***************************************************************************)
(* record, with the compaction it may end in.                              *)
(***************************************************************************)

\* Every 200th write of this process looks at the size.
Looks(p) == writes[p] + 1 = Every

Record(p, v) ==
  LET line == Len(recorded) + 1 IN
  /\ pc[p] = "idle"
  /\ Len(recorded) < MaxWrites
  /\ v \in Found[line]
  /\ recorded' = Append(recorded, [tool |-> Tool[p], value |-> v])
  /\ file' = Append(file, line)
  /\ writes' = [writes EXCEPT ![p] = IF Looks(p) THEN 0 ELSE @ + 1]
  /\ GoTo(p, IF Looks(p) /\ Len(file) + 1 > Cap THEN "due" ELSE "idle")
  /\ exposed' = IF \E q \in Procs : pc[q] \in {"read", "cut"}
                THEN exposed \cup {line} ELSE exposed
  /\ UNCHANGED <<copy, exits, failures>>

\* Who reads while another process has emptied the file misses what was in it.
ReadAll(p) ==
  /\ pc[p] = "due"
  /\ copy' = [copy EXCEPT ![p] = file]
  /\ exposed' = IF \E q \in Procs : pc[q] = "cut" THEN Ids ELSE exposed
  /\ GoTo(p, "read")
  /\ UNCHANGED <<file, recorded, writes, exits, failures>>

\* Opening the file for writing empties it.
Truncate(p) ==
  /\ pc[p] = "read"
  /\ file' = <<>>
  /\ GoTo(p, "cut")
  /\ UNCHANGED <<recorded, writes, copy, exposed, exits, failures>>

\* The write starts at the beginning, over what was appended meanwhile (the
\* lines kept are far more than those).
WriteBack(p) ==
  /\ pc[p] = "cut"
  /\ file' = Newest(copy[p])
  /\ copy' = [copy EXCEPT ![p] = <<>>]
  /\ GoTo(p, "idle")
  /\ UNCHANGED <<recorded, writes, exposed, exits, failures>>

\* A write that breaks off: nothing of it is in the file, or its beginning, as
\* far as it went.
Flushed(p) ==
  {file} \cup {SubSeq(Newest(copy[p]), 1, n) :
                 n \in Len(file) + 1 .. Len(Newest(copy[p]))}

BreaksOff(p) ==
  /\ IF pc[p] = "cut"
     THEN /\ file' \in Flushed(p)
          /\ exposed' = Ids
     ELSE UNCHANGED <<file, exposed>>
  /\ copy' = [copy EXCEPT ![p] = <<>>]
  /\ GoTo(p, "idle")
  /\ UNCHANGED recorded

\* An OSError of the look at the size, of reading or of writing is passed over
\* in silence: this process looks again after as many writes as before.
Fails(p) ==
  /\ pc[p] # "idle"
  /\ exits + failures < MaxFaults
  /\ failures' = failures + 1
  /\ BreaksOff(p)
  /\ UNCHANGED <<writes, exits>>

\* A process ends, killed or done: its count starts anew with the next run.
Exit(p) ==
  /\ exits + failures < MaxFaults
  /\ exits' = exits + 1
  /\ writes' = [writes EXCEPT ![p] = 0]
  /\ BreaksOff(p)
  /\ UNCHANGED failures

Next ==
  \E p \in Procs :
    \/ \E v \in Values : Record(p, v)
    \/ ReadAll(p)
    \/ Truncate(p)
    \/ WriteBack(p)
    \/ Fails(p)
    \/ Exit(p)

Spec == Init /\ [][Next]_vars

-----------------------------------------------------------------------------
(***************************************************************************)
(* What a reader gets.                                                     *)
(***************************************************************************)
Present == {file[i] : i \in DOMAIN file}

\* Mutant: the newest line of a value is looked up before the reader's own
\* lines are left out, so that an echo hides what the other tool found.
ReadNewestFirst(tool) ==
  {i \in Present : /\ recorded[i].tool # tool
                   /\ \A j \in Present : recorded[j].value = recorded[i].value => j <= i}

\* read(kind, exclude_tool): one line per value, the newest of those not by
\* the reader.
Read(tool) ==
  {i \in Present :
     /\ recorded[i].tool # tool
     /\ \A j \in Present :
          recorded[j].value = recorded[i].value /\ recorded[j].tool # tool => j <= i}

\* values: the seeds of a hunt, the targets the other tool has reported.
ValuesFor(tool) == {recorded[i].value : i \in Read(tool)}

\* What one tool recorded the other finds, as long as fewer than Keep lines
\* were recorded since: unless the line was recorded while some process was
\* compacting, or a write broke off or another process read while the file was
\* empty.
\* (While it is empty, nobody finds anything.)
OthersFind ==
  (\A p \in Procs : pc[p] # "cut") =>
    \A i \in Ids \ exposed :
      Len(recorded) - i < Keep =>
        \A t \in Tools \ {recorded[i].tool} : recorded[i].value \in ValuesFor(t)

\* The file is bounded ("keep the file bounded", telemetry.py:29), but not by
\* its cap alone.  Each process brings its own count of writes; one that ends
\* before it is due has never looked at the size; and one whose compaction
\* failed writes as much again before it tries once more.
FileBounded == Len(file) <= Cap + Every * (Cardinality(Procs) + exits + failures)

=============================================================================
