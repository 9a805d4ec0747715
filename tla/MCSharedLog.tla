----------------------------- MODULE MCSharedLog -----------------------------
(***************************************************************************)
(* A run of warden and one of knorr on one file, which is compacted beyond *)
(* two lines to its last two, every second write of a process.  Values     *)
(* alternate, and every fourth line may repeat the one before it or the    *)
(* one after it.                                                           *)
(***************************************************************************)
EXTENDS SharedLog

CONSTANTS submit, knorr

MCTool == [p \in Procs |-> IF p = knorr THEN "knorr" ELSE "warden"]

MCFound ==
  [n \in 1 .. MaxWrites |->
     IF n % 4 = 0 THEN Values ELSE IF n % 2 = 0 THEN {"b"} ELSE {"a"}]

=============================================================================
