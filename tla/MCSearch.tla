------------------------------ MODULE MCSearch ------------------------------
(***************************************************************************)
(* An instance of SearchCursor for TLC.                                    *)
(***************************************************************************)
EXTENDS SearchCursor

CONSTANTS q1, r1, r2

OneTerm == <<q1>>

\* Every page GitHub serves is full.
AllFull == [q \in Queries |-> MaxPage + 1]

\* One repo on each of the first two pages, which a run walks together.
OnTwoPages ==
  [q \in Queries |-> [p \in Pages |->
     CASE p = 1 -> {r1} [] p = 2 -> {r2} [] OTHER -> {}]]
=============================================================================
