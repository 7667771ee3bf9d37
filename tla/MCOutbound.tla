------------------------------ MODULE MCOutbound ------------------------------
(***************************************************************************)
(* Instances of Outbound: two requests over a bulk row of two units and a  *)
(* single unit, with one or two spare ids for the rows splits create.      *)
(***************************************************************************)
EXTENDS OutboundLedger, TLC

CONSTANTS r1, r2, s1, s2, s3, s4

\* r1 can be served from one bulk row or from two rows; r2 splits the bulk row.
MCWant == (r1 :> 2 @@ r2 :> 1)
MCQty == [s \in Row |-> CASE s = s1 -> 2 [] s = s2 -> 1 [] OTHER -> 0]

\* Two requests for two units each: one bulk row and two single units.
MCWantTwo == [r \in Req |-> 2]
MCQtyThree == [s \in Row |-> IF s = s1 THEN 2 ELSE 1]

TaskSymmetry == Permutations(Task)

\* Bound: no repair begins once one has written over a task.
OneCrossing == repair.crossed => repair.at = "idle"
=============================================================================
