------------------------------ MODULE MCApproval ------------------------------
(***************************************************************************)
(* Instances of Approval: the requester q, two approvers, a two-step rule  *)
(* either of them may decide, a rule with a step for each, and the default *)
(* step that is open to everybody.                                         *)
(***************************************************************************)
EXTENDS Approval, TLC

CONSTANTS q, a, b

MCRules == {<<User>>, <<{a, b}, {a, b}>>}
MCTwoStep == {<<{a, b}, {a, b}>>}
MCRoles == {<<User>>, <<{a}, {b, q}>>}

CallSymmetry == Permutations(Call)
=============================================================================
