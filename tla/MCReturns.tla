------------------------------- MODULE MCReturns -------------------------------
(***************************************************************************)
(* Instances of Returns: a request for two units and one for a single      *)
(* unit compete for two single-unit rows, so that the second request can   *)
(* only be served with what the first did not take or gave back.           *)
(***************************************************************************)
EXTENDS Returns, TLC

CONSTANTS r1, r2

MCWant == (r1 :> 2 @@ r2 :> 1)
MCQty == [s \in Row |-> 1]

\* Interchangeable: the rows hold the same, and ids of tasks and handlers are
\* only compared.
Symmetry == Permutations(Row) \union Permutations(Task) \union Permutations(Call)
=============================================================================
