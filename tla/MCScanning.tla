------------------------------- MODULE MCScanning -------------------------------
(* Instances of Scanning for TLC. *)
EXTENDS Scanning, TLC

Symmetry == Permutations(Scan) \union Permutations(Handler)

=================================================================================
