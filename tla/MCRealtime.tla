------------------------------- MODULE MCRealtime -------------------------------
(* Instances of Realtime for TLC.  No symmetry: liveness is checked. *)
EXTENDS Realtime

================================================================================
