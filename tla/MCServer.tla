------------------------------ MODULE MCServer ------------------------------
(* Instances of Server for TLC. *)
EXTENDS ServerInductive, TLC

(* Connection structs, request objects and workers are interchangeable. *)
Symmetry == Permutations(Conns) \cup Permutations(Reqs) \cup Permutations(Workers)
=============================================================================
