-------------------------- MODULE MCAcceptCeremony ---------------------------
(***************************************************************************)
(* Model-checking instance of AcceptCeremony: effects are interchangeable,   *)
(* and so are deliverables.                                                  *)
(***************************************************************************)
EXTENDS AcceptCeremony, TLC

Symmetry == Permutations(Effect) \cup Permutations(Deliverable)
=============================================================================
