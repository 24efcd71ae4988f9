---------------------------- MODULE MCVerifyDrain ----------------------------
(* A small instance of VerifyDrain for TLC. *)
EXTENDS VerifyDrain, TLC

\* Requests are interchangeable, and so are findings.
Symmetry == Permutations(Client) \cup Permutations(Finding)
=============================================================================
