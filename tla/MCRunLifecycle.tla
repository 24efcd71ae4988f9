--------------------------- MODULE MCRunLifecycle ---------------------------
(***************************************************************************)
(* Model-checking instance of RunLifecycle: the ids successors may take are  *)
(* interchangeable until one is born.                                        *)
(***************************************************************************)
EXTENDS RunLifecycle, TLC

Symmetry == Permutations(Run \ Root)
=============================================================================
