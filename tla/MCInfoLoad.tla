----------------------------- MODULE MCInfoLoad -----------------------------
(***************************************************************************)
(* InfoLoad with the threads of the configurations.                        *)
(***************************************************************************)
EXTENDS InfoLoad, TLC

\* The kinds are alike, and so are the threads that load synchronously.
KindSymmetry == Permutations(Flags) \cup Permutations(Askers)
=============================================================================
