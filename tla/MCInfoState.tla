---------------------------- MODULE MCInfoState ----------------------------
(***************************************************************************)
(* InfoState with the threads and flags of the configurations.             *)
(***************************************************************************)
EXTENDS InfoState, TLC

ThreadSymmetry == Permutations(Loaders) \cup Permutations(Clients) \cup Permutations(Flags)
=============================================================================
