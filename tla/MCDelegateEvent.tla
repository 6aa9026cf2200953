--------------------------- MODULE MCDelegateEvent ---------------------------
(***************************************************************************)
(* DelegateEvent with the delegates and threads of the configurations.     *)
(***************************************************************************)
EXTENDS DelegateEvent, TLC

ThreadSymmetry == Permutations(Delegates) \cup Permutations(Notifiers)
=============================================================================
