------------------------------ MODULE MCIntPtr ------------------------------
(***************************************************************************)
(* IntPtr with the threads, objects and bounds of the configurations.      *)
(***************************************************************************)
EXTENDS IntPtr
=============================================================================
