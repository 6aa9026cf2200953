---------------------------- MODULE MCAsyncBuffer ----------------------------
(***************************************************************************)
(* AsyncBuffer with the sizes of the configurations.                       *)
(***************************************************************************)
EXTENDS AsyncBuffer
=============================================================================
