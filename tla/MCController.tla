---------------------------- MODULE MCController ----------------------------
(***************************************************************************)
(* Controller with the bounds of the configurations.  A playlist that      *)
(* repeats has more states, so there it gets one intervention less.        *)
(***************************************************************************)
EXTENDS Controller

MCMaxEvents == [r \in BOOLEAN |-> IF r THEN 1 ELSE 2]
=============================================================================
