-------------------------- MODULE MCDependencyInfo --------------------------
(***************************************************************************)
(* DependencyInfo with the plans of the configurations.                    *)
(***************************************************************************)
EXTENDS DependencyInfo, TLC

CONSTANTS o1, o2, o3, f1, f2

Both == {f1, f2}
One  == {f1}

\* One plan with two objects, two kinds of one object, plans that overlap, that
\* contain each other and that exclude each other; the last ones join to nothing
\* before the fourth.
MCAlternatives == {
  << (o1 :> Both @@ o2 :> One) >>,
  << (o1 :> Both @@ o2 :> Both), (o2 :> Both @@ o3 :> One) >>,
  << (o1 :> One @@ o2 :> One), (o1 :> One @@ o2 :> One) >>,
  << (o1 :> One), (o2 :> One) >>,
  << (o1 :> One @@ o2 :> One), (o1 :> One), (o1 :> One @@ o3 :> Both) >>,
  << (o1 :> One @@ o2 :> One), (o2 :> One @@ o3 :> One), (o1 :> One @@ o3 :> One) >>,
  << (o1 :> One), (o2 :> One), (o3 :> One), (o1 :> Both) >> }

MCSmall == { << (o1 :> Both) >> }
=============================================================================
