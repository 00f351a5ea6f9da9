----------------------------- MODULE MCWorkstation -----------------------------
(***************************************************************************)
(* Workstation for the model checker.  The index: two files, one of them    *)
(* deleted or changed between the scans; no index, or one readied and       *)
(* updated since.  The shelf: two harnesses and a renderer.                 *)
(***************************************************************************)
EXTENDS Workstation, TLC

CONSTANTS f, g  \* the files

TwoTrees == {f :> 1 @@ g :> 1, f :> 2 @@ g :> Absent}
NoneOrUpdated ==
  {NoIndex, [segments |-> <<f :> 1 @@ g :> 1, f :> 2 @@ g :> Absent>>, working |-> 1]}

ASSUME GoodParameters == PartParameters

Symmetry == Permutations(Writers) \cup Permutations(Viewports)
=============================================================================
