---------------------------- MODULE MCObjectLedger ----------------------------
(* Model checking of ObjectLedger: small sets, symmetry, and the bounds.    *)
EXTENDS ObjectLedger, TLC

Symmetry == Permutations(Images) \cup Permutations(Requests)
=============================================================================
