---------------------------- MODULE MCReviewDecisions ----------------------------
(* The rough service: decisions overlap, builds are pushed again and expire, *)
(* and a decision may die half way.                                          *)
EXTENDS ReviewDecisions, TLC

CONSTANTS d, e, a1, a2

(* Builds the sweep may drop whenever they are old enough.                   *)
Fleeting == {[cand |-> d, regions |-> {a1}, truncated |-> FALSE, durable |-> FALSE,
              asks |-> TRUE]}

Symmetry == Permutations(Reviewers) \cup Permutations(Builds)
=============================================================================
