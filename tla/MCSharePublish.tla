---------------------------- MODULE MCSharePublish ----------------------------
(* A short history, and what its runs offer of two suites.                 *)
EXTENDS SharePublish, TLC

CONSTANTS s1, s2, i1

Line(commits) == {p \in commits \X commits : p[1] < p[2]}
History == Line(Commits)

Made(version, commit, images) == [version |-> version, commit |-> commit, images |-> images]
Of(c, entries) == [commit |-> c, entries |-> entries @@ Empty]

(* Two suites at the first commit, one of them at the second, and at the   *)
(* first again by a newer release of the tool, which keeps no image.       *)
Runs ==
  {Of(1, s1 :> Made(1, 1, {i1}) @@ s2 :> Made(1, 1, {i1})),
   Of(2, s1 :> Made(1, 2, {})),
   Of(1, s1 :> Made(2, 1, {}))}

Symmetry == Permutations(Jobs)
=============================================================================
