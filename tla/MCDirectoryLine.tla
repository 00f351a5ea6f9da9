---------------------------- MODULE MCDirectoryLine ----------------------------
(* One manifest that names one blob.                                       *)
EXTENDS DirectoryLine, TLC

CONSTANTS m1, x1

OneBlob == m1 :> {x1}

Symmetry == Permutations(Writers)
=============================================================================
