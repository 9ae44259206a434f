---------------------------- MODULE MCInput2048 -----------------------------
(* Input2048 for TLC. *)
EXTENDS Input2048, TLC

CONSTANTS f1, f2

MCFingers == {f1, f2}

(* Differences of ten, of eleven and of more, either way, and as far along one
   axis as along the other. *)
MCPoints == {<<0, 0>>, <<10, 0>>, <<21, 10>>, <<10, 21>>}

Symmetric == Permutations(Fingers)
=============================================================================
