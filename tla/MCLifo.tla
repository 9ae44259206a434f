------------------------------- MODULE MCLifo -------------------------------
(* Lifo for TLC: processes and characters are model values. *)
EXTENDS Lifo, TLC

CONSTANTS r1, r2, w1, w2, a, b

MCReaders == {r1, r2}
MCOneReader == {r1}
MCWriters == {w1, w2}
MCOneWriter == {w1}
MCChars   == {a, b}
MCOneChar == {a}

ThreadSymmetry == Permutations(MCReaders) \cup Permutations(MCWriters)
Symmetric == ThreadSymmetry \cup Permutations(MCChars)
=============================================================================
