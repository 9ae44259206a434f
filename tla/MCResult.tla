------------------------------ MODULE MCResult ------------------------------
(* Result for TLC. *)
EXTENDS Result, TLC

CONSTANTS i1, i2, p1, o1, o2

MCVoters  == {i1, i2}
MCPages   == {p1}
MCChoices == {o1, o2}
=============================================================================
