------------------------------ MODULE MCVoting ------------------------------
(* Voting for TLC. *)
EXTENDS Voting, TLC

CONSTANTS b1, b2, v1, v2, x, y

MCOneBrowser  == {b1}
MCTwoBrowsers == {b1, b2}
MCOneWorker   == {v1}
MCTwoWorkers  == {v1, v2}
MCChoices     == {x, y}
=============================================================================
