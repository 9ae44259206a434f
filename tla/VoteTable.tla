----------------------------- MODULE VoteTable ------------------------------
(***************************************************************************)
(* What voting-app promises to whoever counts the votes: votes are cast    *)
(* one after the other, and the table holds, for every voter, a vote that  *)
(* voter has cast, which is only ever replaced by a later one.  Votes may  *)
(* be passed over, and the table may lag behind.                           *)
(* Voting implements this with one worker (docker-compose.yml); Result     *)
(* reads the table and relies on nothing else.                             *)
(***************************************************************************)
EXTENDS Integers, Sequences, FiniteSets

CONSTANTS Voters,     \* voter ids
          Choices     \* the two options

VARIABLES cast,       \* every vote cast so far, in order; a vote carries its place
          last        \* last[i]: the place of the vote in the row of voter i, 0: no row

tableVars == <<cast, last>>

Ballot(i, c) == [id |-> i, vote |-> c, n |-> Len(cast) + 1]

(* vote/app.py: the vote is taken. *)
Cast(i, c) == /\ cast' = Append(cast, Ballot(i, c))
              /\ UNCHANGED last

(* worker/Program.cs: the row of a voter is inserted or updated. *)
Record(k) == /\ last[cast[k].id] < k
             /\ last' = [last EXCEPT ![cast[k].id] = k]
             /\ UNCHANGED cast

TableInit == cast = <<>> /\ last = [i \in Voters |-> 0]

TableNext == \/ \E i \in Voters, c \in Choices : Cast(i, c)
             \/ \E k \in 1 .. Len(cast) : Record(k)

TableSpec == TableInit /\ [][TableNext]_tableVars
=============================================================================
