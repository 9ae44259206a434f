----------------------------- MODULE MCGame2048 -----------------------------
(* Game2048 for TLC: a board of two by two cells, on which games are short,
   and the move alone on larger ones. *)
EXTENDS Game2048, TLC

Three == INSTANCE Grid2048 WITH Size <- 3
Four  == INSTANCE Grid2048 WITH Size <- 4

ThreeByThree == [Three!Cells -> {0, 2}]

(* One row or one column of four, the rest empty. *)
LinesOfFour == {[cell \in Four!Cells |-> IF cell[1] = n THEN line[cell[2]] ELSE 0] :
                    n \in {0, 2}, line \in [0 .. 3 -> {0, 2, 4, 8}]}
          \cup {[cell \in Four!Cells |-> IF cell[2] = n THEN line[cell[1]] ELSE 0] :
                    n \in {1, 3}, line \in [0 .. 3 -> {0, 2, 4, 8}]}

SmallBoards == IF Size = 2 THEN [Cells -> {0, 2, 4, 8}] ELSE {}

ManyBoards == /\ \A board \in SmallBoards : MovesAsMeant(board)
              /\ \A board \in ThreeByThree : Three!MovesAsMeant(board)
              /\ \A board \in LinesOfFour : Four!MovesAsMeant(board)

(* The move of game_manager.js is the move the game is about also where lines
   are longer than in the games of the run, so that merges follow merges: on
   all boards of two by two cells with tiles up to 8 and whatever else comes
   up, on all boards of three by three cells with twos, and on all lines of
   four. *)
LongerLikeReference == /\ ManyBoards
                       /\ game.grid \in SmallBoards \/ MovesAsMeant(game.grid)
=============================================================================
