------------------------------ MODULE Grid2048 ------------------------------
(***************************************************************************)
(* The board of CA3/P1/Bibi/2048 and a move on it: js/grid.js and the move *)
(* of js/game_manager.js, tile by tile as the code does it, and what a     *)
(* move is meant to do, line by line.                                      *)
(***************************************************************************)
EXTENDS Integers, SequencesExt, FiniteSetsExt

CONSTANT Size         \* cells in a row and in a column

ASSUME SizeAssumption == Size \in Nat \ {0}

(* A board gives each cell <<x, y>> the value of its tile, Empty for none. *)
Empty == 0
Cells == (0 .. Size - 1) \X (0 .. Size - 1)

(* The tiles there can be: a board of n cells holds at most 2^(n + 1). *)
Values == {2 ^ k : k \in 1 .. Size * Size + 1}
Boards == [Cells -> Values \cup {Empty}]

Directions == 0 .. 3   \* up, right, down, left
Vector(direction) == CASE direction = 0 -> <<0, -1>>
                       [] direction = 1 -> <<1, 0>>
                       [] direction = 2 -> <<0, 1>>
                       [] direction = 3 -> <<-1, 0>>

Shifted(cell, vector, k) == <<cell[1] + k * vector[1], cell[2] + k * vector[2]>>

withinBounds(cell) == cell \in Cells
availableCells(board) == {cell \in Cells : board[cell] = Empty}

-----------------------------------------------------------------------------
(* The move of the code *)

(* The order in which the cells are visited, columns first: always from the
   farthest cell in the direction of the move. *)
buildTraversals(vector) ==
    LET Along(v, pos) == IF v = 1 THEN Size - 1 - pos ELSE pos
    IN  [i \in 1 .. Size * Size |-> <<Along(vector[1], (i - 1) \div Size), Along(vector[2], (i - 1) % Size)>>]

(* How far a tile can go before an obstacle. *)
findFarthestPosition(board, cell, vector) ==
    Max({k \in 0 .. Size - 1 : \A j \in 1 .. k :
            /\ withinBounds(Shifted(cell, vector, j))
            /\ board[Shifted(cell, vector, j)] = Empty})

(* Altered: a tile that was merged in this move can merge again. *)
CanMergeTwice(m, cell, next) == withinBounds(next) /\ m.board[next] = m.board[cell]

(* The obstacle is a tile of the same value that was not merged in this move. *)
CanMerge(m, cell, next) == /\ withinBounds(next)
                           /\ m.board[next] = m.board[cell]
                           /\ next \notin m.merged

(* Altered: the score grows by the value of one of the two tiles. *)
MergedHalf(m, cell, next) ==
    [m EXCEPT !.board = [@ EXCEPT ![next] = 2 * m.board[cell], ![cell] = Empty],
              !.merged = @ \cup {next},
              !.score = @ + m.board[cell],
              !.made = @ \cup {2 * m.board[cell]},
              !.moved = TRUE]

(* Altered: the value goes up by two instead of doubling. *)
MergedByTwo(m, cell, next) ==
    [m EXCEPT !.board = [@ EXCEPT ![next] = m.board[cell] + 2, ![cell] = Empty],
              !.merged = @ \cup {next},
              !.score = @ + m.board[cell] + 2,
              !.made = @ \cup {m.board[cell] + 2},
              !.moved = TRUE]

(* m: the board so far, the cells merged into, the score, the values made and
   whether anything moved. *)
Merged(m, cell, next) ==
    [m EXCEPT !.board = [@ EXCEPT ![next] = 2 * m.board[cell], ![cell] = Empty],
              !.merged = @ \cup {next},
              !.score = @ + 2 * m.board[cell],
              !.made = @ \cup {2 * m.board[cell]},
              !.moved = TRUE]

MovedTo(m, cell, farthest) ==
    [m EXCEPT !.board = [[@ EXCEPT ![cell] = Empty] EXCEPT ![farthest] = m.board[cell]],
              !.moved = @ \/ farthest # cell]

VisitCell(m, cell, vector) ==
    LET k == findFarthestPosition(m.board, cell, vector)
        farthest == Shifted(cell, vector, k)
        next == Shifted(cell, vector, k + 1)
    IN  IF m.board[cell] = Empty THEN m
        ELSE IF CanMerge(m, cell, next) THEN Merged(m, cell, next)
        ELSE MovedTo(m, cell, farthest)

(* What has been done when the first k cells were visited. *)
Visits(board, direction) ==
    LET vector == Vector(direction)
        visit[k \in 0 .. Size * Size] ==
            IF k = 0
            THEN [board |-> board, merged |-> {}, score |-> 0, made |-> {}, moved |-> FALSE]
            ELSE VisitCell(visit[k - 1], buildTraversals(vector)[k], vector)
    IN  visit

move(board, direction) == Visits(board, direction)[Size * Size]

(* Altered: only two of the four neighbours are looked at. *)
tileMatchesAlongY(board) ==
    \E cell \in Cells, direction \in {0, 2} :
        LET other == Shifted(cell, Vector(direction), 1)
        IN  /\ board[cell] # Empty
            /\ withinBounds(other)
            /\ board[other] = board[cell]

tileMatchesAvailable(board) ==
    \E cell \in Cells, direction \in Directions :
        LET other == Shifted(cell, Vector(direction), 1)
        IN  /\ board[cell] # Empty
            /\ withinBounds(other)
            /\ board[other] = board[cell]

movesAvailable(board) == availableCells(board) # {} \/ tileMatchesAvailable(board)

-----------------------------------------------------------------------------
(* What a move is meant to do *)

(* Line n of a board, its cells in the order of a push in the direction. *)
LineCell(n, direction, i) == CASE direction = 0 -> <<n, i - 1>>
                               [] direction = 1 -> <<Size - i, n>>
                               [] direction = 2 -> <<n, Size - i>>
                               [] direction = 3 -> <<i - 1, n>>
Line(board, n, direction) == [i \in 1 .. Size |-> board[LineCell(n, direction, i)]]

(* The tiles up to the i-th cell of a line that are like the one there, with no
   other tile between: of such a run the first two merge, the next two, and
   so on.  The odd ones lead, each to a place of its own; the even ones join. *)
Run(line, i) == {j \in 1 .. i : line[j] # Empty /\ \A h \in j .. i : line[h] \in {Empty, line[i]}}
Leads(line, i) == line[i] # Empty /\ Cardinality(Run(line, i)) % 2 = 1
Target(line, i) == Cardinality({j \in 1 .. i : Leads(line, j)})

(* The tiles that are pushed to place k, and what they make there. *)
Sent(line, k) == {i \in 1 .. Size : line[i] # Empty /\ Target(line, i) = k}
Pushed(line, k) == IF Sent(line, k) = {} THEN Empty
                   ELSE Cardinality(Sent(line, k)) * line[CHOOSE i \in Sent(line, k) : TRUE]
Joined(line, k) == Cardinality(Sent(line, k)) = 2

Places == (0 .. Size - 1) \X (1 .. Size)
Gains(board, direction) ==
    [p \in Places |-> LET line == Line(board, p[1], direction)
                      IN  IF Joined(line, p[2]) THEN Pushed(line, p[2]) ELSE 0]

(* The whole move: every cell has what is pushed there, the score grows by the
   new tiles. *)
MeantBoard(board, direction) ==
    [cell \in Cells |-> LET p == CHOOSE p \in Places : LineCell(p[1], direction, p[2]) = cell
                        IN  Pushed(Line(board, p[1], direction), p[2])]
MeantScore(board, direction) == LET gains == Gains(board, direction)
                                IN  MapThenSumSet(LAMBDA p : gains[p], Places)
MeantMade(board, direction) == LET gains == Gains(board, direction)
                               IN  {gains[p] : p \in Places} \ {0}

(* The move of the code pushes and merges every line as it is meant to, adds
   the new tiles to the score, knows which they are, and notices exactly when
   something changed. *)
MovesAsMeant(board) ==
    \A direction \in Directions :
        LET m == move(board, direction)
        IN  /\ m.board = MeantBoard(board, direction)
            /\ m.score = MeantScore(board, direction)
            /\ m.made = MeantMade(board, direction)
            /\ m.moved <=> m.board # board

(* A tile is worth what merging twos up to it has scored. *)
Worth[v \in Values \cup {Empty}] == IF v <= 2 THEN 0 ELSE 2 * Worth[v \div 2] + v
BoardWorth(board) == MapThenSumSet(LAMBDA cell : Worth[board[cell]], Cells)

(* The code's test for a lost game and the moves themselves agree: nothing
   can be moved in any direction. *)
Stuck(board) == \A direction \in Directions : ~move(board, direction).moved
=============================================================================
