----------------------------- MODULE Rules2048 ------------------------------
(***************************************************************************)
(* The game CA3/P1/Bibi/2048 offers its player, by its rules alone: a      *)
(* board, a score, and when a game is won and over.  What a slide does to  *)
(* a board is a parameter.  Storage, frames, messages and reloads are not  *)
(* part of the rules; a page that is loaded again may only ask again what  *)
(* to do after a win.                                                      *)
(***************************************************************************)
EXTENDS Integers

CONSTANTS Cells,       \* the cells of the board
          Empty,       \* the value of a cell without a tile
          Directions,
          Goal,        \* the tile that wins
          Slide(_, _), \* a board and a direction to the board after the slide,
          Score(_, _), \* what it scores
          Made(_, _)   \* and the tiles made

VARIABLES board, score,
          over,        \* no tile can be moved any more
          won,         \* the goal was made in this game
          goesOn       \* the player goes on after that

ruleVars == <<board, score, over, won, goesOn>>

RandomTiles == {2, 4}

TwoTiles(b) == /\ b \in [Cells -> RandomTiles \cup {Empty}]
               /\ \E c1, c2 \in Cells : c1 # c2 /\ \A c \in Cells : b[c] # Empty <=> c \in {c1, c2}

CanSlide(b) == \E d \in Directions : Slide(b, d) # b

-----------------------------------------------------------------------------
RInit == score = 0 /\ ~over /\ ~won /\ ~goesOn /\ TwoTiles(board)

NewGame == score' = 0 /\ ~over' /\ ~won' /\ ~goesOn' /\ TwoTiles(board')

(* A slide that changes the board, and a two or a four in a cell it left free. *)
Move(d) == LET after == Slide(board, d)
           IN  /\ ~over /\ (won => goesOn)
               /\ after # board
               /\ \E c \in Cells, v \in RandomTiles :
                     /\ after[c] = Empty
                     /\ board' = [cell \in Cells |-> IF cell = c THEN v ELSE after[cell]]
               /\ score' = score + Score(board, d)
               /\ won' = (won \/ Goal \in Made(board, d))
               /\ over' = ~CanSlide(board')
               /\ UNCHANGED goesOn

(* The player is to go on after a win; that the page may let it happen in a game
   not won yet is why there is no more to it. *)
GoOn == goesOn' /\ UNCHANGED <<board, score, over, won>>

(* What the player chose after the win is not kept. *)
AskAgain == ~goesOn' /\ UNCHANGED <<board, score, over, won>>

RNext == GoOn \/ AskAgain \/ NewGame \/ \E d \in Directions : Move(d)

RSpec == RInit /\ [][RNext]_ruleVars
=============================================================================
