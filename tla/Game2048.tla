------------------------------ MODULE Game2048 ------------------------------
(***************************************************************************)
(* The game of CA3/P1/Bibi/2048: the game manager, what it keeps in the    *)
(* browser's storage, and what the actuator shows: the tiles, the two      *)
(* scores and the message over the board, which change in an animation     *)
(* frame later than the game.  The page can be left and loaded again at    *)
(* any moment.                                                             *)
(***************************************************************************)
EXTENDS Grid2048, ClassList

CONSTANTS Goal,       \* the tile that wins, 2048
          Moving,     \* the tiles on the screen are still where they were before a move
          MaxGames,   \* bound: games begun and pages loaded
          MaxScore,   \* bound: score up to which a game is played
          MaxCalls    \* bound: calls of the actuator between two frames

ASSUME GoalAssumption == Goal \in Nat
ASSUME BoundsAssumption == MaxGames \in Nat \ {0} /\ MaxScore \in Nat /\ MaxCalls \in Nat \ {0}

(* What there may be one of or none (the stored game, the tile of a stored cell,
   the requested frame) is a set of at most one element. *)
VARIABLES game,       \* the game in memory: grid, score, over, won, keepPlaying
          prepared,   \* the tiles of the grid have previous positions
          saved,      \* gameState in the storage
          best,       \* bestScore in the storage, 0 for none
          message,    \* the classes added to the message element, empty: not shown
          screen,     \* the tiles and scores that are shown
          pending,    \* what the requested animation frames will do
          stale,      \* history: a message was cleared with a frame still to come
          fours,      \* history: how many random tiles were fours
          games       \* games begun and pages loaded so far

vars == <<game, prepared, saved, best, message, screen, pending, stale, fours, games>>

RandomValues == {2, 4}
Fours(value) == IF value = 4 THEN 1 ELSE 0

isGameTerminated(g) == g.over \/ (g.won /\ ~g.keepPlaying)

(* The message that goes with a game. *)
Announced(g) == IF ~isGameTerminated(g) THEN {}
                ELSE IF g.over THEN {"game-over"} ELSE {"game-won"}

(* Tile and grid in the storage: each tile with its own position. *)
serialize(board) == [cell \in Cells |-> IF board[cell] = Empty THEN {}
                                        ELSE {[position |-> cell, value |-> board[cell]]}]

TileValue(tiles) == IF tiles = {} THEN Empty ELSE (CHOOSE tile \in tiles : TRUE).value

(* Altered: columns are read as rows. *)
fromStateTransposed(state) == [cell \in Cells |-> TileValue(state[<<cell[2], cell[1]>>])]

(* A tile has the cell it is found in and the position it carries, at which it
   is drawn and from which it is removed; it is on the board where the two
   are the same. *)
fromState(state) ==
    [cell \in Cells |-> TileValue({tile \in state[cell] : tile.position = cell})]

(* A game with another grid: what is stored of it, and what is read back. *)
WithGrid(g, grid) == [grid |-> grid, score |-> g.score, over |-> g.over, won |-> g.won,
                      keepPlaying |-> g.keepPlaying]
Stored(g) == WithGrid(g, serialize(g.grid))
Reloaded(state) == WithGrid(state, fromState(state.grid))

Higher(b, score) == IF b < score THEN score ELSE b

(* What a requested frame will add to the message, and how many calls of the
   actuator stand behind it. *)
Coming(frames) == UNION {f.classes : f \in frames}
Calls(frames) == IF frames = {} THEN 0 ELSE (CHOOSE f \in frames : TRUE).calls

(* Altered: the best score is read before it is set. *)
requestFrameEarly(g, b, frames) ==
    /\ Calls(frames) < MaxCalls
    /\ pending' = {[score |-> g.score, best |-> b,
                    classes |-> Coming(frames) \cup Announced(g), calls |-> Calls(frames) + 1]}

(* The call of the actuator.  The frames run in the order of the requests: the
   tiles and scores of the last one stay, messages add up. *)
requestFrame(g, b, frames) ==
    /\ Calls(frames) < MaxCalls
    /\ pending' = {[score |-> g.score, best |-> Higher(b, g.score),
                    classes |-> Coming(frames) \cup Announced(g), calls |-> Calls(frames) + 1]}

(* Altered: the state is kept when the game is over. *)
actuateKeepsOver(g, b, frames) ==
    /\ game' = g
    /\ best' = Higher(b, g.score)
    /\ saved' = {Stored(g)}
    /\ requestFrame(g, b, frames)

(* b: the best score stored so far; frames: what was requested before. *)
actuate(g, b, frames) ==
    /\ game' = g
    /\ best' = Higher(b, g.score)
    /\ saved' = IF g.over THEN {} ELSE {Stored(g)}
    /\ requestFrame(g, b, frames)

Fresh(board) == [grid |-> board, score |-> 0, over |-> FALSE, won |-> FALSE, keepPlaying |-> FALSE]

NoTiles == [cell \in Cells |-> Empty]

(* addRandomTile on a board with a free cell. *)
WithTile(board, cell, value) == [c \in Cells |-> IF c = cell THEN value ELSE board[c]]

(* What setup makes when nothing is stored: a game with two random tiles. *)
InitialGames == {Fresh(WithTile(WithTile(NoTiles, c[1], v[1]), c[2], v[2])) :
                     c \in {d \in Cells \X Cells : d[1] # d[2]}, v \in RandomValues \X RandomValues}

CountFours(board) == Cardinality({cell \in Cells : board[cell] = 4})

NewGame(b, frames) == \E g \in InitialGames : /\ actuate(g, b, frames)
                                               /\ fours' = CountFours(g.grid)

(* What the page shows before its first frame. *)
Blank == [tiles |-> NoTiles, score |-> 0, best |-> 0]

(* The first page load, with an empty storage. *)
Init == /\ game \in InitialGames
        /\ prepared = FALSE
        /\ saved = {Stored(game)}
        /\ best = 0
        /\ message = {} /\ screen = Blank
        /\ pending = {[score |-> 0, best |-> 0, classes |-> {}, calls |-> 1]}
        /\ stale = FALSE
        /\ fours = CountFours(game.grid)
        /\ games = 1

Begin == games < MaxGames /\ games' = games + 1

(* A tab is closed and the page loaded again: a new document, the game from
   the storage when there is one.  found: the page has localStorage, and finds
   there what was stored.  Otherwise what was stored is gone: the browser has
   emptied its storage, or the page has fakeStorage, which begins empty with
   every document. *)
Load(found) ==
    /\ Begin
    /\ LET b == IF found THEN best ELSE 0
       IN  IF found /\ saved # {}
           THEN (\E state \in saved : actuate(Reloaded(state), b, {})) /\ UNCHANGED fours
           ELSE NewGame(b, {})
    /\ prepared' = FALSE
    /\ message' = {}
    /\ screen' = Blank
    /\ stale' = FALSE

(* Altered: the message stays. *)
restartKeepsMessage == /\ Begin
                       /\ NewGame(best, pending)
                       /\ prepared' = FALSE
                       /\ stale' = (Coming(pending) # {})
                       /\ UNCHANGED <<message, screen>>

(* The R key or a button: the message goes at once, the frames stay. *)
restart == /\ Begin
           /\ NewGame(best, pending)
           /\ prepared' = FALSE
           /\ message' = {}
           /\ stale' = (Coming(pending) # {})
           /\ UNCHANGED screen

(* The button "Keep going", which only shows on the message of a win. *)
keepPlaying == /\ "game-won" \in message
               /\ game' = [game EXCEPT !.keepPlaying = TRUE]
               /\ message' = {}
               /\ stale' = (stale \/ Coming(pending) # {})
               /\ UNCHANGED <<prepared, saved, best, screen, pending, fours, games>>

(* Altered: a game that goes on after a win is won anew by every goal made. *)
AfterMoveWinsAnew(m, board) ==
    [grid |-> board,
     score |-> game.score + m.score,
     over |-> ~movesAvailable(board),
     won |-> Goal \in m.made,
     keepPlaying |-> game.keepPlaying]

AfterMove(m, board) ==
    [grid |-> board,
     score |-> game.score + m.score,
     over |-> ~movesAvailable(board),
     won |-> game.won \/ Goal \in m.made,
     keepPlaying |-> game.keepPlaying]

(* A key or a swipe.  prepareTiles comes first, also when nothing moves. *)
Play(direction) ==
    LET m == move(game.grid, direction)
    IN  /\ ~isGameTerminated(game)
        /\ prepared' = TRUE
        /\ \/ /\ m.moved
              /\ game.score < MaxScore
              /\ \E cell \in availableCells(m.board), value \in RandomValues :
                    /\ actuate(AfterMove(m, WithTile(m.board, cell, value)), best, pending)
                    /\ fours' = fours + Fours(value)
           \/ /\ ~m.moved
              /\ UNCHANGED <<game, saved, best, pending, fours>>
        /\ UNCHANGED <<message, screen, stale, games>>

(* The browser runs every callback requested before this frame.  actuate's
   clears the board and adds the tiles the grid has now: those with a previous
   position are put there first, and moved by a callback of the next frame. *)
Frame == /\ pending # {} \/ screen.tiles = Moving
         /\ IF pending = {}
            THEN screen' = [screen EXCEPT !.tiles = game.grid]
            ELSE \E f \in pending :
                    screen' = [tiles |-> IF prepared THEN Moving ELSE game.grid,
                               score |-> f.score, best |-> f.best]
         /\ message' = message \cup Coming(pending)
         /\ pending' = {}
         /\ UNCHANGED <<game, prepared, saved, best, stale, fours, games>>

Next == \/ \E found \in BOOLEAN : Load(found)
        \/ restart \/ keepPlaying
        \/ \E direction \in Directions : Play(direction)
        \/ Frame

Spec == Init /\ [][Next]_vars

-----------------------------------------------------------------------------
(* Properties *)

Games == [grid : Boards, score : Nat, over : BOOLEAN, won : BOOLEAN,
          keepPlaying : BOOLEAN]
SavedGame(g) == /\ g.grid \in [Cells -> SUBSET [position : Cells, value : Values]]
                /\ \A cell \in Cells : Cardinality(g.grid[cell]) <= 1
                /\ WithGrid(g, NoTiles) \in Games
Messages == {"game-won", "game-over"}

(* Every variable has its type. *)
TypeOK == /\ game \in Games
          /\ prepared \in BOOLEAN
          /\ Cardinality(saved) <= 1 /\ \A g \in saved : SavedGame(g)
          /\ best \in Nat
          /\ message \subseteq Messages
          /\ screen \in [tiles : Boards \cup {Moving}, score : Nat, best : Nat]
          /\ Cardinality(pending) <= 1
          /\ pending \subseteq [score : Nat, best : Nat, classes : SUBSET Messages, calls : 1 .. MaxCalls]
          /\ stale \in BOOLEAN
          /\ fours \in Nat
          /\ games \in 1 .. MaxGames

(* The score is determined by the board: the worth of its tiles, less four for
   each that came as a four.  The best score covers it. *)
ScoreTellsBoard ==
    /\ game.score + 4 * fours = BoardWorth(game.grid)
    /\ best >= game.score

(* The game is over exactly when no move in any direction changes the board;
   the code decides this without trying the moves. *)
OverWhenStuck == game.over <=> Stuck(game.grid)

(* The storage holds the game in memory, but for keepPlaying, which is saved
   with the next move only, and nothing once the game is over. *)
StoredAs(g, kept) == [Stored(g) EXCEPT !.keepPlaying = kept]
StorageFollows ==
    /\ game.over => saved = {}
    /\ ~game.over => \E kept \in BOOLEAN : saved = {StoredAs(game, kept)} /\ (kept => game.keepPlaying)

(* A page that is closed at any moment and loaded again goes on with the same
   board and score, unless the game was over or the browser keeps nothing. *)
SameGame(g, h) == g = [h EXCEPT !.keepPlaying = g.keepPlaying]
ReloadKeepsGame ==
    [][Load(TRUE) /\ ~game.over => SameGame(game', game)]_vars

(* Whatever the storage, the frames and reloads do, the player plays the game
   by its rules: every move is a slide as it is meant and adds what it
   makes to the score, a game is won when the goal is made, stays won, is over
   when no slide is left, and then only a new one can follow. *)
Rules == INSTANCE Rules2048 WITH Slide <- MeantBoard, Score <- MeantScore, Made <- MeantMade,
                                 board <- game.grid, score <- game.score, over <- game.over,
                                 won <- game.won, goesOn <- game.keepPlaying
PlaysByRules == Rules!RSpec

(* What is shown or will be in the next frame is the message of this game,
   unless a message was cleared between an event and its frame. *)
MessageFollows == stale \/ message \cup Coming(pending) = Announced(game)

(* When no call of the actuator is left to run, the screen shows the scores of
   the game in memory and its tiles, or is about to move them there: no
   event overtakes a frame for good, whatever comes between the two. *)
ScreenFollows == /\ pending = {} => /\ screen.tiles \in {game.grid, Moving}
                                    /\ screen.score = game.score
                                    /\ screen.best = best
                 /\ \A f \in pending : f.score = game.score /\ f.best = best

(* "Keep playing after winning" (game_manager.js): a game goes on past the win
   only after it was won. *)
GoesOnAfterWin == game.keepPlaying => game.won

(* The only way past that: a game begins to go on when it was won and is not
   over, or when a message was cleared between an event and its frame; neither
   a reload nor a message left from another game does it. *)
GoesOnWhenAsked ==
    [][~game.keepPlaying /\ game'.keepPlaying => stale \/ (game.won /\ ~game.over)]_vars

(* The message element, in every order its classes can have come about. *)
OwnName == {<<t, t>> : t \in Messages \cup {"game-message"}}
Element == {<<"game-message">> \o order : order \in SetToSeqs(message)}
Cleared(list) == remove(OwnName, remove(OwnName, list, "game-won"), "game-over")
Announcing(list, type) == add(OwnName, list, type)

(* A browser without classList shows the same messages: continueGame leaves
   the message element with its own class only, a frame adds one of
   the two, and in general the polyfill is a set of classes wherever no
   other class of the element has the name within its own. *)
PolyfillLikeNative ==
    /\ ManyElements
    /\ \A list \in Element : /\ Cleared(list) = <<"game-message">>
                             /\ \A type \in Messages :
                                    Names(Announcing(list, type)) = {"game-message", type} \cup message
=============================================================================
