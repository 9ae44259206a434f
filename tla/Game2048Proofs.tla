--------------------------- MODULE Game2048Proofs ---------------------------
(***************************************************************************)
(* The game, for boards of any size and any winning tile: first storage,   *)
(* message and screen, where the move stays unexpanded since nothing there *)
(* depends on what it does to the board; then board, score and the end of  *)
(* the game, which rest on what GridProofs proves of a move; at the end    *)
(* the class lists in which the actuator shows it all.                     *)
(***************************************************************************)
EXTENDS Game2048, GridProofs, TLAPS, SequenceTheorems

(* The fields of a game, whatever their values; its grid has a value for
   every cell. *)
Fielded(g) == /\ g = [grid |-> g.grid, score |-> g.score, over |-> g.over, won |-> g.won,
                      keepPlaying |-> g.keepPlaying]
              /\ g.grid = [cell \in Cells |-> g.grid[cell]]
              /\ g.keepPlaying \in BOOLEAN

IInv == Fielded(game) /\ StorageFollows /\ MessageFollows /\ ScreenFollows

(* Reading back what was written gives the same board. *)
LEMMA Roundtrip ==
  ASSUME NEW board, board = [cell \in Cells |-> board[cell]]
  PROVE  fromState(serialize(board)) = board
  <1>1. \A x : TileValue({x}) = x.value
    BY DEF TileValue
  <1>2. TileValue({}) = Empty
    BY DEF TileValue
  <1> DEFINE Placed(cell) == {tile \in serialize(board)[cell] : tile.position = cell}
  <1>3. ASSUME NEW cell \in Cells PROVE TileValue(Placed(cell)) = board[cell]
    <2>1. CASE board[cell] = Empty
      <3>1. Placed(cell) = {}
        BY <2>1 DEF serialize
      <3> QED BY <2>1, <3>1, <1>2
    <2>2. CASE board[cell] # Empty
      <3>1. serialize(board)[cell] = {[position |-> cell, value |-> board[cell]]}
        BY <2>2 DEF serialize
      <3>2. Placed(cell) = {[position |-> cell, value |-> board[cell]]}
        BY <3>1
      <3> QED BY <3>2, <1>1
    <2> QED BY <2>1, <2>2
  <1> QED BY <1>3 DEF fromState

(* The actuator is told the scores, and the message comes on top of those that
   wait already. *)
LEMMA Requested ==
  ASSUME NEW g, NEW b, NEW frames, requestFrame(g, b, frames)
  PROVE  /\ pending' # {}
         /\ Coming(pending') = Coming(frames) \cup Announced(g)
         /\ \A f \in pending' : f.score = g.score /\ f.best = Higher(b, g.score)
  <1> DEFINE f == [score |-> g.score, best |-> Higher(b, g.score),
                   classes |-> Coming(frames) \cup Announced(g), calls |-> Calls(frames) + 1]
  <1>1. pending' = {f}
    BY DEF requestFrame
  <1>2. f.classes = Coming(frames) \cup Announced(g) /\ f.score = g.score /\ f.best = Higher(b, g.score)
    OBVIOUS
  <1>3. UNION {h.classes : h \in {f}} = f.classes
    OBVIOUS
  <1> HIDE DEF f
  <1> QED BY <1>1, <1>2, <1>3 DEF Coming

(* Storing a game that has all its fields leaves storage and screen in step. *)
LEMMA Actuated ==
  ASSUME NEW g, NEW b, NEW frames, Fielded(g), actuate(g, b, frames)
  PROVE  /\ game' = g /\ Fielded(game)' /\ StorageFollows' /\ ScreenFollows'
         /\ Coming(pending') = Coming(frames) \cup Announced(g)
  <1>1. /\ game' = g
        /\ saved' = IF g.over THEN {} ELSE {Stored(g)}
        /\ best' = Higher(b, g.score)
        /\ requestFrame(g, b, frames)
    BY DEF actuate
  <1>2. Stored(g) = StoredAs(g, g.keepPlaying)
    BY DEF Stored, StoredAs, WithGrid
  <1>3. StorageFollows'
    BY <1>1, <1>2 DEF Fielded, StorageFollows
  <1>4. ScreenFollows'
    BY <1>1, Requested DEF ScreenFollows
  <1> QED BY <1>1, <1>3, <1>4, Requested

(* A fresh game is neither won nor over. *)
LEMMA FreshGame ==
  ASSUME NEW board, board = [cell \in Cells |-> board[cell]]
  PROVE  Fielded(Fresh(board)) /\ ~Fresh(board).over /\ Announced(Fresh(board)) = {}
  BY DEF Fielded, Fresh, Announced, isGameTerminated

(* A board with two tiles put on it is a board. *)
LEMMA TilesOnBoard ==
  ASSUME NEW board, NEW c, NEW v
  PROVE  WithTile(board, c, v) = [cell \in Cells |-> WithTile(board, c, v)[cell]]
  BY DEF WithTile

(* A new game is in memory and in the storage, and has nothing to announce. *)
LEMMA NewGameStored ==
  ASSUME NEW b, NEW frames, NewGame(b, frames)
  PROVE  /\ Fielded(game)' /\ StorageFollows' /\ ScreenFollows' /\ Announced(game') = {}
         /\ Coming(pending') = Coming(frames)
  <1>1. PICK c1, c2 \in Cells, v1, v2 \in RandomValues :
          actuate(Fresh(WithTile(WithTile(NoTiles, c1, v1), c2, v2)), b, frames)
    BY DEF NewGame, InitialGames
  <1> DEFINE board == WithTile(WithTile(NoTiles, c1, v1), c2, v2)
  <1>2. board = [cell \in Cells |-> board[cell]]
    BY TilesOnBoard
  <1> HIDE DEF board
  <1>3. actuate(Fresh(board), b, frames)
    BY <1>1 DEF board
  <1>4. Fielded(Fresh(board)) /\ Announced(Fresh(board)) = {}
    BY <1>2, FreshGame
  <1> QED BY <1>3, <1>4, Actuated

(* Nothing waits when no frame is requested. *)
LEMMA NothingComes == Coming({}) = {}
  BY DEF Coming

(* Every first page load establishes the invariant. *)
LEMMA InitInv == Init => IInv
  <1> SUFFICES ASSUME Init PROVE IInv
    OBVIOUS
  <1>1. PICK c1, c2 \in Cells, v1, v2 \in RandomValues :
          game = Fresh(WithTile(WithTile(NoTiles, c1, v1), c2, v2))
    BY DEF Init, InitialGames
  <1>2. Fielded(game) /\ ~game.over /\ Announced(game) = {} /\ game.score = 0
    BY <1>1, FreshGame, TilesOnBoard DEF Fresh
  <1>3. /\ saved = {Stored(game)} /\ message = {} /\ best = 0
        /\ pending = {[score |-> 0, best |-> 0, classes |-> {}, calls |-> 1]}
    BY DEF Init
  <1>4. Stored(game) = StoredAs(game, game.keepPlaying)
    BY DEF Stored, StoredAs, WithGrid
  <1>5. Coming(pending) = {}
    BY <1>3 DEF Coming
  <1>6. StorageFollows
    BY <1>2, <1>3, <1>4 DEF StorageFollows, Fielded
  <1>7. ScreenFollows
    <2> DEFINE f == [score |-> 0, best |-> 0, classes |-> {}, calls |-> 1]
    <2>1. f.score = 0 /\ f.best = 0
      OBVIOUS
    <2>2. pending = {f}
      BY <1>3
    <2> HIDE DEF f
    <2> QED BY <1>2, <1>3, <2>1, <2>2 DEF ScreenFollows
  <1> QED BY <1>2, <1>3, <1>5, <1>6, <1>7 DEF IInv, MessageFollows

(* The stored game is read back as the one in memory, but for keepPlaying. *)
LEMMA ReadBack ==
  ASSUME IInv, NEW state \in saved
  PROVE  /\ Fielded(Reloaded(state)) /\ ~game.over
         /\ saved = {state}
         /\ SameGame(Reloaded(state), game)
         /\ Reloaded(state).score = game.score
  <1>1. ~game.over
    BY DEF IInv, StorageFollows
  <1>2. PICK kept \in BOOLEAN : saved = {StoredAs(game, kept)}
    BY <1>1 DEF IInv, StorageFollows
  <1>3. state = [grid |-> serialize(game.grid), score |-> game.score, over |-> game.over,
                 won |-> game.won, keepPlaying |-> kept]
    BY <1>2 DEF Stored, StoredAs, WithGrid
  <1>4. fromState(serialize(game.grid)) = game.grid
    BY Roundtrip DEF IInv, Fielded
  <1>5. Reloaded(state) = [grid |-> game.grid, score |-> game.score, over |-> game.over,
                           won |-> game.won, keepPlaying |-> kept]
    BY <1>3, <1>4 DEF Reloaded, WithGrid
  <1>6. Reloaded(state) = [game EXCEPT !.keepPlaying = Reloaded(state).keepPlaying]
    BY <1>5 DEF IInv, Fielded
  <1> QED BY <1>1, <1>2, <1>5, <1>6 DEF IInv, Fielded, SameGame

(* Loading the page again leaves everything in step. *)
LEMMA LoadInv ==
  ASSUME IInv, NEW found \in BOOLEAN, Load(found)
  PROVE  IInv'
  <1> DEFINE b == IF found THEN best ELSE 0
  <1>1. message' = {}
    BY DEF Load
  <1>2. CASE found /\ saved # {}
    <2>1. PICK state \in saved : actuate(Reloaded(state), b, {})
      BY <1>2 DEF Load
    <2>2. Fielded(Reloaded(state))
      BY ReadBack
    <2> QED BY <1>1, <2>1, <2>2, Actuated, NothingComes DEF IInv, MessageFollows
  <1>3. CASE ~(found /\ saved # {})
    <2>1. NewGame(b, {})
      BY <1>3 DEF Load
    <2> QED BY <1>1, <2>1, NewGameStored, NothingComes DEF IInv, MessageFollows
  <1> QED BY <1>2, <1>3

(* Every action preserves it. *)
LEMMA NextInv == IInv /\ [Next]_vars => IInv'
  <1> SUFFICES ASSUME IInv, [Next]_vars PROVE IInv'
    OBVIOUS
  <1>1. ASSUME NEW found \in BOOLEAN, Load(found) PROVE IInv'
    BY <1>1, LoadInv
  <1>2. CASE restart
    <2>1. NewGame(best, pending) /\ message' = {} /\ stale' = (Coming(pending) # {})
      BY <1>2 DEF restart
    <2> QED BY <2>1, NewGameStored DEF IInv, MessageFollows
  <1>3. CASE keepPlaying
    <2>1. /\ game' = [game EXCEPT !.keepPlaying = TRUE]
          /\ saved' = saved /\ message' = {} /\ pending' = pending
          /\ best' = best /\ screen' = screen
          /\ stale' = (stale \/ Coming(pending) # {})
      BY <1>3 DEF keepPlaying
    <2>2. game' = [grid |-> game.grid, score |-> game.score, over |-> game.over, won |-> game.won,
                   keepPlaying |-> TRUE]
      BY <2>1 DEF IInv, Fielded
    <2>3. Fielded(game)'
      BY <2>2 DEF IInv, Fielded
    <2>4. \A kept : StoredAs(game', kept) = StoredAs(game, kept)
      BY <2>2 DEF Stored, StoredAs, WithGrid
    <2>5. StorageFollows'
      BY <2>1, <2>2, <2>4 DEF IInv, StorageFollows
    <2>6. ScreenFollows'
      BY <2>1, <2>2 DEF IInv, ScreenFollows
    <2>7. ASSUME ~stale, Coming(pending) = {} PROVE Announced(game') = {}
      <3>1. "game-won" \in Announced(game)
        BY <1>3, <2>7 DEF keepPlaying, IInv, MessageFollows
      <3>2. ~game.over
        BY <3>1 DEF Announced
      <3> QED BY <2>2, <3>2 DEF Announced, isGameTerminated
    <2> QED BY <2>1, <2>3, <2>5, <2>6, <2>7 DEF IInv, MessageFollows
  <1>4. ASSUME NEW direction \in Directions, Play(direction) PROVE IInv'
    <2> DEFINE m == move(game.grid, direction)
    <2>1. ~isGameTerminated(game) /\ message' = message /\ stale' = stale /\ screen' = screen
      BY <1>4 DEF Play
    <2>2. Announced(game) = {}
      BY <2>1 DEF Announced
    <2>3. ASSUME NEW cell, NEW value, actuate(AfterMove(m, WithTile(m.board, cell, value)), best, pending)
          PROVE  IInv'
      <3> DEFINE board == WithTile(m.board, cell, value)
      <3>1. board = [c \in Cells |-> board[c]]
        BY TilesOnBoard
      <3> HIDE DEF board, m
      <3>2. Fielded(AfterMove(m, board))
        BY <3>1 DEF Fielded, AfterMove, IInv
      <3>3. /\ game' = AfterMove(m, board) /\ Fielded(game)' /\ StorageFollows' /\ ScreenFollows'
            /\ Coming(pending') = Coming(pending) \cup Announced(game')
        BY <2>3, <3>2, Actuated DEF board
      <3> QED BY <2>1, <2>2, <3>3 DEF IInv, MessageFollows
    <2>4. CASE UNCHANGED <<game, saved, best, pending>>
      BY <2>1, <2>4 DEF IInv, Fielded, StorageFollows, MessageFollows, ScreenFollows
    <2> QED BY <1>4, <2>3, <2>4 DEF Play
  <1>5. CASE Frame
    <2>1. /\ game' = game /\ saved' = saved /\ best' = best /\ stale' = stale
          /\ message' = message \cup Coming(pending) /\ pending' = {}
      BY <1>5 DEF Frame
    <2>2. Fielded(game)' /\ StorageFollows'
      BY <2>1 DEF IInv, Fielded, StorageFollows
    <2>3. MessageFollows'
      BY <2>1, NothingComes DEF IInv, MessageFollows
    <2>4. CASE pending = {}
      <3>1. screen' = [screen EXCEPT !.tiles = game.grid]
        BY <1>5, <2>4 DEF Frame
      <3>2. screen'.tiles = game.grid \/ screen'.tiles = screen.tiles
        BY <3>1
      <3>3. screen'.score = screen.score /\ screen'.best = screen.best
        BY <3>1
      <3>4. ScreenFollows'
        BY <2>1, <2>4, <3>2, <3>3 DEF IInv, ScreenFollows
      <3> QED BY <2>2, <2>3, <3>4 DEF IInv
    <2>5. CASE pending # {}
      <3>1. PICK f \in pending : screen' = [tiles |-> IF prepared THEN Moving ELSE game.grid,
                                            score |-> f.score, best |-> f.best]
        BY <1>5, <2>5 DEF Frame
      <3>2. ScreenFollows'
        BY <2>1, <3>1 DEF IInv, ScreenFollows
      <3> QED BY <2>2, <2>3, <3>2 DEF IInv
    <2> QED BY <2>4, <2>5
  <1>6. CASE UNCHANGED vars
    BY <1>6 DEF vars, IInv, Fielded, StorageFollows, MessageFollows, ScreenFollows
  <1> QED BY <1>1, <1>2, <1>3, <1>4, <1>5, <1>6 DEF Next

(* A page that is closed at any moment finds its game again: the storage holds
   the game of the last move, and nothing once the game is over. *)
THEOREM StorageInStep == Spec => []StorageFollows
  <1>1. IInv => StorageFollows
    BY DEF IInv
  <1> QED BY <1>1, InitInv, NextInv, PTL DEF Spec

(* The message shown or about to be shown is the one of the game in memory,
   unless one was cleared between an event and its animation frame. *)
THEOREM MessageInStep == Spec => []MessageFollows
  <1>1. IInv => MessageFollows
    BY DEF IInv
  <1> QED BY <1>1, InitInv, NextInv, PTL DEF Spec

(* Whenever no call of the actuator is left to run, the screen shows the scores
   and the tiles of the game in memory. *)
THEOREM ScreenInStep == Spec => []ScreenFollows
  <1>1. IInv => ScreenFollows
    BY DEF IInv
  <1> QED BY <1>1, InitInv, NextInv, PTL DEF Spec

(* A page that is loaded again goes on with the same board and score. *)
THEOREM ReloadInStep == Spec => ReloadKeepsGame
  <1>1. ASSUME IInv, Load(TRUE), ~game.over PROVE SameGame(game', game)
    <2>1. saved # {}
      BY <1>1 DEF IInv, StorageFollows
    <2>2. PICK state \in saved : actuate(Reloaded(state), best, {})
      BY <1>1, <2>1 DEF Load
    <2>3. game' = Reloaded(state)
      BY <2>2 DEF actuate
    <2> QED BY <1>1, <2>3, ReadBack
  <1>2. IInv /\ [Next]_vars => [Load(TRUE) /\ ~game.over => SameGame(game', game)]_vars
    BY <1>1
  <1> QED BY <1>2, InitInv, NextInv, PTL DEF Spec, ReloadKeepsGame

(* A game begins to go on only after its own win, or by a message that outlived
   its game: storage and message together leave no other way. *)
THEOREM GoesOnOnlyWhenAsked == Spec => GoesOnWhenAsked
  <1> DEFINE Asked == ~game.keepPlaying /\ game'.keepPlaying => stale \/ (game.won /\ ~game.over)
  <1>1. ASSUME IInv, NEW found \in BOOLEAN, Load(found), game'.keepPlaying PROVE game.keepPlaying
    <2> DEFINE b == IF found THEN best ELSE 0
    <2>1. CASE found /\ saved # {}
      <3>1. PICK state \in saved : game' = Reloaded(state)
        BY <1>1, <2>1 DEF Load, actuate
      <3>2. saved = {state} /\ ~game.over
        BY <1>1, ReadBack
      <3>3. PICK kept \in BOOLEAN : saved = {StoredAs(game, kept)} /\ (kept => game.keepPlaying)
        BY <1>1, <3>2 DEF IInv, StorageFollows
      <3>4. game'.keepPlaying = kept
        BY <3>1, <3>2, <3>3 DEF Reloaded, Stored, StoredAs, WithGrid
      <3> QED BY <1>1, <3>3, <3>4
    <2>2. CASE ~(found /\ saved # {})
      <3>1. NewGame(b, {})
        BY <1>1, <2>2 DEF Load
      <3> QED BY <1>1, <3>1 DEF NewGame, InitialGames, actuate, Fresh
    <2> QED BY <2>1, <2>2
  <1>2. ASSUME restart PROVE ~game'.keepPlaying
    BY <1>2 DEF restart, NewGame, InitialGames, actuate, Fresh
  <1>3. ASSUME IInv, keepPlaying PROVE stale \/ (game.won /\ ~game.over)
    BY <1>3 DEF keepPlaying, IInv, MessageFollows, Announced, isGameTerminated
  <1>4. ASSUME NEW direction \in Directions, Play(direction) PROVE game'.keepPlaying = game.keepPlaying
    <2> DEFINE m == move(game.grid, direction)
    <2>1. CASE m.moved
      <3>1. PICK cell, value : game' = AfterMove(m, WithTile(m.board, cell, value))
        BY <1>4, <2>1 DEF Play, actuate
      <3> HIDE DEF m
      <3> QED BY <3>1 DEF AfterMove
    <2>2. CASE ~m.moved
      BY <1>4, <2>2 DEF Play
    <2> QED BY <2>1, <2>2
  <1>5. ASSUME Frame \/ UNCHANGED vars PROVE game' = game
    BY <1>5 DEF Frame, vars
  <1>6. IInv /\ [Next]_vars => [Asked]_vars
    <2> SUFFICES ASSUME IInv, [Next]_vars PROVE Asked
      OBVIOUS
    <2> QED BY <1>1, <1>2, <1>3, <1>4, <1>5 DEF Next
  <1> QED BY <1>6, InitInv, NextInv, PTL DEF Spec, GoesOnWhenAsked

-----------------------------------------------------------------------------
(* Board, score and the end of the game *)

(* A game the program can be in: its board has a tile, leaves room for larger
   ones, and the game is over exactly when the code finds no move. *)
Playable(g) == /\ g \in Games
               /\ Roomy(g.grid)
               /\ \E cell \in Cells : g.grid[cell] # Empty
               /\ g.over <=> ~movesAvailable(g.grid)

FramesOK(frames) == /\ Cardinality(frames) <= 1
                    /\ frames \subseteq [score : Nat, best : Nat, classes : SUBSET Messages, calls : 1 .. MaxCalls]
ScreenOK(s) == s \in [tiles : Boards \cup {Moving}, score : Nat, best : Nat]
SavedOK(states) == Cardinality(states) <= 1 /\ \A g \in states : SavedGame(g)

BoardInv == IInv /\ TypeOK /\ Playable(game) /\ ScoreTellsBoard

(* No frame is a set of frames. *)
LEMMA NoFrames == FramesOK({}) /\ Coming({}) \subseteq Messages
  BY FS_EmptySet DEF FramesOK, Coming

(* The messages of frames, and the calls behind them. *)
LEMMA FramesTyped ==
  ASSUME NEW frames, FramesOK(frames)
  PROVE  Coming(frames) \subseteq Messages /\ Calls(frames) \in Nat
  <1>1. \A f \in frames : f.classes \subseteq Messages /\ f.calls \in 1 .. MaxCalls
    BY DEF FramesOK
  <1>2. Coming(frames) \subseteq Messages
    BY <1>1 DEF Coming
  <1>3. CASE frames = {}
    BY <1>2, <1>3 DEF Calls
  <1>4. CASE frames # {}
    <2>1. (CHOOSE f \in frames : TRUE) \in frames
      BY <1>4
    <2>2. (CHOOSE f \in frames : TRUE).calls \in 1 .. MaxCalls
      BY <1>1, <2>1
    <2> QED BY <1>2, <1>4, <2>2, BoundsAssumption DEF Calls
  <1> QED BY <1>3, <1>4

(* What is stored of a game has its type. *)
LEMMA StoredTyped ==
  ASSUME NEW g \in Games
  PROVE  SavedOK({Stored(g)})
  <1> DEFINE state == Stored(g)
  <1>1. g.grid \in Boards
    BY DEF Games
  <1>2. \A cell \in Cells : serialize(g.grid)[cell] = IF g.grid[cell] = Empty THEN {}
                                                      ELSE {[position |-> cell, value |-> g.grid[cell]]}
    BY DEF serialize
  <1>3. \A cell \in Cells : g.grid[cell] # Empty => g.grid[cell] \in Values
    BY <1>1 DEF Boards
  <1> DEFINE R == [position : Cells, value : Values]
  <1>0. Cardinality({}) <= 1 /\ \A x : Cardinality({x}) <= 1
    BY FS_EmptySet, FS_Singleton
  <1>4. \A cell \in Cells : /\ serialize(g.grid)[cell] \in SUBSET [position : Cells, value : Values]
                            /\ Cardinality(serialize(g.grid)[cell]) <= 1
    <2> TAKE cell \in Cells
    <2>1. CASE g.grid[cell] = Empty
      <3>1. serialize(g.grid)[cell] = {}
        BY <1>2, <2>1
      <3> QED BY <1>0, <3>1
    <2>2. CASE g.grid[cell] # Empty
      <3>1. serialize(g.grid)[cell] = {[position |-> cell, value |-> g.grid[cell]]}
        BY <1>2, <2>2
      <3>2. [position |-> cell, value |-> g.grid[cell]] \in R
        BY <1>3, <2>2
      <3> HIDE DEF R
      <3>3. {[position |-> cell, value |-> g.grid[cell]]} \in SUBSET R
        BY <3>2
      <3> QED BY <1>0, <3>1, <3>3 DEF R
    <2> QED BY <2>1, <2>2
  <1>5. serialize(g.grid) \in [Cells -> SUBSET [position : Cells, value : Values]]
    BY <1>4 DEF serialize
  <1>6. state.grid = serialize(g.grid)
    BY DEF Stored, WithGrid
  <1>7. NoTiles \in Boards
    BY DEF NoTiles, Boards
  <1>8. WithGrid(state, NoTiles) \in Games
    BY <1>7 DEF Stored, WithGrid, Games
  <1>9. SavedGame(state)
    BY <1>4, <1>5, <1>6, <1>8 DEF SavedGame
  <1> HIDE DEF state
  <1>10. SavedOK({state})
    BY <1>9, FS_Singleton DEF SavedOK
  <1> QED BY <1>10 DEF state

(* The actuator leaves the game, the storage and the frames with their types. *)
LEMMA ActuateTyped ==
  ASSUME NEW g, Playable(g), NEW b \in Nat, NEW frames, FramesOK(frames), actuate(g, b, frames)
  PROVE  /\ game' = g
         /\ best' \in Nat /\ best' >= g.score
         /\ SavedOK(saved') /\ FramesOK(pending')
  <1>1. /\ game' = g /\ best' = Higher(b, g.score)
        /\ saved' = IF g.over THEN {} ELSE {Stored(g)}
        /\ requestFrame(g, b, frames)
    BY DEF actuate
  <1>2. g \in Games /\ g.score \in Nat
    BY DEF Playable, Games
  <1>3. Higher(b, g.score) \in Nat /\ Higher(b, g.score) >= g.score
    BY <1>2 DEF Higher
  <1>4. SavedOK(saved')
    <2>1. SavedOK({})
      BY FS_EmptySet DEF SavedOK
    <2> QED BY <1>1, <1>2, <2>1, StoredTyped
  <1>5. FramesOK(pending')
    <2> DEFINE f == [score |-> g.score, best |-> Higher(b, g.score),
                     classes |-> Coming(frames) \cup Announced(g), calls |-> Calls(frames) + 1]
    <2>1. pending' = {f} /\ Calls(frames) < MaxCalls
      BY <1>1 DEF requestFrame
    <2>2. Announced(g) \subseteq Messages
      BY DEF Announced, Messages
    <2>3. Coming(frames) \subseteq Messages /\ Calls(frames) \in Nat
      BY FramesTyped
    <2>4. f \in [score : Nat, best : Nat, classes : SUBSET Messages, calls : 1 .. MaxCalls]
      BY <1>2, <1>3, <2>1, <2>2, <2>3, BoundsAssumption
    <2> HIDE DEF f
    <2> QED BY <2>1, <2>4, FS_Singleton DEF FramesOK
  <1> QED BY <1>1, <1>3, <1>4, <1>5


(* A new game is playable: two tiles never fill a board that has two cells. *)
LEMMA FreshPlayable ==
  ASSUME NEW c1 \in Cells, NEW c2 \in Cells, c1 # c2, NEW v1 \in RandomValues, NEW v2 \in RandomValues
  PROVE  LET g == Fresh(WithTile(WithTile(NoTiles, c1, v1), c2, v2))
         IN  /\ Playable(g)
             /\ g.score = 0
             /\ 4 * (Fours(v1) + Fours(v2)) = BoardWorth(g.grid)
             /\ Fours(v1) + Fours(v2) = CountFours(g.grid)
  <1> DEFINE one == WithTile(NoTiles, c1, v1)
             board == WithTile(one, c2, v2)
             g == Fresh(board)
  <1>1. NoTiles \in Boards /\ Roomy(NoTiles) /\ BoardWorth(NoTiles) = 0
    BY EmptyRoomy, EmptyWorth DEF NoTiles
  <1>2. v1 \in {2, 4} /\ v2 \in {2, 4}
    BY DEF RandomValues
  <1>3. one \in Boards /\ Roomy(one)
    BY <1>1, <1>2, SpawnRoomy DEF WithTile
  <1>4. BoardWorth(one) = BoardWorth(NoTiles) + IF v1 = 4 THEN 4 ELSE 0
    <2>1. NoTiles[c1] = Empty
      BY DEF NoTiles
    <2> QED BY <1>1, <1>2, <2>1, SpawnWorth DEF WithTile
  <1>5. /\ one[c1] = v1 /\ \A c \in Cells \ {c1} : one[c] = Empty
        /\ board[c2] = v2 /\ \A c \in Cells \ {c2} : board[c] = one[c]
    BY DEF WithTile, NoTiles
  <1>6. board \in Boards /\ Roomy(board)
    <2> HIDE DEF one
    <2> QED BY <1>2, <1>3, SpawnRoomy DEF WithTile
  <1>7. BoardWorth(board) = BoardWorth(one) + IF v2 = 4 THEN 4 ELSE 0
    <2>1. one[c2] = Empty
      BY <1>5
    <2> HIDE DEF one
    <2> QED BY <1>2, <1>3, <2>1, SpawnWorth DEF WithTile
  <1>8. g.grid = board /\ g.score = 0 /\ g.over = FALSE /\ g \in Games
    <2> HIDE DEF board
    <2> QED BY <1>6 DEF Fresh, Games
  <1> HIDE DEF one, board, g
  <1>9. v1 # Empty /\ board[c1] = v1
    BY <1>2, <1>5 DEF Empty
  <1>10. movesAvailable(board)
    <2>1. PICK x1 \in 0 .. Size - 1, y1 \in 0 .. Size - 1 : c1 = <<x1, y1>>
      BY DEF Cells
    <2>2. PICK x2 \in 0 .. Size - 1, y2 \in 0 .. Size - 1 : c2 = <<x2, y2>>
      BY DEF Cells
    <2>3. Size \in Nat /\ Size >= 2
      <3>1. Size \in Nat \ {0}
        BY CellCountNat
      <3>2. Size # 1
        BY <2>1, <2>2
      <3> QED BY <3>1, <3>2
    <2>4. <<0, 0>> \in Cells /\ <<0, 1>> \in Cells /\ <<1, 0>> \in Cells
      BY <2>3 DEF Cells
    <2>5. PICK c \in Cells : c # c1 /\ c # c2
      BY <2>1, <2>2, <2>4
    <2>6. c \in availableCells(board)
      BY <1>5, <2>5 DEF availableCells
    <2> QED BY <2>6 DEF movesAvailable
  <1>11. Playable(g)
    BY <1>6, <1>8, <1>9, <1>10 DEF Playable
  <1>12. 4 * (Fours(v1) + Fours(v2)) = BoardWorth(g.grid)
    BY <1>1, <1>2, <1>4, <1>7, <1>8 DEF Fours
  <1>13. Fours(v1) + Fours(v2) = CountFours(g.grid)
    <2> DEFINE S == {cell \in Cells : board[cell] = 4}
    <2>1. \A c \in Cells : board[c] = 4 <=> (c = c1 /\ v1 = 4) \/ (c = c2 /\ v2 = 4)
      BY <1>2, <1>5 DEF Empty
    <2>2. IsFiniteSet({}) /\ Cardinality({}) = 0 /\ \A x : IsFiniteSet({x}) /\ Cardinality({x}) = 1
      BY FS_EmptySet, FS_Singleton
    <2>3. CASE v1 # 4 /\ v2 # 4
      <3>1. S = {}
        BY <2>1, <2>3
      <3> HIDE DEF S
      <3> QED BY <1>8, <2>2, <2>3, <3>1 DEF Fours, S, CountFours
    <2>4. CASE v1 = 4 /\ v2 # 4
      <3>1. S = {c1}
        BY <2>1, <2>4
      <3>2. Fours(v1) + Fours(v2) = 1
        BY <2>4 DEF Fours
      <3>3. {cell \in Cells : g.grid[cell] = 4} = S
        BY <1>8
      <3> HIDE DEF S
      <3>4. Cardinality(S) = 1
        BY <2>2, <3>1
      <3> QED BY <3>2, <3>3, <3>4 DEF CountFours
    <2>5. CASE v1 # 4 /\ v2 = 4
      <3>1. S = {c2}
        BY <2>1, <2>5
      <3>2. Fours(v1) + Fours(v2) = 1
        BY <2>5 DEF Fours
      <3>3. {cell \in Cells : g.grid[cell] = 4} = S
        BY <1>8
      <3> HIDE DEF S
      <3>4. Cardinality(S) = 1
        BY <2>2, <3>1
      <3> QED BY <3>2, <3>3, <3>4 DEF CountFours
    <2>6. CASE v1 = 4 /\ v2 = 4
      <3>1. S = {c1} \cup {c2}
        BY <2>1, <2>6
      <3>2. Cardinality({c1} \cup {c2}) = Cardinality({c1}) + 1
        BY <2>2, FS_AddElement
      <3> HIDE DEF S
      <3> QED BY <1>8, <2>2, <2>6, <3>1, <3>2 DEF Fours, S, CountFours
    <2> QED BY <2>3, <2>4, <2>5, <2>6
  <1> QED BY <1>8, <1>11, <1>12, <1>13 DEF g, board, one

(* Beginning a game leaves everything typed, and the score as it should be. *)
LEMMA NewGamePlayable ==
  ASSUME NEW b \in Nat, NEW frames, FramesOK(frames), NewGame(b, frames)
  PROVE  /\ Playable(game') /\ ScoreTellsBoard' /\ fours' \in Nat /\ best' \in Nat
         /\ SavedOK(saved') /\ FramesOK(pending')
  <1>1. PICK c1, c2 \in Cells, v1, v2 \in RandomValues :
          /\ c1 # c2
          /\ actuate(Fresh(WithTile(WithTile(NoTiles, c1, v1), c2, v2)), b, frames)
          /\ fours' = CountFours(Fresh(WithTile(WithTile(NoTiles, c1, v1), c2, v2)).grid)
    BY DEF NewGame, InitialGames
  <1> DEFINE g == Fresh(WithTile(WithTile(NoTiles, c1, v1), c2, v2))
  <1>2. /\ Playable(g) /\ g.score = 0 /\ 4 * (Fours(v1) + Fours(v2)) = BoardWorth(g.grid)
        /\ fours' = Fours(v1) + Fours(v2)
    BY <1>1, FreshPlayable
  <1>3. Fours(v1) + Fours(v2) \in Nat
    BY DEF Fours
  <1>4. actuate(g, b, frames)
    BY <1>1
  <1> HIDE DEF g
  <1>5. game' = g /\ best' \in Nat /\ best' >= g.score /\ SavedOK(saved') /\ FramesOK(pending')
    BY <1>2, <1>4, ActuateTyped
  <1>6. game'.score + 4 * fours' = BoardWorth(game'.grid)
    BY <1>1, <1>2, <1>3, <1>5
  <1>7. ScoreTellsBoard'
    BY <1>2, <1>5, <1>6 DEF ScoreTellsBoard
  <1> QED BY <1>1, <1>2, <1>3, <1>5, <1>7

(* The parts of the invariant a step has to keep. *)
LEMMA BoardParts ==
  BoardInv <=> /\ IInv /\ Playable(game) /\ ScoreTellsBoard
               /\ prepared \in BOOLEAN /\ SavedOK(saved) /\ best \in Nat
               /\ message \subseteq Messages /\ ScreenOK(screen) /\ FramesOK(pending)
               /\ stale \in BOOLEAN /\ fours \in Nat /\ games \in 1 .. MaxGames
  BY DEF BoardInv, TypeOK, Playable, SavedOK, ScreenOK, FramesOK

(* The same of the next state. *)
LEMMA BoardPartsNext ==
  ASSUME IInv', Playable(game'), ScoreTellsBoard',
         prepared' \in BOOLEAN, SavedOK(saved'), best' \in Nat,
         message' \subseteq Messages, ScreenOK(screen'), FramesOK(pending'),
         stale' \in BOOLEAN, fours' \in Nat, games' \in 1 .. MaxGames
  PROVE  BoardInv'
  BY DEF BoardInv, TypeOK, Playable, SavedOK, ScreenOK, FramesOK

(* The page before its first frame has its type. *)
LEMMA BlankTyped == ScreenOK(Blank)
  <1>1. NoTiles \in Boards
    BY DEF NoTiles, Boards
  <1> QED BY <1>1 DEF ScreenOK, Blank

(* Every first page load establishes the invariant. *)
LEMMA InitBoard == Init => BoardInv
  <1> SUFFICES ASSUME Init PROVE BoardInv
    OBVIOUS
  <1>1. PICK c1 \in Cells, c2 \in Cells, v1 \in RandomValues, v2 \in RandomValues :
          c1 # c2 /\ game = Fresh(WithTile(WithTile(NoTiles, c1, v1), c2, v2))
    BY DEF Init, InitialGames
  <1>2. /\ Playable(game) /\ game.score = 0
        /\ 4 * (Fours(v1) + Fours(v2)) = BoardWorth(game.grid)
        /\ Fours(v1) + Fours(v2) = CountFours(game.grid)
    BY <1>1, FreshPlayable
  <1>3. /\ prepared = FALSE /\ saved = {Stored(game)} /\ best = 0 /\ message = {} /\ screen = Blank
        /\ pending = {[score |-> 0, best |-> 0, classes |-> {}, calls |-> 1]}
        /\ stale = FALSE /\ games = 1
        /\ fours = CountFours(game.grid)
    BY DEF Init
  <1>4. fours = Fours(v1) + Fours(v2)
    BY <1>2, <1>3
  <1>5. fours \in Nat
    BY <1>4 DEF Fours
  <1>6. ScoreTellsBoard
    BY <1>2, <1>3, <1>4, <1>5 DEF ScoreTellsBoard
  <1>7. SavedOK(saved)
    BY <1>2, <1>3, StoredTyped DEF Playable
  <1>8. FramesOK(pending)
    <2> DEFINE f == [score |-> 0, best |-> 0, classes |-> {}, calls |-> 1]
    <2>1. f \in [score : Nat, best : Nat, classes : SUBSET Messages, calls : 1 .. MaxCalls]
      BY BoundsAssumption
    <2>2. pending = {f}
      BY <1>3
    <2> HIDE DEF f
    <2>3. Cardinality(pending) = 1
      BY <2>2, FS_Singleton
    <2> QED BY <2>1, <2>2, <2>3 DEF FramesOK
  <1>9. games \in 1 .. MaxGames
    BY <1>3, BoundsAssumption
  <1> QED BY <1>2, <1>3, <1>5, <1>6, <1>7, <1>8, <1>9, BlankTyped, InitInv, BoardParts

(* The game is counted. *)
LEMMA Begun ==
  ASSUME BoardInv, Begin
  PROVE  games' \in 1 .. MaxGames
  BY BoundsAssumption DEF BoardInv, TypeOK, Begin

(* A game that differs in keepPlaying only is as playable. *)
LEMMA SamePlayable ==
  ASSUME NEW g, NEW h, Playable(h), h.keepPlaying \in BOOLEAN, NEW kept \in BOOLEAN,
         g = [h EXCEPT !.keepPlaying = kept]
  PROVE  Playable(g) /\ g.grid = h.grid /\ g.score = h.score
  <1>1. h \in Games
    BY DEF Playable
  <1>2. g \in Games /\ g.grid = h.grid /\ g.score = h.score /\ g.over = h.over
    BY <1>1 DEF Games
  <1> QED BY <1>2 DEF Playable

(* Loading the page again goes on with the stored game or a new one. *)
LEMMA LoadBoard ==
  ASSUME BoardInv, NEW found \in BOOLEAN, Load(found)
  PROVE  BoardInv'
  <1> DEFINE b == IF found THEN best ELSE 0
  <1>1. /\ prepared' = FALSE /\ message' = {} /\ screen' = Blank /\ stale' = FALSE
        /\ games' \in 1 .. MaxGames
    BY Begun DEF Load
  <1>2. b \in Nat
    BY BoardParts
  <1>3. IInv'
    BY LoadInv DEF BoardInv
  <1>4. /\ Playable(game') /\ ScoreTellsBoard' /\ fours' \in Nat /\ best' \in Nat
        /\ SavedOK(saved') /\ FramesOK(pending')
    <2>1. CASE found /\ saved # {}
      <3>1. PICK state \in saved : actuate(Reloaded(state), b, {})
        BY <2>1 DEF Load
      <3>2. fours' = fours
        BY <2>1 DEF Load
      <3> DEFINE g == Reloaded(state)
      <3>3. Fielded(g) /\ SameGame(g, game)
        BY ReadBack DEF BoardInv
      <3> HIDE DEF g
      <3>4. g.keepPlaying \in BOOLEAN /\ g = [game EXCEPT !.keepPlaying = g.keepPlaying]
        BY <3>3 DEF Fielded, SameGame
      <3>5. Playable(game) /\ game.keepPlaying \in BOOLEAN
        BY BoardParts DEF Playable, Games
      <3>6. Playable(g) /\ g.grid = game.grid /\ g.score = game.score
        BY <3>4, <3>5, SamePlayable
      <3>7. /\ game' = g /\ best' \in Nat /\ best' >= g.score
            /\ SavedOK(saved') /\ FramesOK(pending')
        BY <1>2, <3>1, <3>6, NoFrames, ActuateTyped DEF g
      <3>8. ScoreTellsBoard'
        BY <3>2, <3>6, <3>7, BoardParts DEF ScoreTellsBoard
      <3> QED BY <3>2, <3>6, <3>7, <3>8, BoardParts
    <2>2. CASE ~(found /\ saved # {})
      <3>1. NewGame(b, {})
        BY <2>2 DEF Load
      <3> QED BY <1>2, <3>1, NoFrames, NewGamePlayable
    <2> QED BY <2>1, <2>2
  <1>5. ScreenOK(screen') /\ message' \subseteq Messages
    BY <1>1, BlankTyped
  <1>6. prepared' \in BOOLEAN /\ stale' \in BOOLEAN
    BY <1>1
  <1> QED BY <1>1, <1>3, <1>4, <1>5, <1>6, BoardPartsNext

(* So does the R key or a button. *)
LEMMA RestartBoard ==
  ASSUME BoardInv, restart
  PROVE  BoardInv'
  <1>1. /\ NewGame(best, pending) /\ prepared' = FALSE /\ message' = {}
        /\ stale' = (Coming(pending) # {}) /\ screen' = screen
        /\ games' \in 1 .. MaxGames
    BY Begun DEF restart
  <1>2. best \in Nat /\ FramesOK(pending) /\ ScreenOK(screen)
    BY BoardParts
  <1>3. IInv'
    <2>1. Next
      BY DEF Next
    <2> QED BY <2>1, NextInv DEF BoardInv
  <1>4. /\ Playable(game') /\ ScoreTellsBoard' /\ fours' \in Nat /\ best' \in Nat
        /\ SavedOK(saved') /\ FramesOK(pending')
    BY <1>1, <1>2, NewGamePlayable
  <1>5. prepared' \in BOOLEAN /\ stale' \in BOOLEAN /\ message' \subseteq Messages
    BY <1>1
  <1> QED BY <1>1, <1>2, <1>3, <1>4, <1>5, BoardPartsNext

(* "Keep going" leaves board and score. *)
LEMMA KeepPlayingBoard ==
  ASSUME BoardInv, keepPlaying
  PROVE  BoardInv'
  <1>1. /\ game' = [game EXCEPT !.keepPlaying = TRUE]
        /\ message' = {} /\ stale' = (stale \/ Coming(pending) # {})
        /\ prepared' = prepared /\ saved' = saved /\ best' = best /\ screen' = screen
        /\ pending' = pending /\ fours' = fours /\ games' = games
    BY DEF keepPlaying
  <1>2. Playable(game) /\ game.keepPlaying \in BOOLEAN
    BY BoardParts DEF Playable, Games
  <1>3. Playable(game') /\ game'.grid = game.grid /\ game'.score = game.score
    BY <1>1, <1>2, SamePlayable
  <1>4. ScoreTellsBoard'
    BY <1>1, <1>3, BoardParts DEF ScoreTellsBoard
  <1>5. IInv'
    <2>1. Next
      BY DEF Next
    <2> QED BY <2>1, NextInv DEF BoardInv
  <1>6. stale' \in BOOLEAN /\ message' \subseteq Messages
    BY <1>1
  <1> QED BY <1>1, <1>3, <1>4, <1>5, <1>6, BoardParts, BoardPartsNext

(* A move scores what the board gains, and a random tile comes on top. *)
LEMMA MovePlayable ==
  ASSUME Playable(game), NEW direction \in Directions, NEW value \in RandomValues,
         NEW cell \in availableCells(move(game.grid, direction).board)
  PROVE  LET m == move(game.grid, direction)
             g == AfterMove(m, WithTile(m.board, cell, value))
         IN  /\ Playable(g)
             /\ BoardWorth(game.grid) \in Int /\ m.score \in Nat
             /\ g.score = game.score + m.score
             /\ BoardWorth(g.grid) = BoardWorth(game.grid) + m.score + 4 * Fours(value)
  <1> DEFINE m == move(game.grid, direction)
             board == WithTile(m.board, cell, value)
             g == AfterMove(m, board)
  <1>1. game \in Games /\ game.grid \in Boards /\ Roomy(game.grid)
    BY DEF Playable, Games
  <1>2. m \in MoveStates /\ Roomy(m.board)
    BY <1>1, MoveRoomy
  <1>3. BoardWorth(game.grid) \in Int /\ BoardWorth(m.board) = BoardWorth(game.grid) + m.score
    BY <1>1, MoveWorth
  <1>4. cell \in Cells /\ m.board[cell] = Empty
    BY DEF availableCells
  <1> HIDE DEF m
  <1>5. m.board \in Boards /\ m.score \in Nat /\ value \in {2, 4}
    BY <1>2 DEF MoveStates, RandomValues
  <1>6. board \in Boards /\ Roomy(board)
    BY <1>2, <1>4, <1>5, SpawnRoomy DEF WithTile
  <1>7. BoardWorth(board) = BoardWorth(m.board) + IF value = 4 THEN 4 ELSE 0
    BY <1>4, <1>5, SpawnWorth DEF WithTile
  <1>8. board[cell] # Empty
    BY <1>4, <1>5 DEF WithTile, Empty
  <1> HIDE DEF board
  <1>9. /\ g.grid = board /\ g.score = game.score + m.score
        /\ g.over = ~movesAvailable(board)
        /\ g.won = (game.won \/ Goal \in m.made) /\ g.keepPlaying = game.keepPlaying
        /\ g = [grid |-> g.grid, score |-> g.score, over |-> g.over, won |-> g.won,
                keepPlaying |-> g.keepPlaying]
    BY DEF AfterMove
  <1>10. g.score \in Nat /\ g.over \in BOOLEAN /\ g.won \in BOOLEAN /\ g.keepPlaying \in BOOLEAN
    BY <1>1, <1>5, <1>9 DEF Games
  <1> HIDE DEF g
  <1>11. g \in Games
    BY <1>6, <1>9, <1>10 DEF Games
  <1>12. Playable(g)
    BY <1>4, <1>6, <1>8, <1>9, <1>11 DEF Playable
  <1>13. BoardWorth(g.grid) = BoardWorth(game.grid) + m.score + 4 * Fours(value)
    BY <1>3, <1>5, <1>7, <1>9 DEF Fours
  <1> QED BY <1>3, <1>5, <1>9, <1>12, <1>13 DEF g, board, m

(* A key or a swipe keeps the invariant. *)
LEMMA PlayBoard ==
  ASSUME BoardInv, NEW direction \in Directions, Play(direction)
  PROVE  BoardInv'
  <1> DEFINE m == move(game.grid, direction)
  <1>1. /\ prepared' = TRUE /\ message' = message /\ screen' = screen
        /\ stale' = stale /\ games' = games
    BY DEF Play
  <1>2. IInv'
    <2>1. Next
      BY DEF Next
    <2> QED BY <2>1, NextInv DEF BoardInv
  <1>3. /\ Playable(game) /\ ScoreTellsBoard /\ fours \in Nat /\ best \in Nat
        /\ SavedOK(saved) /\ FramesOK(pending)
    BY BoardParts
  <1>4. /\ Playable(game') /\ ScoreTellsBoard' /\ fours' \in Nat /\ best' \in Nat
        /\ SavedOK(saved') /\ FramesOK(pending')
    <2>1. CASE m.moved
      <3>1. PICK cell \in availableCells(m.board), value \in RandomValues :
              /\ actuate(AfterMove(m, WithTile(m.board, cell, value)), best, pending)
              /\ fours' = fours + Fours(value)
        BY <2>1 DEF Play
      <3> DEFINE g == AfterMove(m, WithTile(m.board, cell, value))
      <3>2. /\ Playable(g)
            /\ BoardWorth(game.grid) \in Int /\ m.score \in Nat
            /\ g.score = game.score + m.score
            /\ BoardWorth(g.grid) = BoardWorth(game.grid) + m.score + 4 * Fours(value)
        BY <1>3, MovePlayable
      <3>3. actuate(g, best, pending)
        BY <3>1
      <3> HIDE DEF g, m
      <3>4. /\ game' = g /\ best' \in Nat /\ best' >= g.score
            /\ SavedOK(saved') /\ FramesOK(pending')
        BY <1>3, <3>2, <3>3, ActuateTyped
      <3>5. Fours(value) \in Nat
        BY DEF Fours
      <3>6. game.score \in Nat
        BY <1>3 DEF Playable, Games
      <3>7. fours' \in Nat
        BY <1>3, <3>1, <3>5
      <3>8. game.score + 4 * fours = BoardWorth(game.grid)
        BY <1>3 DEF ScoreTellsBoard
      <3>9. g.score + 4 * fours' = BoardWorth(g.grid)
        BY <1>3, <3>1, <3>2, <3>5, <3>6, <3>8
      <3>10. ScoreTellsBoard'
        BY <3>4, <3>9 DEF ScoreTellsBoard
      <3> QED BY <3>2, <3>4, <3>7, <3>10
    <2>2. CASE ~m.moved
      <3>1. UNCHANGED <<game, saved, best, pending, fours>>
        BY <2>2 DEF Play
      <3> QED BY <1>3, <3>1 DEF ScoreTellsBoard
    <2> QED BY <2>1, <2>2
  <1>5. prepared' \in BOOLEAN
    BY <1>1
  <1> QED BY <1>1, <1>2, <1>4, <1>5, BoardParts, BoardPartsNext

(* A frame changes only what is shown. *)
LEMMA FrameBoard ==
  ASSUME BoardInv, Frame
  PROVE  BoardInv'
  <1>1. /\ game' = game /\ prepared' = prepared /\ saved' = saved /\ best' = best
        /\ stale' = stale /\ fours' = fours /\ games' = games
        /\ message' = message \cup Coming(pending) /\ pending' = {}
    BY DEF Frame
  <1>2. IInv'
    <2>1. Next
      BY DEF Next
    <2> QED BY <2>1, NextInv DEF BoardInv
  <1>3. /\ Playable(game) /\ ScoreTellsBoard /\ message \subseteq Messages
        /\ ScreenOK(screen) /\ FramesOK(pending)
    BY BoardParts
  <1>4. message' \subseteq Messages /\ FramesOK(pending')
    BY <1>1, <1>3, FramesTyped, NoFrames
  <1>5. game.grid \in Boards
    BY <1>3 DEF Playable, Games
  <1>6. ScreenOK(screen')
    <2>1. CASE pending = {}
      <3>1. screen' = [screen EXCEPT !.tiles = game.grid]
        BY <2>1 DEF Frame
      <3> QED BY <1>3, <1>5, <3>1 DEF ScreenOK
    <2>2. CASE pending # {}
      <3>1. PICK f \in pending : screen' = [tiles |-> IF prepared THEN Moving ELSE game.grid,
                                            score |-> f.score, best |-> f.best]
        BY <2>2 DEF Frame
      <3>2. f.score \in Nat /\ f.best \in Nat
        BY <1>3 DEF FramesOK
      <3> QED BY <1>5, <3>1, <3>2 DEF ScreenOK
    <2> QED BY <2>1, <2>2
  <1>7. ScoreTellsBoard'
    BY <1>1, <1>3 DEF ScoreTellsBoard
  <1>8. Playable(game')
    BY <1>1, <1>3
  <1> QED BY <1>1, <1>2, <1>4, <1>6, <1>7, <1>8, BoardParts, BoardPartsNext

(* Every action preserves it. *)
LEMMA NextBoard == BoardInv /\ [Next]_vars => BoardInv'
  <1> SUFFICES ASSUME BoardInv, [Next]_vars PROVE BoardInv'
    OBVIOUS
  <1>1. ASSUME NEW found \in BOOLEAN, Load(found) PROVE BoardInv'
    BY <1>1, LoadBoard
  <1>2. CASE restart
    BY <1>2, RestartBoard
  <1>3. CASE keepPlaying
    BY <1>3, KeepPlayingBoard
  <1>4. ASSUME NEW direction \in Directions, Play(direction) PROVE BoardInv'
    BY <1>4, PlayBoard
  <1>5. CASE Frame
    BY <1>5, FrameBoard
  <1>6. CASE UNCHANGED vars
    <2>1. IInv'
      BY NextInv DEF BoardInv
    <2>2. /\ game' = game /\ prepared' = prepared /\ saved' = saved /\ best' = best
          /\ message' = message /\ screen' = screen /\ pending' = pending
          /\ stale' = stale /\ fours' = fours /\ games' = games
      BY <1>6 DEF vars
    <2>3. ScoreTellsBoard'
      BY <2>2, BoardParts DEF ScoreTellsBoard
    <2> QED BY <2>1, <2>2, <2>3, BoardParts, BoardPartsNext
  <1> QED BY <1>1, <1>2, <1>3, <1>4, <1>5, <1>6 DEF Next

(* Every variable of the game has its type: in particular no board the game
   can reach has a tile above 2^(n + 1) on its n cells. *)
THEOREM TypesKept == Spec => []TypeOK
  <1>1. BoardInv => TypeOK
    BY DEF BoardInv
  <1> QED BY <1>1, InitBoard, NextBoard, PTL DEF Spec

(* The score is what the tiles on the board are worth, less four for each that
   came as a four, whatever was merged in which order; the best score covers it. *)
THEOREM ScoreToldByBoard == Spec => []ScoreTellsBoard
  <1>1. BoardInv => ScoreTellsBoard
    BY DEF BoardInv
  <1> QED BY <1>1, InitBoard, NextBoard, PTL DEF Spec

(* The game is over exactly when no move in any direction changes the board:
   the code neither ends a game that could go on nor leaves one that cannot. *)
THEOREM OverExactlyWhenStuck == Spec => []OverWhenStuck
  <1>1. BoardInv => OverWhenStuck
    <2>1. ASSUME Playable(game) PROVE OverWhenStuck
      <3>1. /\ game.grid \in Boards /\ Roomy(game.grid)
            /\ \E cell \in Cells : game.grid[cell] # Empty
            /\ game.over <=> ~movesAvailable(game.grid)
        BY <2>1 DEF Playable, Games
      <3> QED BY <3>1, StuckExactlyWhen DEF OverWhenStuck
    <2> QED BY <2>1 DEF BoardInv
  <1> QED BY <1>1, InitBoard, NextBoard, PTL DEF Spec

(* Any move, in any direction, from the board of the game as it is. *)
MovesLikeReference == MovesAsMeant(game.grid)

(* Every move that can be made on a board of the game does what it is meant
   to: the tiles of each line pushed and merged two by two, from the border that
   the move goes to, the new tiles counted once in the score, and the move
   noticed exactly when it changed something.  No bound is put on the board. *)
THEOREM MovesFollowReference == Spec => []MovesLikeReference
  <1>1. BoardInv => MovesLikeReference
    <2>1. ASSUME Playable(game) PROVE MovesLikeReference
      <3>1. game.grid \in Boards /\ Roomy(game.grid)
        BY <2>1 DEF Playable, Games
      <3> QED BY <3>1, MoveAsMeant DEF MovesLikeReference
    <2> QED BY <2>1 DEF BoardInv
  <1> QED BY <1>1, InitBoard, NextBoard, PTL DEF Spec

-----------------------------------------------------------------------------
(* The rules: each step of the game is a step of Rules2048 or none *)

(* Two random tiles on an empty board. *)
LEMMA TwoTilesPut ==
  ASSUME NEW c1 \in Cells, NEW c2 \in Cells, c1 # c2, NEW v1 \in RandomValues, NEW v2 \in RandomValues
  PROVE  LET g == Fresh(WithTile(WithTile(NoTiles, c1, v1), c2, v2))
         IN  /\ Rules!TwoTiles(g.grid)
             /\ g.score = 0 /\ ~g.over /\ ~g.won /\ ~g.keepPlaying
  <1> DEFINE board == WithTile(WithTile(NoTiles, c1, v1), c2, v2)
  <1>1. board = [c \in Cells |-> IF c = c2 THEN v2 ELSE IF c = c1 THEN v1 ELSE Empty]
    BY DEF WithTile, NoTiles
  <1> HIDE DEF board
  <1>2. v1 \in Rules!RandomTiles /\ v2 \in Rules!RandomTiles
    BY DEF RandomValues, Rules!RandomTiles
  <1>3. Rules!TwoTiles(board)
    <2>1. v1 \in {2, 4} /\ v2 \in {2, 4}
      BY DEF RandomValues
    <2>2. \A c \in Cells : board[c] # Empty <=> c \in {c1, c2}
      BY <1>1, <2>1 DEF Empty
    <2>3. board \in [Cells -> Rules!RandomTiles \cup {Empty}]
      BY <1>1, <1>2
    <2> QED BY <2>2, <2>3 DEF Rules!TwoTiles
  <1>4. /\ Fresh(board).grid = board /\ Fresh(board).score = 0 /\ Fresh(board).over = FALSE
        /\ Fresh(board).won = FALSE /\ Fresh(board).keepPlaying = FALSE
    BY DEF Fresh
  <1> QED BY <1>3, <1>4 DEF board

(* A new game, whatever is stored and shown, begins as the rules say. *)
LEMMA NewGameByRules ==
  ASSUME NEW b, NEW frames, NewGame(b, frames)
  PROVE  Rules!NewGame
  <1>1. PICK c1, c2 \in Cells, v1, v2 \in RandomValues :
          c1 # c2 /\ game' = Fresh(WithTile(WithTile(NoTiles, c1, v1), c2, v2))
    BY DEF NewGame, InitialGames, actuate
  <1> DEFINE g == Fresh(WithTile(WithTile(NoTiles, c1, v1), c2, v2))
  <1>2. Rules!TwoTiles(g.grid) /\ g.score = 0 /\ ~g.over /\ ~g.won /\ ~g.keepPlaying
    BY <1>1, TwoTilesPut
  <1>3. game' = g
    BY <1>1
  <1> HIDE DEF g
  <1> QED BY <1>2, <1>3 DEF Rules!NewGame

(* The same of the first page load. *)
LEMMA InitByRules == Init => Rules!RInit
  <1> SUFFICES ASSUME Init PROVE Rules!RInit
    OBVIOUS
  <1>1. PICK c1 \in Cells, c2 \in Cells, v1 \in RandomValues, v2 \in RandomValues :
          c1 # c2 /\ game = Fresh(WithTile(WithTile(NoTiles, c1, v1), c2, v2))
    BY DEF Init, InitialGames
  <1> DEFINE g == Fresh(WithTile(WithTile(NoTiles, c1, v1), c2, v2))
  <1>2. Rules!TwoTiles(g.grid) /\ g.score = 0 /\ ~g.over /\ ~g.won /\ ~g.keepPlaying
    BY <1>1, TwoTilesPut
  <1>3. game = g
    BY <1>1
  <1> HIDE DEF g
  <1> QED BY <1>2, <1>3 DEF Rules!RInit

(* The board after the slide of the rules is the one the code computes. *)
LEMMA SlideAsMeant ==
  ASSUME NEW g, Playable(g), NEW direction \in Directions
  PROVE  LET m == move(g.grid, direction)
         IN  /\ m.board = MeantBoard(g.grid, direction)
             /\ m.score = MeantScore(g.grid, direction)
             /\ m.made = MeantMade(g.grid, direction)
             /\ m.moved <=> m.board # g.grid
  <1>1. g.grid \in Boards /\ Roomy(g.grid)
    BY DEF Playable, Games
  <1> QED BY <1>1, MoveAsMeant DEF MovesAsMeant

(* A game is over exactly when the rules leave no slide. *)
LEMMA OverByRules ==
  ASSUME NEW g, Playable(g)
  PROVE  g.over <=> ~Rules!CanSlide(g.grid)
  <1>1. /\ g.grid \in Boards /\ Roomy(g.grid)
        /\ \E cell \in Cells : g.grid[cell] # Empty
        /\ g.over <=> ~movesAvailable(g.grid)
    BY DEF Playable, Games
  <1>2. g.over <=> Stuck(g.grid)
    BY <1>1, StuckExactlyWhen
  <1>3. ASSUME NEW direction \in Directions
        PROVE  move(g.grid, direction).moved <=> MeantBoard(g.grid, direction) # g.grid
    BY SlideAsMeant
  <1>4. Rules!CanSlide(g.grid) <=> \E direction \in Directions : MeantBoard(g.grid, direction) # g.grid
    BY DEF Rules!CanSlide
  <1> QED BY <1>2, <1>3, <1>4 DEF Stuck

(* Loading the page goes on with the game that is stored, where the player may
   be asked again after a win, or begins a new one. *)
LEMMA LoadByRules ==
  ASSUME IInv, NEW found \in BOOLEAN, Load(found)
  PROVE  [Rules!RNext]_(Rules!ruleVars)
  <1> DEFINE b == IF found THEN best ELSE 0
  <1>1. CASE found /\ saved # {}
    <2>1. PICK state \in saved : actuate(Reloaded(state), b, {})
      BY <1>1 DEF Load
    <2>2. game' = Reloaded(state)
      BY <2>1 DEF actuate
    <2>3. saved = {state} /\ ~game.over
      BY ReadBack
    <2>4. PICK kept \in BOOLEAN : saved = {StoredAs(game, kept)} /\ (kept => game.keepPlaying)
      BY <2>3 DEF IInv, StorageFollows
    <2>5. state = [grid |-> serialize(game.grid), score |-> game.score, over |-> game.over,
                   won |-> game.won, keepPlaying |-> kept]
      BY <2>3, <2>4 DEF Stored, StoredAs, WithGrid
    <2>6. fromState(serialize(game.grid)) = game.grid
      BY Roundtrip DEF IInv, Fielded
    <2>7. game' = [grid |-> game.grid, score |-> game.score, over |-> game.over,
                   won |-> game.won, keepPlaying |-> kept]
      BY <2>2, <2>5, <2>6 DEF Reloaded, WithGrid
    <2>8. /\ game'.grid = game.grid /\ game'.score = game.score /\ game'.over = game.over
          /\ game'.won = game.won /\ game'.keepPlaying = kept
      BY <2>7
    <2>9. CASE kept
      <3>1. game'.keepPlaying = game.keepPlaying
        BY <2>4, <2>8, <2>9 DEF IInv, Fielded
      <3> QED BY <2>8, <3>1 DEF Rules!ruleVars
    <2>10. CASE ~kept
      <3>1. Rules!AskAgain
        BY <2>8, <2>10 DEF Rules!AskAgain
      <3> QED BY <3>1 DEF Rules!RNext
    <2> QED BY <2>9, <2>10
  <1>2. CASE ~(found /\ saved # {})
    <2>1. NewGame(b, {})
      BY <1>2 DEF Load
    <2> QED BY <2>1, NewGameByRules DEF Rules!RNext
  <1> QED BY <1>1, <1>2

(* A key that moves something is a move by the rules, any other changes no
   more than the previous positions of the tiles. *)
LEMMA PlayByRules ==
  ASSUME BoardInv, NEW direction \in Directions, Play(direction)
  PROVE  [Rules!RNext]_(Rules!ruleVars)
  <1> DEFINE m == move(game.grid, direction)
             after == MeantBoard(game.grid, direction)
  <1>1. Playable(game) /\ ~isGameTerminated(game)
    BY DEF BoardInv, Play
  <1>2. CASE m.moved
    <2>1. PICK cell \in availableCells(m.board), value \in RandomValues :
            actuate(AfterMove(m, WithTile(m.board, cell, value)), best, pending)
      BY <1>2 DEF Play
    <2> DEFINE board == WithTile(m.board, cell, value)
               g == AfterMove(m, board)
    <2>2. Playable(g)
      BY <1>1, MovePlayable
    <2>3. /\ m.board = after /\ m.board # game.grid
          /\ m.score = MeantScore(game.grid, direction)
          /\ m.made = MeantMade(game.grid, direction)
      BY <1>1, <1>2, SlideAsMeant
    <2>4. game' = g
      BY <2>1 DEF actuate
    <2> HIDE DEF m, after
    <2>5. /\ g.grid = board /\ g.score = game.score + m.score
          /\ g.won = (game.won \/ Goal \in m.made) /\ g.keepPlaying = game.keepPlaying
      BY DEF AfterMove
    <2>6. /\ cell \in Cells /\ value \in Rules!RandomTiles /\ after[cell] = Empty
          /\ board = [c \in Cells |-> IF c = cell THEN value ELSE after[c]]
      BY <2>3 DEF availableCells, RandomValues, Rules!RandomTiles, WithTile
    <2> HIDE DEF board, g
    <2>7. g.over <=> ~Rules!CanSlide(g.grid)
      BY <2>2, OverByRules
    <2>8. /\ ~game.over /\ (game.won => game.keepPlaying)
      BY <1>1 DEF isGameTerminated
    <2>9. g.over \in BOOLEAN
      BY <2>2 DEF Playable, Games
    <2>10. Rules!Move(direction)
      BY <2>3, <2>4, <2>5, <2>6, <2>7, <2>8, <2>9 DEF Rules!Move, after
    <2> QED BY <2>10 DEF Rules!RNext
  <1>3. CASE ~m.moved
    <2>1. game' = game
      BY <1>3 DEF Play
    <2> QED BY <2>1 DEF Rules!ruleVars
  <1> QED BY <1>2, <1>3

(* Every step of the game is a step of the rules, or changes nothing they
   speak of. *)
LEMMA StepByRules == BoardInv /\ [Next]_vars => [Rules!RNext]_(Rules!ruleVars)
  <1> SUFFICES ASSUME BoardInv, [Next]_vars PROVE [Rules!RNext]_(Rules!ruleVars)
    OBVIOUS
  <1>1. ASSUME NEW found \in BOOLEAN, Load(found) PROVE [Rules!RNext]_(Rules!ruleVars)
    BY <1>1, LoadByRules DEF BoardInv
  <1>2. CASE restart
    BY <1>2, NewGameByRules DEF restart, Rules!RNext
  <1>3. CASE keepPlaying
    <2>1. game' = [game EXCEPT !.keepPlaying = TRUE] /\ Fielded(game)
      BY <1>3 DEF keepPlaying, BoardInv, IInv
    <2>2. /\ game'.grid = game.grid /\ game'.score = game.score /\ game'.over = game.over
          /\ game'.won = game.won /\ game'.keepPlaying = TRUE
      BY <2>1 DEF Fielded
    <2> QED BY <2>2 DEF Rules!GoOn, Rules!RNext
  <1>4. ASSUME NEW direction \in Directions, Play(direction) PROVE [Rules!RNext]_(Rules!ruleVars)
    BY <1>4, PlayByRules
  <1>5. CASE Frame \/ UNCHANGED vars
    <2>1. game' = game
      BY <1>5 DEF Frame, vars
    <2> QED BY <2>1 DEF Rules!ruleVars
  <1> QED BY <1>1, <1>2, <1>3, <1>4, <1>5 DEF Next

(* The game, with its storage, frames and reloads, implements the game the
   rules describe: on boards of any size and for any winning tile. *)
THEOREM PlaysTheRules == Spec => PlaysByRules
  <1> QED BY InitBoard, NextBoard, InitByRules, StepByRules, PTL DEF Spec, PlaysByRules, Rules!RSpec

-----------------------------------------------------------------------------
(* The classes of an element *)

(* What is left of a list without its i-th element. *)
LEMMA RemovedFromList ==
  ASSUME NEW S, NEW list \in Seq(S), NEW i \in 1 .. Len(list), IsInjective(list)
  PROVE  /\ RemoveAt(list, i) \in Seq(S) /\ IsInjective(RemoveAt(list, i))
         /\ ToSet(RemoveAt(list, i)) = ToSet(list) \ {list[i]}
         /\ Len(RemoveAt(list, i)) = Len(list) - 1
         /\ i > 1 => RemoveAt(list, i)[1] = list[1]
  <1> DEFINE front == SubSeq(list, 1, i - 1)
             back == SubSeq(list, i + 1, Len(list))
             short == front \o back
             n == Len(list)
  <1>1. n \in Nat /\ i \in 1 .. n /\ \A k \in 1 .. n : list[k] \in S
    BY LenProperties, ElementOfSeq
  <1>2. /\ front \in Seq(S) /\ Len(front) = i - 1
        /\ \A k \in 1 .. i - 1 : front[k] = list[k]
    BY <1>1, SubSeqProperties
  <1>3. /\ back \in Seq(S) /\ Len(back) = n - i
        /\ \A k \in 1 .. n - i : back[k] = list[i + k]
    BY <1>1, SubSeqProperties
  <1> HIDE DEF front, back, n
  <1>4. /\ short \in Seq(S) /\ Len(short) = n - 1
        /\ \A k \in 1 .. n - 1 : short[k] = IF k < i THEN list[k] ELSE list[k + 1]
    <2>1. /\ short \in Seq(S) /\ Len(short) = (i - 1) + (n - i)
          /\ \A k \in 1 .. (i - 1) + (n - i) :
                short[k] = IF k <= i - 1 THEN front[k] ELSE back[k - (i - 1)]
      <3>1. /\ short \in Seq(S) /\ Len(short) = Len(front) + Len(back)
            /\ \A k \in 1 .. Len(front) + Len(back) :
                  short[k] = IF k <= Len(front) THEN front[k] ELSE back[k - Len(front)]
        BY <1>2, <1>3, ConcatProperties
      <3> HIDE DEF short
      <3> QED BY <1>2, <1>3, <3>1
    <2> HIDE DEF short
    <2>2. ASSUME NEW k \in 1 .. n - 1 PROVE short[k] = IF k < i THEN list[k] ELSE list[k + 1]
      <3>1. CASE k < i
        BY <1>1, <1>2, <2>1, <3>1
      <3>2. CASE k >= i
        <4>1. k - (i - 1) \in 1 .. n - i /\ i + (k - (i - 1)) = k + 1
          BY <1>1, <3>2
        <4> QED BY <1>1, <1>3, <2>1, <3>2, <4>1
      <3> QED BY <1>1, <3>1, <3>2
    <2> QED BY <1>1, <2>1, <2>2
  <1> HIDE DEF short
  <1>5. DOMAIN list = 1 .. n /\ DOMAIN short = 1 .. n - 1
    BY <1>4, LenProperties DEF n
  <1>6. \A k, l \in 1 .. n : list[k] = list[l] => k = l
    BY <1>5 DEF IsInjective
  <1>7. IsInjective(short)
    <2>1. ASSUME NEW k \in 1 .. n - 1, NEW l \in 1 .. n - 1, k # l PROVE short[k] # short[l]
      <3> DEFINE kk == IF k < i THEN k ELSE k + 1
                 ll == IF l < i THEN l ELSE l + 1
      <3>1. kk \in 1 .. n /\ ll \in 1 .. n /\ kk # ll
        BY <1>1, <2>1
      <3>2. short[k] = list[kk] /\ short[l] = list[ll]
        BY <1>4
      <3> HIDE DEF kk, ll
      <3> QED BY <1>6, <3>1, <3>2
    <2> QED BY <1>5, <2>1 DEF IsInjective
  <1>8. ToSet(short) = ToSet(list) \ {list[i]}
    <2>1. ASSUME NEW k \in 1 .. n - 1 PROVE short[k] \in ToSet(list) \ {list[i]}
      <3> DEFINE kk == IF k < i THEN k ELSE k + 1
      <3>1. kk \in 1 .. n /\ kk # i /\ short[k] = list[kk]
        BY <1>1, <1>4
      <3> HIDE DEF kk
      <3> QED BY <1>1, <1>5, <1>6, <3>1 DEF ToSet
    <2>2. ASSUME NEW k \in 1 .. n, k # i PROVE \E l \in 1 .. n - 1 : short[l] = list[k]
      <3>1. CASE k < i
        BY <1>1, <1>4, <3>1
      <3>2. CASE k > i
        <4>1. k - 1 \in 1 .. n - 1 /\ ~(k - 1 < i) /\ (k - 1) + 1 = k
          BY <1>1, <3>2
        <4> QED BY <1>4, <4>1
      <3> QED BY <1>1, <2>2, <3>1, <3>2
    <2>3. ToSet(short) = {short[k] : k \in 1 .. n - 1} /\ ToSet(list) = {list[k] : k \in 1 .. n}
      BY <1>5 DEF ToSet
    <2> QED BY <2>1, <2>2, <2>3
  <1>9. i > 1 => short[1] = list[1]
    BY <1>1, <1>4
  <1> QED BY <1>4, <1>7, <1>8, <1>9 DEF RemoveAt, short, front, back, n

(* A list with one more element. *)
LEMMA AddedToList ==
  ASSUME NEW S, NEW list \in Seq(S), NEW token \in S, IsInjective(list), token \notin ToSet(list)
  PROVE  /\ Append(list, token) \in Seq(S) /\ IsInjective(Append(list, token))
         /\ ToSet(Append(list, token)) = ToSet(list) \cup {token}
  <1> DEFINE long == Append(list, token)
             n == Len(list)
  <1>1. /\ n \in Nat /\ long \in Seq(S) /\ Len(long) = n + 1
        /\ \A k \in 1 .. n : long[k] = list[k]
        /\ long[n + 1] = token
    BY LenProperties, AppendProperties
  <1>2. DOMAIN list = 1 .. n /\ DOMAIN long = 1 .. n + 1
    BY <1>1, LenProperties
  <1> HIDE DEF long, n
  <1>3. ToSet(long) = {long[k] : k \in 1 .. n + 1} /\ ToSet(list) = {list[k] : k \in 1 .. n}
    BY <1>2 DEF ToSet
  <1>4. ToSet(long) = ToSet(list) \cup {token}
    BY <1>1, <1>3
  <1>5. \A k \in 1 .. n : list[k] # token
    BY <1>3
  <1>6. \A k, l \in 1 .. n : list[k] = list[l] => k = l
    BY <1>2 DEF IsInjective
  <1>7. IsInjective(long)
    BY <1>1, <1>2, <1>5, <1>6 DEF IsInjective
  <1> QED BY <1>1, <1>4, <1>7 DEF long

(* Each operation of the polyfill does to the set of classes what it should,
   for an element none of whose other classes has the token in its name. *)
LEMMA ListLikeNative ==
  ASSUME NEW S, NEW list \in Seq(S), NEW token \in S, NEW within, IsInjective(list),
         token # NoName, <<token, token>> \in within, <<token, NoName>> \notin within,
         Apart(within, list, token)
  PROVE  /\ contains(within, list, token) <=> token \in ToSet(list)
         /\ \A after \in {add(within, list, token), remove(within, list, token), toggle(within, list, token)} :
               after \in Seq(S) /\ IsInjective(after)
         /\ ToSet(add(within, list, token)) = ToSet(list) \cup {token}
         /\ ToSet(remove(within, list, token)) = ToSet(list) \ {token}
         /\ ToSet(toggle(within, list, token)) =
               IF token \in ToSet(list) THEN ToSet(list) \ {token} ELSE ToSet(list) \cup {token}
  <1>1. Len(list) \in Nat /\ ToSet(list) = {list[k] : k \in 1 .. Len(list)}
    BY LenProperties DEF ToSet
  <1>2. contains(within, list, token) <=> token \in ToSet(list)
    BY <1>1 DEF contains, Apart, Names
  <1>3. /\ add(within, list, token) \in Seq(S) /\ IsInjective(add(within, list, token))
        /\ ToSet(add(within, list, token)) = ToSet(list) \cup {token}
    <2>1. CASE token \in ToSet(list)
      BY <1>2, <2>1 DEF add
    <2>2. CASE token \notin ToSet(list)
      BY <1>2, <2>2, AddedToList DEF add
    <2> QED BY <2>1, <2>2
  <1>4. /\ remove(within, list, token) \in Seq(S) /\ IsInjective(remove(within, list, token))
        /\ ToSet(remove(within, list, token)) = ToSet(list) \ {token}
    <2> DEFINE at == {i \in 1 .. Len(list) : list[i] = token}
               first == CHOOSE i \in at : \A j \in at : i <= j
    <2>1. CASE token \notin ToSet(list)
      BY <1>2, <2>1 DEF remove
    <2>2. CASE token \in ToSet(list)
      <3>1. PICK i \in at : TRUE
        BY <1>1, <2>2
      <3>2. \A j \in at : j = i
        BY <3>1, LenProperties DEF IsInjective
      <3>3. first = i
        BY <1>1, <3>1, <3>2
      <3>4. remove(within, list, token) = RemoveAt(list, i)
        <4>1. at # {} /\ contains(within, list, token)
          BY <1>2, <2>2, <3>1
        <4> QED BY <3>3, <4>1 DEF remove
      <3>5. i \in 1 .. Len(list) /\ list[i] = token
        BY <3>1
      <3> HIDE DEF at, first
      <3> QED BY <3>4, <3>5, RemovedFromList
    <2> QED BY <2>1, <2>2
  <1> QED BY <1>2, <1>3, <1>4 DEF toggle

(* The constructor makes a list of names. *)
LEMMA ConstructedList ==
  ASSUME NEW S, NoName \in S, NEW className \in Seq(S)
  PROVE  DOMTokenList(className) \in Seq(S)
  <1> DEFINE N == Len(className)
             Step(f, n) == IF n = 0 THEN <<>>
                           ELSE IF className[n] = NoName THEN f[n - 1] ELSE Append(f[n - 1], className[n])
             Trace(f, n) == f = [k \in 0 .. n |-> Step(f, k)]
             P == {n \in Nat : \E f : Trace(f, n)}
  <1>1. 0 \in P
    <2> DEFINE f == [k \in 0 .. 0 |-> <<>>]
    <2>1. Trace(f, 0)
      OBVIOUS
    <2> QED BY <2>1
  <1>2. ASSUME NEW n \in P PROVE n + 1 \in P
    <2>1. PICK f : Trace(f, n)
      OBVIOUS
    <2> DEFINE g == [k \in 0 .. n + 1 |-> IF k = n + 1 THEN Step(f, n + 1) ELSE f[k]]
    <2>2. n \in Nat
      OBVIOUS
    <2>3. \A k \in 0 .. n + 1 : Step(g, k) = Step(f, k)
      <3>1. ASSUME NEW k \in 0 .. n + 1, k # 0 PROVE g[k - 1] = f[k - 1]
        BY <2>2, <3>1
      <3> HIDE DEF g
      <3> QED BY <3>1
    <2>4. \A k \in 0 .. n : f[k] = Step(f, k)
      <3> HIDE DEF Step
      <3> QED BY <2>1
    <2>5. \A k \in 0 .. n + 1 : g[k] = Step(f, k)
      <3> HIDE DEF Step
      <3> QED BY <2>2, <2>4
    <2>6. g = [k \in 0 .. n + 1 |-> Step(g, k)]
      <3>1. g = [k \in 0 .. n + 1 |-> g[k]]
        OBVIOUS
      <3> HIDE DEF g, Step
      <3> QED BY <2>3, <2>5, <3>1
    <2> HIDE DEF g, Step
    <2> QED BY <2>2, <2>6
  <1>3. P = Nat
    <2> HIDE DEF P
    <2>1. P \subseteq Nat
      BY DEF P
    <2> QED BY <1>1, <1>2, <2>1, SetInduction
  <1>4. N \in Nat /\ \A n \in 1 .. N : className[n] \in S
    BY LenProperties, ElementOfSeq
  <1> DEFINE names == CHOOSE f : Trace(f, N)
  <1>5. Trace(names, N)
    <2>1. \E f : Trace(f, N)
      BY <1>3, <1>4
    <2> HIDE DEF Trace
    <2> QED BY <2>1
  <1>6. DOMTokenList(className) = IF names[N] = <<>> THEN <<NoName>> ELSE names[N]
    BY DEF DOMTokenList
  <1> HIDE DEF names, N
  <1>7. \A n \in 0 .. N : names[n] = Step(names, n)
    <2> HIDE DEF Step
    <2> QED BY <1>5
  <1> DEFINE Q == {n \in 0 .. N : names[n] \in Seq(S)}
  <1>8. 0 \in Q
    <2>1. 0 \in 0 .. N
      BY <1>4
    <2>2. names[0] = <<>>
      BY <1>7, <2>1
    <2>3. <<>> \in Seq(S)
      OBVIOUS
    <2> HIDE DEF Step
    <2> QED BY <2>1, <2>2, <2>3
  <1>9. ASSUME NEW n \in 0 .. N - 1, n \in Q PROVE n + 1 \in Q
    <2>1. n + 1 \in 1 .. N /\ n + 1 # 0 /\ (n + 1) - 1 = n
      BY <1>4
    <2>2. names[n + 1] = IF className[n + 1] = NoName THEN names[n] ELSE Append(names[n], className[n + 1])
      BY <1>7, <2>1
    <2>3. names[n] \in Seq(S) /\ className[n + 1] \in S
      BY <1>4, <1>9, <2>1
    <2>4. Append(names[n], className[n + 1]) \in Seq(S)
      BY <2>3, AppendProperties
    <2>5. names[n + 1] \in Seq(S)
      <3>1. CASE className[n + 1] = NoName
        BY <2>2, <2>3, <3>1
      <3>2. CASE className[n + 1] # NoName
        BY <2>2, <2>4, <3>2
      <3> QED BY <3>1, <3>2
    <2>6. n + 1 \in 0 .. N
      BY <1>4
    <2> HIDE DEF Step
    <2> QED BY <2>5, <2>6
  <1>10. N \in Q
    <2> HIDE DEF Q
    <2>1. 0 .. N \subseteq Q
      BY <1>4, <1>8, <1>9, BoundedInduction
    <2> QED BY <1>4, <2>1
  <1>11. <<NoName>> \in Seq(S)
    OBVIOUS
  <1> QED BY <1>6, <1>10, <1>11

(* On any element, of any classes, the polyfill is a set of classes: contains,
   add, remove and toggle do what classList promises, wherever no other
   class of the element has the name of the token within its own. *)
THEOREM PolyfillIsNative ==
  ASSUME NEW S, NoName \in S, NEW className \in Seq(S), NEW token \in S, NEW within,
         token # NoName, <<token, token>> \in within, <<token, NoName>> \notin within
  PROVE  LikeNative(within, className, token)
  <1> DEFINE list == DOMTokenList(className)
  <1>1. list \in Seq(S)
    BY ConstructedList
  <1> HIDE DEF list
  <1>2. ASSUME IsInjective(list), Apart(within, list, token)
        PROVE  /\ contains(within, list, token) <=> token \in Names(list)
               /\ Names(add(within, list, token)) = Names(list) \cup {token}
               /\ Names(remove(within, list, token)) = Names(list) \ {token}
               /\ Names(toggle(within, list, token)) =
                      IF token \in Names(list) THEN Names(list) \ {token} ELSE Names(list) \cup {token}
               /\ \A after \in {add(within, list, token), remove(within, list, token), toggle(within, list, token)} :
                      IsInjective(after)
    <2>1. /\ contains(within, list, token) <=> token \in ToSet(list)
          /\ \A after \in {add(within, list, token), remove(within, list, token), toggle(within, list, token)} :
                IsInjective(after)
          /\ ToSet(add(within, list, token)) = ToSet(list) \cup {token}
          /\ ToSet(remove(within, list, token)) = ToSet(list) \ {token}
          /\ ToSet(toggle(within, list, token)) =
                IF token \in ToSet(list) THEN ToSet(list) \ {token} ELSE ToSet(list) \cup {token}
      BY <1>1, <1>2, ListLikeNative
    <2> QED BY <2>1 DEF Names
  <1> QED BY <1>2 DEF LikeNative, list

(* In particular on the sample elements. *)
LEMMA ManyElementsLikeNative == ManyElements
  <1> SUFFICES ASSUME NEW within \in SomeWithin, NEW className \in SomeClassNames, NEW token \in SomeTokens
               PROVE  LikeNative(within, className, token)
    BY DEF ManyElements
  <1> DEFINE S == SomeTokens \cup {NoName}
  <1>1. className \in Seq(S)
    <2>1. PICK n \in 0 .. 3 : className \in [1 .. n -> S]
      BY DEF SomeClassNames
    <2> HIDE DEF S
    <2> QED BY <2>1
  <1>2. token # NoName /\ <<token, token>> \in within
    BY DEF SomeTokens, NoName, SomeWithin
  <1>3. <<token, NoName>> \notin within
    <2>1. \A pair \in within : pair[2] \in SomeTokens
      BY DEF SomeTokens, SomeWithin
    <2>2. <<token, NoName>>[2] = "" /\ "" \notin SomeTokens
      BY DEF SomeTokens, NoName
    <2> QED BY <2>1, <2>2
  <1> HIDE DEF S
  <1>4. NoName \in S /\ token \in S
    BY DEF S
  <1> QED BY <1>1, <1>2, <1>3, <1>4, PolyfillIsNative

(* An injective list with one element is that element. *)
LEMMA SingletonList ==
  ASSUME NEW S, NEW list \in Seq(S), NEW x, IsInjective(list), ToSet(list) = {x}
  PROVE  list = <<x>>
  <1>1. Len(list) \in Nat /\ DOMAIN list = 1 .. Len(list) /\ ToSet(list) = {list[k] : k \in 1 .. Len(list)}
    BY LenProperties DEF ToSet
  <1>2. \A k \in 1 .. Len(list) : list[k] = x
    BY <1>1
  <1>3. Len(list) # 0
    <2>1. Len(list) = 0 => ToSet(list) = {}
      BY <1>1
    <2> QED BY <2>1
  <1>4. ~(Len(list) > 1)
    <2> SUFFICES ASSUME Len(list) > 1 PROVE FALSE
      OBVIOUS
    <2>1. 1 \in DOMAIN list /\ 2 \in DOMAIN list /\ list[1] = list[2]
      BY <1>1, <1>2
    <2> QED BY <2>1 DEF IsInjective
  <1>5. Len(list) = 1 /\ list[1] = x
    BY <1>1, <1>2, <1>3, <1>4
  <1>6. <<x>> \in Seq(S) /\ Len(<<x>>) = 1 /\ <<x>>[1] = x
    BY <1>5, ElementOfSeq
  <1> QED BY <1>5, <1>6, SeqEqual

(* The message element: what continueGame leaves of it, and what a frame adds. *)
LEMMA MessageElement ==
  ASSUME message \subseteq Messages, NEW list \in Element
  PROVE  /\ Cleared(list) = <<"game-message">>
         /\ \A type \in Messages : Names(Announcing(list, type)) = {"game-message", type} \cup message
  <1> DEFINE S == Messages \cup {"game-message"}
  <1>1. PICK order \in SetToSeqs(message) : list = <<"game-message">> \o order
    BY DEF Element
  <1> DEFINE n == Cardinality(message)
  <1>2. n \in Nat /\ IsFiniteSet(message)
    <2>1. Messages = {"game-won"} \cup {"game-over"}
      BY DEF Messages
    <2>2. IsFiniteSet(Messages)
      BY <2>1, FS_Singleton, FS_AddElement
    <2> QED BY <2>2, FS_Subset, FS_CardinalityType
  <1>3. order \in [1 .. n -> message] /\ \A i, j \in 1 .. n : i # j => order[i] # order[j]
    BY <1>1 DEF SetToSeqs
  <1> HIDE DEF n
  <1>4. order \in Seq(S) /\ Len(order) = n /\ <<"game-message">> \in Seq(S)
    BY <1>2, <1>3
  <1> HIDE DEF S
  <1>5. /\ list \in Seq(S) /\ Len(list) = 1 + n /\ list[1] = "game-message"
        /\ \A k \in 2 .. n + 1 : list[k] = order[k - 1]
    <2> DEFINE own == <<"game-message">>
    <2>1. own \in Seq(S) /\ Len(own) = 1 /\ own[1] = "game-message"
      BY <1>4
    <2>2. list = own \o order
      BY <1>1
    <2> HIDE DEF own
    <2>3. /\ list \in Seq(S) /\ Len(list) = Len(own) + Len(order)
          /\ \A k \in 1 .. Len(own) + Len(order) :
                list[k] = IF k <= Len(own) THEN own[k] ELSE order[k - Len(own)]
      BY <1>4, <2>1, <2>2, ConcatProperties
    <2> QED BY <1>2, <1>4, <2>1, <2>3
  <1>6. \A x \in message : \E k \in 1 .. n : order[k] = x
    <2>1. order \in Injection(1 .. n, message)
      BY <1>3 DEF Injection, IsInjective
    <2>2. IsFiniteSet(1 .. n) /\ Cardinality(1 .. n) = n
      BY <1>2, FS_Interval
    <2>3. order \in Surjection(1 .. n, message)
      BY <1>2, <2>1, <2>2, FS_Injection DEF n
    <2> QED BY <2>3 DEF Surjection
  <1>7. "game-message" \notin message
    BY DEF Messages
  <1>8. IsInjective(list)
    <2>1. DOMAIN list = 1 .. n + 1
      BY <1>2, <1>5, LenProperties
    <2>2. \A k \in 2 .. n + 1 : k - 1 \in 1 .. n /\ list[k] \in message
      BY <1>2, <1>3, <1>5
    <2>3. \A k, l \in 2 .. n + 1 : list[k] = list[l] => k = l
      BY <1>2, <1>3, <1>5, <2>2
    <2>4. \A k \in 1 .. n + 1 : k = 1 \/ k \in 2 .. n + 1
      BY <1>2
    <2> QED BY <1>5, <1>7, <2>1, <2>2, <2>3, <2>4 DEF IsInjective
  <1>9. ToSet(list) = {"game-message"} \cup message
    <2>1. ToSet(list) = {list[k] : k \in 1 .. n + 1}
      BY <1>2, <1>5, LenProperties DEF ToSet
    <2>2. \A k \in 1 .. n : list[k + 1] = order[k] /\ k + 1 \in 1 .. n + 1
      BY <1>2, <1>5
    <2>3. \A k \in 1 .. n + 1 : k = 1 \/ (k - 1 \in 1 .. n /\ list[k] = order[k - 1])
      BY <1>2, <1>5
    <2>4. 1 \in 1 .. n + 1
      BY <1>2
    <2> QED BY <1>3, <1>5, <1>6, <2>1, <2>2, <2>3, <2>4
  <1>10. \A t \in S : /\ t # NoName /\ <<t, t>> \in OwnName /\ <<t, NoName>> \notin OwnName
                      /\ \A other : Apart(OwnName, other, t)
    <2>1. OwnName = {<<t, t>> : t \in S}
      BY DEF OwnName, S
    <2>2. \A t \in S : t # NoName
      BY DEF S, Messages, NoName
    <2>3. \A t, u : t # u => <<t, u>> \notin OwnName
      BY <2>1
    <2> QED BY <2>1, <2>2, <2>3 DEF Apart, Names
  <1>11. "game-won" \in S /\ "game-over" \in S /\ "game-message" \in S /\ Messages \subseteq S
    BY DEF S, Messages
  <1>12. ASSUME NEW l \in Seq(S), NEW t \in S, IsInjective(l)
         PROVE  /\ remove(OwnName, l, t) \in Seq(S) /\ IsInjective(remove(OwnName, l, t))
                /\ ToSet(remove(OwnName, l, t)) = ToSet(l) \ {t}
                /\ ToSet(add(OwnName, l, t)) = ToSet(l) \cup {t}
    <2>1. t # NoName /\ <<t, t>> \in OwnName /\ <<t, NoName>> \notin OwnName /\ Apart(OwnName, l, t)
      BY <1>10
    <2> QED BY <1>12, <2>1, ListLikeNative
  <1>13. Cleared(list) = <<"game-message">>
    <2> DEFINE one == remove(OwnName, list, "game-won")
               two == remove(OwnName, one, "game-over")
    <2>1. one \in Seq(S) /\ IsInjective(one) /\ ToSet(one) = ToSet(list) \ {"game-won"}
      BY <1>5, <1>8, <1>11, <1>12
    <2> HIDE DEF one
    <2>2. two \in Seq(S) /\ IsInjective(two) /\ ToSet(two) = ToSet(one) \ {"game-over"}
      BY <1>11, <1>12, <2>1
    <2> HIDE DEF two
    <2>3. ToSet(two) = {"game-message"}
      BY <1>9, <2>1, <2>2 DEF Messages
    <2>4. two = <<"game-message">>
      BY <2>2, <2>3, SingletonList
    <2> QED BY <2>4 DEF Cleared, one, two
  <1>14. ASSUME NEW type \in Messages
         PROVE  Names(Announcing(list, type)) = {"game-message", type} \cup message
    <2>1. ToSet(Announcing(list, type)) = ToSet(list) \cup {type}
      BY <1>5, <1>8, <1>11, <1>12 DEF Announcing
    <2>2. NoName \notin S /\ message \subseteq S
      BY <1>10, <1>11
    <2> QED BY <1>9, <1>11, <2>1, <2>2 DEF Names
  <1> QED BY <1>13, <1>14

(* In a browser without classList the message element gets the same classes,
   in whichever order they came, and the polyfill does so in general. *)
THEOREM PolyfillInStep == Spec => []PolyfillLikeNative
  <1>1. BoardInv => PolyfillLikeNative
    BY ManyElementsLikeNative, MessageElement DEF BoardInv, TypeOK, PolyfillLikeNative
  <1> QED BY <1>1, InitBoard, NextBoard, PTL DEF Spec

=============================================================================
