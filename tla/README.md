# Verification models

TLA+ models of the programs in this repository, their TLC configurations, and
proofs for TLAPS. The repository is a set of assignments, each with its own
program; this directory takes the ones with state that several actors share or
that has to survive something, and says for each what must hold.

Paths below are relative to the repository root. `P5` stands for `CA2/P5`,
`voting-app` for `CA3/P1/Bibi/voting-app`, `2048` for `CA3/P1/Bibi/2048`.

## 1. Inventory

### 1.1 LIFO character driver (`P5/lifo_driver.c`)

- State: a linked list of characters (`lifo_stack`), its size (`total_size`,
  at most `LIFO_MAX_SIZE`), one mutex, one wait queue for readers.
- Operations: `read()` on `/dev/lifo_read`, `write()` on `/dev/lifo_write`,
  and loading and unloading of the module.
- Interaction: any number of processes call at once. The list is changed under
  the mutex, but looked at without it twice in `lifo_read` (lines 85 and 89).
- Hard: those unlocked looks; loops of single list operations that have to
  seem whole; allocations and copies that fail halfway; signals; one wake-up
  for several sleepers; early returns inside the mutex, four of `lifo_read` and
  two of `lifo_write`.
- Correct when: the mutex is held exactly between lock and unlock, size and
  list agree, whole reads and writes take effect as on a stack, return values
  are true, nobody sleeps beside data, calls come back.

### 1.2 Voting application

- `voting-app/vote/app.py`: Flask. Gives a browser a random `voter_id` cookie
  and pushes `{voter_id, vote}` on the Redis list `votes`. State: the cookies
  (in the browsers) and the list.
- `voting-app/worker/Program.cs`: pops the list and stores one row per
  voter in Postgres, INSERT first and UPDATE when that fails. State: the vote
  in hand, a database connection, a prepared keep-alive command. Exits on any
  exception; reconnects when it finds the connection closed.
- `voting-app/result/server.js`: connects to Postgres with up to 1000 attempts
  and then polls for ever, once a second, over that one connection; each
  answer is counted and emitted to every connected page. A page is greeted with
  `message` when its socket connects. State: the connection, the query under way.
- `voting-app/result/views/app.js`: every `message` registers a handler for
  `scores`; a handler shows two bars and the total. State: the handlers, what
  is shown.
- `voting-app/docker-stack.yml`, `CA3/P1/Bibi/docker-compose.yml`, `CA1/P4`:
  how many workers there are and whether they are restarted.
- Interaction: browser, HTTP, Redis list, worker replicas, table, poll, socket.
- Hard: answers that arrive late and set an old cookie; votes that exist only in
  the memory of a worker; replicas that overtake each other; statements that
  were executed although the answer was lost; a dead connection noticed only
  later; restarts; pages that join, leave and come back while a query runs.
- Correct when: a browser has one vote, the last vote of a voter wins, a fault
  loses one vote at most and nothing else loses any, the list drains; a page shows what the table held,
  never goes back, and catches up; the bars tell the shares.

### 1.3 2048

- `2048/js/game_manager.js`, `grid.js`, `tile.js`: the board, moves, score, end.
- `local_storage_manager.js`: game and best score in the browser's storage, or in
  an object that lasts as long as the page.
- `html_actuator.js`: draws in the next animation frame, moves tiles in the one
  after it; the message of a win or a loss is put up in the frame and cleared
  at once.
- `keyboard_input_manager.js`: keys, swipes and buttons become the events
  `move`, `restart` and `keepPlaying`. State: where the last touch began.
- `classlist_polyfill.js`: `classList` for browsers without it, on the text of
  `className`.
- `application.js`: starts the game in the first animation frame.
- Hard: the order of traversal and the one-merge-per-tile rule; the end of the
  game decided beside the move; reloads at any moment; events between a move
  and its frame; several fingers, touches outside the board, cancelled ones,
  clicks that follow taps.
- Correct when: a move does to each line what the game says, the score tells
  the board, the game is over exactly when nothing can move; storage, screen and
  message follow the game; a swipe moves the way the finger went, a gesture moves
  once, a press counts once.

### 1.4 Resource manager (`CA1/P3/resource_manager`)

- State: time of the last message; the processes of the machine, two logs.
- Operation: a loop; each turn samples the load and above a threshold picks the
  process with the highest share, stops it or (memory) kills it.
- Hard: the process list is a snapshot, processes exit or stop meanwhile; no
  victim at all crashes the daemon (line 42 on `None`), systemd restarts it and
  it forgets the cooldown.
- Correct when: never itself, never a pid below 500, at most one message per
  cooldown and life, memory pressure kills, CPU pressure only stops.

### 1.5 SYN scan detector (`CA3/P3/main.py`)

Counts SYN and SYN-ACK per address over a file of packets and reports the
addresses with more than three times as many SYNs. Sequential, no failure paths.

### 1.6 Scripts, configuration, the rest

Backup scripts, an SSH client, Swarm and Kubernetes provisioning, Ansible and
nginx configuration, a hello kernel module, a signal exercise, notebooks,
vendored libraries. No state worth a model; two hazards of the scripts are
recorded in `PROJECT.json` (a crontab overwritten, a waiting loop that counts
exactly five lines).

## 2. Modules

| Module | Models | Extends |
| --- | --- | --- |
| `LifoAbstract` | what the driver promises: a stack on which a read or a write takes effect at one moment | |
| `Lifo` | `lifo_read` and `lifo_write`, path by path | |
| `MCLifo` | instances for TLC | `Lifo` |
| `LifoProofs` | inductive invariant and safety theorems | `Lifo` |
| `LifoRefinement` | `Lifo` implements `LifoAbstract` | `LifoProofs` |
| `VoteTable` | what the vote path promises: a table that holds for every voter a vote of theirs, replaced by later ones only | |
| `Voting` | browsers, `app.py`, Redis list, `Program.cs`, table | |
| `MCVoting` | instances for TLC | `Voting` |
| `VotingProofs` | types | `Voting` |
| `VotingOrder` | order of votes, loss of votes, `Voting` implements `VoteTable` with one worker | `VotingProofs` |
| `Result` | result server, sockets, pages, Postgres as they use it | `VoteTable` |
| `MCResult` | instance for TLC | `Result` |
| `ResultProofs` | types, greeting, truth and order of what is shown, the bars | `Result` |
| `Grid2048` | the board, the move of the code, the move as meant | |
| `ClassList` | the polyfill, and what `classList` promises | |
| `Rules2048` | the game by its rules alone: what the player may do and what comes of it | |
| `Game2048` | the game manager, the storage, the screen and the message; implements `Rules2048` | `Grid2048`, `ClassList` |
| `MCGame2048` | instance for TLC, the move on larger boards | `Game2048` |
| `GridProofs` | the move of the code, whatever the board, against the move as meant | `Grid2048` |
| `Game2048Proofs` | the game on every board: storage, screen, types, score, end, moves, rules, class lists | `Game2048`, `GridProofs` |
| `Input2048` | keys, fingers, clicks | |
| `MCInput2048` | instance for TLC | `Input2048` |
| `InputProofs` | types, swipes, gestures, presses | `Input2048` |

The two halves of the voting application meet in `VoteTable`: `Voting` implements
it when there is one worker, and `Result` is built on it, so that what the result
page promises holds whatever browsers, worker and faults do to the table. With
the two workers of `docker-stack.yml` that overtake each other the table itself goes
back (`voting_replicas`), and a page then shows that.

Definitions whose comment begins with "Altered" are plausible bugs. They are
used by no specification; `PROJECT.json` pairs each with the property that
notices it when it stands in for the real definition.

### 2.1 Lifo

One action per stretch of code between two points at which another process can
see a difference. Under the mutex that is still one character at a time,
because the tests at lines 85 and 89 look at the list without the mutex.

| Code | Actions |
| --- | --- |
| `lifo_read` 84-86, O_NONBLOCK | `ReadCheckEmpty`, `ReadCheckPassed` |
| 88-90, wait | `ReadWait`, `ReadInterrupted` (`ReadSignalled`) |
| 92, lock | `ReadLock` |
| 94-112 | `ReadNothing`, `ReadNoMemory`, `ReadAllocated` |
| 114-121, pops | `ReadPop` |
| 123-134 | `ReadCopied`, `ReadFault` (`CopiedInPart`) |
| `lifo_write` 143-159 | `WriteRefused`, `WriteCall` |
| 161-168 | `WriteLock`, `WriteNoSpace`, `WriteHasSpace` |
| 171-186, pushes | `WritePush`, `WriteCutShort` |
| 188-195 | `WriteUnlock`, `WriteWake` |

`wait_event_interruptible` tests its condition again after the process is on the
queue, so the test and the sleep are one step. `wake_up_interruptible` sends
every sleeper back to that test. It looks at the condition before the signal, so
a signal ends a read only while the list is empty. `copy_to_user` answers how much it
did not copy: on `-EFAULT` any part of what was asked for, but not all of it, has
reached the caller, and the rest is lost. On the abstract stack that is `Lose`, a
read that takes its characters and hands over fewer. Histories: `user_buffer`, `pushed` and `ret` of
a finished call are kept until the next one; `unannounced` says that a write
cut short has stored characters since the last wake-up.

### 2.2 Voting

Requests carry the cookie as it was when they were sent and answers overwrite
it. A vote carries its place in the order of pushes, which is how "older" and
"newer" are told apart; the code has no such number. Histories: `raced`, the voters for
whom two workers held votes at once, and `wiped`, the votes that Redis lost with its
list.

| Code | Actions |
| --- | --- |
| browser | `OpenPage`, `PostVote`, `Answer`, `AnswerLost` |
| `app.py` 24-47 | `ServePage`, `ServeVote`, `ServeVoteTimesOut` |
| `Program.cs` 17-28 | `Start` |
| 34-43, 56-59 | `Pop`, `PopThrows`, `KeepAliveThrows` |
| 46-54 | `CheckState`, `Reconnect` |
| `UpdateVote` 133-152 | `Insert`, `InsertThrows`, `InsertRefused`, `InsertUnanswered`, `Update`, `UpdateUnanswered`, `UpdateThrows` |
| 62-66, orchestrator | `Exit` in every action that throws, `Crash`, `Restart` |
| Redis, Postgres | `LoseConnection`, `NoticeLoss`, `LoseList` |

Assumptions. Fresh voter ids differ (`app.py:28` drops the last hex digit of a
random 64 bit number, which leaves 60 bits). A statement sent on a connection
that breaks is executed or not, never half. The start of a worker, which waits
for both databases and creates the table, is one step; two workers that create
the table at once, where Postgres may refuse one, is one of the cases of
`Crash`. Redis, Postgres and the network are outside the repository and modelled
as this code uses them; each thing that goes wrong with them counts in `faults`.

### 2.3 Result

A snapshot `at` says which vote each row held when the rows were counted. It
travels with the counts, from the query to the page; the code has only the counts.

| Code | Actions |
| --- | --- |
| `server.js` 28-45, `async.retry` | `ConnectFails`, `ConnectOk` |
| 47-48, the query | `RunQuery`, `QueryRefused` |
| 49-56, its callback and the timer | `Callback`, `Timer` |
| 11-18, `io.on('connection')` | `Load`, `Reconnect` |
| `app.js` 11-36 | `Deliver` (`OnMessage`, `OnScores`) |
| vote path | `CastVote`, `RecordVote`, `CreateTable` |
| Postgres, network, process, sockets | `StopDb`, `StartDb`, `LoseClient`, `NoticeLoss`, `Crash`, `Restart`, `Disconnect` |

A connection that breaks is "lost". Either the loss is noticed, which is an
`error` event of the client: `server.js` listens to none and a client that is
checked out of its pool has no other listener, so the process ends
(`NoticeLoss`). Or nobody notices, the query is never answered, and the poll
stops where it is. The model lets both happen at any time. `ConnectFails` stands
for one attempt; the time between attempts is left out. After the last one
the server keeps serving pages. `Math.round` of a floating-point quotient is a
choice between the two neighbours only where the share lies half way between them.
The page registers its handlers when Angular has started; a greeting that came
before that would find no handler and the page would stay as it is. The script
opens the socket and registers in the same load, so the model has the
page ready when it connects.

### 2.4 2048

`Grid2048!move` visits the cells in the order of `buildTraversals` and treats
each tile as `game_manager.js` does (`VisitCell`, `CanMerge`, `Merged`,
`MovedTo`); `Visits` is what has been done after each cell. `MovesAsMeant` says
what a move is meant to do without any order of visiting. In a line the tiles
are counted within their run of equal ones: the odd ones lead, the even ones
join the one before (`Leads`). The place of a tile is the number of those that
lead up to it (`Target`), so each place gets one tile or two of a kind
(`Sent`, `Pushed`), and the score what the places with two have gained (`Gains`).
The board, the score and the tiles made after it are `MeantBoard`, `MeantScore`, `MeantMade`.

`Rules2048` is the game as the player knows it: two tiles to begin with, slides
that change the board, a random tile after each, a win when the goal is made, the end
when no slide is left. The slide is a parameter, and `Game2048` fills in the move as meant,
so that neither the traversal, nor the code's test for a lost game, nor storage,
frames and messages occur on the abstract side. Of the last three the rules know
only that the player can be made to go on (`GoOn`) or be asked again (`AskAgain`): the code
keeps the choice to go on in the storage with the next move only. `GoOn` has no condition,
because the code has one only while frames are in step with the game
(`game_stale_win`); `GoesOnWhenAsked` says how far it can be relied on.

| Code | Actions |
| --- | --- |
| `GameManager.setup` with the storage, `LocalStorageManager` | `Load` |
| `restart` | `restart` |
| `keepPlaying` | `keepPlaying` |
| `move`, `prepareTiles`, `addRandomTile`, `actuate` | `Play` |
| `HTMLActuator.actuate` and `addTile`, the callbacks of the frames | `Frame` |

Every call of the actuator requests a frame and the callbacks run in that order;
the later ones draw over the earlier, but messages add up. So `pending` keeps
one record: the scores of the last call and the messages of all. The tiles are
those of the grid when the callback runs, because it holds the grid and not a
copy. A tile is kept with its position, at which it is drawn and from which it is
removed; `fromState` has a tile on the board where that is the cell it was found in.
`Load` with `found` false is a page that finds nothing, because the browser has emptied
its storage or has none and the page uses its own (`fakeStorage`). A browser whose
storage comes and goes, and that keeps an older game meanwhile, is left out. Histories: `fours` counts the random fours, which the score does not see;
`stale` says that a message was cleared while a frame was still to come.

`ClassList` has no actions: the list is made anew from `className` at every use.
Which names contain each other as text is a parameter, and `LikeNative` says when
the polyfill is a set of classes. `PolyfillLikeNative` adds what the actuator
does with it: the classes of the message element (`Element`), cleared and set.

### 2.5 Input

| Code | Actions |
| --- | --- |
| `keydown` 53-69 | `Key` |
| `touchstart` 80-95 | `TouchStart` |
| `touchend` 101-127 and the buttons' 143 | `TouchEnd` |
| `html_actuator.js` 14, 43-47, a frame that draws the board anew | `Redraw` |
| nothing listens to `touchcancel` | `TouchCancel` |
| `click` 142 | `TapClick`, `MouseClick` |

A touch event goes to the element the finger came down on, the button before the
container that holds it. Two of the buttons lie in the container, "New Game"
outside. The browser may click after a tap of one finger that nobody prevented.
`touchStartClientX` and `touchStartClientY` are one point, `start`, undefined until
the first touch. History: `gesture` counts, from the first finger down, the
touches, the moves, the presses of buttons and the events that came of them, and keeps
where it began if it began in the container.

A tile is an element of its own inside the container. Every frame that draws the
board removes the tiles and makes new ones, and a touch still belongs to the element
it began on: when that has left the page ("gone"), the end of the touch reaches
neither the container nor anybody else. So a swipe that begins on a tile and
is overtaken by a redraw moves nothing. `SwipeIsHonest` makes an exception of that swipe and
of no other; it speaks of the ones after it too.

Fingers go up one at a time: two on different elements that are lifted in the same
frame would each find that no touch is left, and the gesture would move twice.
Seen in the model and left as it is: the last finger of a pinch moves
the tiles from where the first one came down, a finger that drags off "Try again"
restarts the game and moves, and a gesture that begins outside the container and
ends in it moves from a start that is long past. The comments at lines 83 and 104
speak of several fingers, but only of an event while they are down; whether the last one up
may move is left open.

## 3. Runs

| Run | Question | Instance | Result |
| --- | --- | --- | --- |
| `lifo` | mutex and its return, size, return values, wake-ups, order; does the driver implement the stack | 2 readers, 1 writer, 2 characters, capacity 2, reads up to 2, writes up to 3 | holds |
| `lifo_live` | do calls return, are sleepers woken | 1 reader, 2 writers, 1 character, capacity 2 | holds |
| `lifo_missed_wakeup` | "Wake up any reading processes" | 2 readers, 1 writer, capacity 2 | violated |
| `lifo_nonblocking_sleeps` | "Handle non-blocking mode" | the same | violated |
| `voting` | order of votes, votes lost to each fault, does the last one count | 1 browser, 2 workers, 2 ids, 4 requests, 1 fault | holds |
| `voting_live` | does the list drain; is it the table of last votes | 1 browser, 1 worker, 2 faults | holds |
| `voting_browser` | "one vote per client browser" | 1 worker, no fault | violated |
| `voting_replicas` | "you can change your vote" | 2 workers, no fault | violated |
| `result` | is what a page shows true, in order, and up to date; do the bars tell | 2 voters, 2 votes, 1 page, 2 connections of it, 2 faults, counts to 24 | holds |
| `game` | moves, score, end, storage, screen, message, going on after a win, polyfill; is it the game of `Rules2048` | board 2 x 2, goal 4, 2 games or loads, 2 calls between frames, moves from a score below 5 | holds |
| `game_stale_win` | "Keep playing after winning" | as `game` | violated |
| `input` | swipes, gestures, presses, with tiles redrawn under the fingers | 2 fingers, 4 points, 3 touches in a gesture | holds |

### 3.1 Why the bounds are enough

- Lifo: capacity 2 with writes of up to 3 covers a write below, at and above the
  capacity and one that does not fit beside another; two readers make the races
  for one character, two different characters tell the order. Two writers race
  for the room in `lifo_live`. Symmetry is used in the run without liveness only.
- Voting: two workers and two voters are the least with which one overtakes the
  other on one voter and leaves the other voter alone. Four requests are a page,
  a vote, a page and a vote, or two pages and two votes. One fault of every kind
  at every moment, which shows that it costs one vote at most; that faults do not add up to
  more is proved for any number (`NoVoteLost`). Two in the liveness run, so that a fault can
  hit the recovery from the first one. One browser is enough for two voters because it gets two
  ids when it loads the page twice at once or loses an answer.
- Result: two votes by one voter are a change, by two voters two rows. Two
  connections of a page are a load and a reconnection or two loads; two messages
  under way are the greeting and scores behind it, or scores of two polls. Two
  faults, so that one can hit what the first one left. Pages do not touch each
  other: one is enough in the run, and the proofs have any number. Two attempts
  stand for 1000. The percentages are compared with the shares for all
  counts up to 24, with halves, thirds and everything that rounds either way.
- 2048: on 2 x 2 games are short. With 4 as the goal and moves from a score
  below 5 there are wins and losses, games that go on after a win, and boards with
  no move left; two games or loads give a restart or reload in each state, two
  calls between frames a frame that is overtaken. The rule "one merge per tile"
  needs three tiles in a line, which the games of the run do not have:
  `LongerLikeReference` looks at the move on all boards of 2 x 2 up to 8, all of 3 x 3 with
  twos and all lines of four of the values 2, 4 and 8. The polyfill is compared with a set for all elements
  of up to three classes and every way three names can contain each other; nothing is
  claimed of an element that has a class whose name contains the token without being it
  (`Apart`), for there the polyfill takes one for the other.
- Input: the four points make differences of both signs, below and above the
  threshold of ten and with either axis longer. Three touches of two fingers are a
  second finger that comes and goes, and the first that comes back beside it.

### 3.2 Fairness

- Lifo: weak fairness of the processes (the scheduler runs a process that is
  not asleep) and strong fairness of taking the mutex (a kernel mutex hands
  itself to its waiters, so nobody is overtaken for ever). Calls and signals are
  not fair: nobody has to write, and a reader may sleep for ever on an empty list.
- Voting: weak fairness of the steps of a worker and of its restart: Swarm
  restarts a service by default and Kubernetes restarts a pod;
  `docker-compose.yml` has no policy for the worker, and under it the
  property is not claimed. Browsers, answers and faults are not fair.
- Result: weak fairness of the steps of the server (an event loop that is not
  blocked, a timer that fires) and of the delivery to each page. Postgres need
  not start again, processes need not be restarted, pages need not connect; so
  `PagesCatchUp` is claimed for a page while its own connection and the server's
  connection to the database hold.
- 2048: no liveness; an animation frame may be late, and nobody has to play.

### 3.3 Deadlock

Checked in the Lifo and input runs: a call can always be made or signalled, a key
always pressed. Not in the voting, result and 2048 runs, which stop when the
requests, votes, connections or games are used up.

## 4. Disagreements between code and text

1. `lifo_missed_wakeup`: when memory runs out in the middle of a write, lines
   174-178 of the driver return the short count without waking the readers.
   `MissedOnlyByShortWrite` shows that this is the only way.
2. `lifo_nonblocking_sleeps`: `O_NONBLOCK` is tested with the list and without
   the mutex; when another reader takes the last character in between, the
   call sleeps.
3. `voting_browser`: `voting-app/README.md:61` promises one vote per browser and
   says that a further one is not registered. Two page loads at once give the
   browser two ids in turn and two counted votes; and a vote under the same id
   does not fall away but replaces the first (`Program.cs:145`).
4. `voting_replicas`: with the two workers of `docker-stack.yml` a changed vote
   can be overwritten by the one before.
5. `game_stale_win`: a restart between a winning move and its frame is overtaken
   by the frame; the message of the old win covers the new game, and its "Keep
   going" turns off the new game's own win. `GoesOnWhenAsked` shows that a message
   cleared before its frame is the only way to this.

One more loss needs no run to be seen: the branch of `Program.cs` that reconnects
(46-50) drops the vote it has just popped. In `Voting` it is the action
`Reconnect`. `OneVotePerFault` charges such a vote to the fault that broke the
connection, which may have been long before, and says that this one vote is all it costs.

## 5. Proofs

All are for every value of the constants that satisfies the named assumptions
of the modules (for Lifo: readers and writers are different, the capacity is
positive; for Voting: the bounds are natural numbers; for Result: the voters are
finitely many and the two options differ; for 2048: a board has at least one cell,
and at least one game and one call are allowed; for Input: points are pairs of
integers).

- `LifoProofs`. The safety properties are not inductive one by one: that the
  size stays within the capacity rests on the room tested before the pushes
  still being there, that the copied buffer is full rests on the characters
  counted before the pops still being there, and both on nobody else having the
  mutex. `IInv` is their conjunction with `Bookkeeping`, which says what each
  call in progress still owes the list. Theorems: `TypeCorrect`,
  `MutualExclusion`, `SizeNeverLies`, `NoUninitialisedCopy`, `ReturnValues`,
  `WakeUps`, `Accounts` (`Bookkeeping` itself). `MutexGivenBack` is the safety half
  of `CallsReturn`: the steps its holder has left
  (`StepsLeft`) are between one and the capacity and two, each of its steps leaves
  fewer, the last one unlocks, and nobody else's step changes them. It needs one fact
  `IInv` does not have, that what a write keeps of its text is no longer than the
  capacity (`Short`), which is an invariant of its own.
- `LifoRefinement`. The characters a write in progress has stored, or a read in
  progress has yet to take, are left out of the abstract stack; so a write
  takes effect when it unlocks and a read when it has fixed its size. `Order`
  is needed first: what a writer has stored lies on top, in order.
- `VotingProofs`, `VotingOrder`. Types first. Then `InOrder`, which is nearly
  inductive: list, hands and rows are recorded votes, the list is increasing and
  later than everything outside it, and a worker that nobody raced holds the
  newest of its voter. Steps are sorted into the few kinds that matter to it
  (a push, a pop, a store, a drop, nothing), so that each action is looked at only
  once. `NeverGoesBack` follows from it. `NoVoteLost` counts. A broken connection costs
  nothing when it breaks but the vote in hand when the worker finds out, so the bound on the
  votes lost is not inductive. What is (`Ledger`): the votes lost and the workers that
  are bound to lose one (`Doomed`) are together no more than the faults. Each step loses no
  vote, or one while a doomed worker is doomed no longer, or is a fault that
  loses one vote or dooms one worker (`Charged`). `OneWorkerNeverRaces` shows that
  with one worker the exception for overlaps never applies; with it and `InOrder`,
  `OneWorkerImplementsTable` maps every step to a vote cast, a row recorded or a
  stutter of `VoteTable`. `LastVotesCounted` joins the two lines: without faults nothing is lost, and
  nothing older stays, so when all votes are handled the row of a voter for whom no two
  workers raced holds the last one. That a vote which is the last of its voter is in the
  row by then needs `Numbered`: a recorded vote carries its place in the order of pushes.
- `ResultProofs`. That a page shows the truth and never goes back is not
  inductive: it rests on what is under way to it. The invariant is a chain: what
  a page shows is no later than the first message under way, each of those no later
  than the next, the last no later than the answer of the query, and that no
  later than the table; and each of them is a true count of the votes cast. Rows of the
  table only grow (`VoteTable`) and a connection that ends takes its messages with
  it, which keeps the chain. `WelcomeFirst` needs less: in front of any scores under
  way there is a greeting or a handler.
  `BarsTellShares` is arithmetic: a rounded share is within half a point of the
  share, so the two bars never turn the order round, for counts of any size.
- `GridProofs`. A move visits the cells one after the other, and everything about it
  is proved by induction over the cells visited, for boards of any size. Tiles
  cannot grow beyond `Values` because there is room for few large ones only: on a
  board of n cells at most n + 2 - j tiles are 2^j or larger (`Roomy`). A merge
  keeps that bound, a slide does not touch it, and a new tile of 2 or 4 needs a
  free cell, where nothing was; the type of the board is not inductive without it.
  Sums over the cells are taken apart one cell at a time, which gives
  `MoveWorth`. `MovesExactlyWhen` rests on the first tile that can go: nothing
  has moved before it, so it still finds what was there at the start; from that
  follows that the code's own test for a lost game is right (`StuckExactlyWhen`).
  `MoveAsMeant` compares the move with the reference. First the reference alone: after
  j cells of a line the places up to a number t are taken, each by one tile or two of
  a kind, and the last one has a single tile exactly when the last tile leads
  (`Taken`). Then the code: `Turns` shows that the traversal takes the cells of each
  line in the order of the push, and `LinesStep` that a visit brings its line
  one cell further in just the way the reference does, for the obstacle that
  stops a tile is the last place taken, and it was merged in this move exactly
  when two tiles were sent there. Other lines are not touched. The score is
  carried along as the sum of what the places have gained.
- `Game2048Proofs`. Storage, reload, screen and message, for any size of board and
  any winning tile, with the move left unexpanded, since nothing there depends on what it
  does; `ReloadInStep` needs that writing a grid and reading it back gives the same
  grid. Then `BoardInv`, which adds the types, `Roomy`, a tile on the board, the
  flag of the end and the score to it. `TypesKept`, `ScoreToldByBoard`,
  `OverExactlyWhenStuck` and `MovesFollowReference` (every move that can be made in a game is
  the one that is meant, on boards of any size) follow from it and `GridProofs`.
  `PlaysTheRules` is the refinement: a new game, by whatever way it begins, is `NewGame`
  of the rules; a page that finds its game is a stutter or `AskAgain` (`StorageFollows`
  with `Roundtrip`); a move of the code is the slide that is meant (`MoveAsMeant`), and
  its flag for the end says that no slide is left (`StuckExactlyWhen`, which is about the
  code's own moves, with `MoveAsMeant` again for each of them). Frames are stutters.
  `GoesOnOnlyWhenAsked` needs storage and message together: a reload cannot
  set the flag because what is kept implies it, and "Keep going" shows only on the
  message of this game's win unless one was cleared too early.
  `PolyfillIsNative` is about lists of any classes: the list has each class once, so the
  first one found is the only one, and no other class has the token in its name, so
  `contains` finds nothing else. `PolyfillInStep` applies it to the
  elements of the run and to the message.
- `InputProofs`. The invariant ties the gesture to the fingers: no move was
  emitted while a finger is down, a finger that is the gesture's only one is the
  only one down, `start` is where the gesture began if it began in the container, and
  the click to come is never on a button. Points are any
  pairs of integers, so the arithmetic of swipes is proved, not sampled.

Recursive definitions are written as functions (`Visits`, `Worth`, `DOMTokenList`, the
sums of the library). That such a function exists and unfolds is proved where
it is used, by `SetInduction`: a set of numbers with 0 and with the successor of each of
its members has them all. Induction is on sets and not on predicates because the
provers cannot instantiate a predicate.

Model-checked only: everything live (`CallsReturn`, `SleepersWoken`, `ListDrains`,
`PagesCatchUp`), because fairness is out of the prover's reach (what of it is safety is
`MutexGivenBack`, `WakeUps` and `NoVoteLost`); and `LongerLikeReference`, which looks at
the boards TLC is given one by one. What it says of each is what `MoveAsMeant` proves
of all boards with room for their tiles (`Roomy`); the boards of `LongerLikeReference`
include some no game reaches, such as four eights on 2 x 2, and it is there to show
that the reference itself is the game on lines longer than those of the run.

## 6. Not modelled

- The life cycle of the LIFO module (`lifo_init`, `lifo_exit`, open, release):
  straight lines run once by one process; what an open during the load may do
  is decided by the kernel's reference counts, not by this code.
- The resource manager and the SYN detector (1.4, 1.5): sequential programs whose
  inputs are the process table and a file of packets. The hazards of the first are
  recorded in `PROJECT.json`; they show in single lines.
- Of the voting application: several replicas of the result server (a page would
  see the polls of one of them per connection), `subscribe`, which no page sends,
  and a greeting that arrives before Angular has started (2.3).
- Of 2048: the pointer events of Internet Explorer 10, for which the input manager
  has branches of its own; several tabs on one storage and a storage that is full;
  the looks of tiles and the floating score addition; the first animation
  frame, which starts the game, is part of the page load.
- Scripts and configuration (1.6): no state that a model would say more about
  than the lines do.

## 7. Where to go on

1. Two tabs of 2048 on one storage: `saved` and `best` shared by two games. What
   the code should promise there has to be decided first.
2. A pool that gives the result server a new connection: `PagesCatchUp` then
   holds without the condition on the connection, under fairness of `StartDb`.
3. One queue per voter, or one worker, in the voting stack: `ImplementsTable` is
   the property such a change has to restore for two replicas.
