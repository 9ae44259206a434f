----------------------------- MODULE VotingOrder -----------------------------
(***************************************************************************)
(* The order of the votes in the list, in the workers' hands and in the    *)
(* table, and what becomes of every vote, for any number of browsers and   *)
(* workers and any number of requests and faults.                          *)
(***************************************************************************)
EXTENDS VotingProofs, FiniteSetTheorems

(* What a step can do to the votes: nothing, push one, hand the first one to
   a worker, drop some from the list or from a worker's hands, or store the
   one a worker holds. *)
Kept(w) == held' = held \/ held' = [held EXCEPT ![w] = NoVote]

Quiet == UNCHANGED <<votes, cast, wiped, held, row, raced>>

Pushed(i, c) == /\ votes' = Append(votes, [id |-> i, vote |-> c, n |-> Len(cast) + 1])
                /\ cast' = Append(cast, [id |-> i, vote |-> c, n |-> Len(cast) + 1])
                /\ UNCHANGED <<wiped, held, row, raced>>

Popped(w) == /\ votes # <<>>
             /\ ~Holding(w)
             /\ held' = [held EXCEPT ![w] = Head(votes)]
             /\ votes' = Tail(votes)
             /\ raced' = [raced EXCEPT ![Head(votes).id] = @ \/ Overlaps(w, Head(votes).id)]
             /\ UNCHANGED <<cast, wiped, row>>

Dropped(w) == /\ Kept(w)
              /\ votes' = votes \/ (votes # <<>> /\ votes' = Tail(votes))
              /\ UNCHANGED <<cast, wiped, row, raced>>

Stored(w) == /\ Holding(w)
             /\ Store(w)
             /\ Kept(w)
             /\ UNCHANGED <<votes, cast, wiped, raced>>

Emptied == /\ votes' = <<>>
           /\ wiped' = wiped \cup {votes[k].n : k \in 1 .. Len(votes)}
           /\ Fault
           /\ UNCHANGED <<cast, held, row, raced>>

(* What a worker does to the votes, apart from popping and storing one. *)
LEMMA WorkerKinds ==
  ASSUME Types, NEW w \in Workers, WorkerStep(w) \/ WorkerFault(w) \/ Restart(w)
  PROVE  Popped(w) \/ Dropped(w) \/ Stored(w)
  <1> USE DEF Dropped, Kept, queueVars, Goto, Done
  <1>0. (wpc[w] \in HandlingPC) <=> Holding(w)
    BY DEF Types, WorkerTypes
  <1>a. "insert" \in HandlingPC /\ "update" \in HandlingPC /\ "poll" \notin HandlingPC
    BY DEF HandlingPC
  <1>1. Pop(w) => Popped(w)
    BY <1>0, <1>a DEF Pop, Popped
  <1>2. Start(w) \/ CheckState(w) \/ Restart(w) \/ Reconnect(w) => Dropped(w)
    BY DEF Start, CheckState, Restart, Reconnect
  <1>3. PopThrows(w) \/ KeepAliveThrows(w) \/ Crash(w) \/ UpdateThrows(w) => Dropped(w)
    BY DEF PopThrows, KeepAliveThrows, Crash, UpdateThrows, Exit
  <1>4. InsertThrows(w) \/ InsertRefused(w) \/ LoseConnection(w) \/ NoticeLoss(w) => Dropped(w)
    BY DEF InsertThrows, InsertRefused, LoseConnection, NoticeLoss
  <1>5. Insert(w) => Stored(w)
    BY <1>0, <1>a DEF Insert, Stored
  <1>6. InsertUnanswered(w) => Stored(w)
    BY <1>0, <1>a DEF InsertUnanswered, Stored
  <1>7. UpdateUnanswered(w) => Stored(w)
    BY <1>0, <1>a DEF UpdateUnanswered, Stored, Exit
  <1>8. Update(w) => Stored(w) \/ Dropped(w)
    BY <1>0, <1>a DEF Update, Stored
  <1> QED BY <1>1, <1>2, <1>3, <1>4, <1>5, <1>6, <1>7, <1>8 DEF WorkerStep, WorkerFault

(* What a step of the vote application does to the votes. *)
LEMMA FrontKinds ==
  ASSUME Types, NEW q \in flight, HandlerStep(q) \/ HandlerFault(q)
  PROVE  Quiet \/ \E i \in Ids, c \in Choices : Pushed(i, c)
  <1> USE DEF Quiet, queueVars, workerVars
  <1>1. CASE ServePage(q) \/ Answer(q) \/ AnswerLost(q)
    BY <1>1 DEF ServePage, Answer, AnswerLost
  <1>2. CASE ServeVote(q) \/ ServeVoteTimesOut(q)
    <2>1. q.vote \in Choices /\ VoterId(q) \in Ids
      BY <1>2 DEF ServeVote, ServeVoteTimesOut, Issue, Types, FrontTypes
    <2>2. UNCHANGED <<wiped, held, row, raced>> /\ (rpush(q) \/ UNCHANGED <<votes, cast>>)
      BY <1>2 DEF ServeVote, ServeVoteTimesOut, rpush
    <2>3. rpush(q) => Pushed(VoterId(q), q.vote)
      BY <2>2 DEF rpush, Ballot, Pushed
    <2> QED BY <2>1, <2>2, <2>3
  <1> QED BY <1>1, <1>2 DEF HandlerStep, HandlerFault

(* Every step is of one of these kinds. *)
LEMMA StepKinds ==
  ASSUME Types, [Next]_vars
  PROVE  \/ Quiet
         \/ Emptied
         \/ \E i \in Ids, c \in Choices : Pushed(i, c)
         \/ \E w \in Workers : Popped(w) \/ Dropped(w) \/ Stored(w)
  <1>1. CASE UNCHANGED vars
    BY <1>1 DEF vars, queueVars, workerVars, Quiet
  <1>2. CASE LoseList
    BY <1>2 DEF LoseList, workerVars, Emptied
  <1>3. ASSUME NEW b \in Browsers, OpenPage(b) \/ PostVote(b) PROVE Quiet
    BY <1>3 DEF OpenPage, PostVote, Send, Quiet, queueVars, workerVars
  <1> QED BY <1>1, <1>2, <1>3, FrontKinds, WorkerKinds DEF Next

-----------------------------------------------------------------------------
(* The order *)

(* A push comes after everything. *)
LEMMA PushedOrder ==
  ASSUME Types, InOrder, NEW i \in Ids, NEW c \in Choices, Pushed(i, c)
  PROVE  InOrder'
  <1>1. cast \in Seq(Ballots) /\ votes \in Seq(Ballots) /\ held \in [Workers -> Ballots \cup {NoVote}]
        /\ row \in [Ids -> Rows]
    BY DEF Types, StoreTypes, WorkerTypes
  <1>2. [id |-> i, vote |-> c, n |-> Len(cast) + 1] \in Ballots
    BY <1>1, LenProperties DEF Ballots
  <1>3. PICK v \in Ballots : /\ v.n = Len(cast) + 1
                            /\ votes' = Append(votes, v) /\ cast' = Append(cast, v)
                            /\ UNCHANGED <<held, row, raced>>
    BY <1>2 DEF Pushed
  <1>4. /\ Len(cast') = Len(cast) + 1 /\ Len(votes') = Len(votes) + 1
        /\ Len(cast) \in Nat /\ Len(votes) \in Nat
        /\ cast'[Len(cast) + 1] = v /\ votes'[Len(votes) + 1] = v
        /\ \A k \in 1 .. Len(cast) : cast'[k] = cast[k]
        /\ \A k \in 1 .. Len(votes) : votes'[k] = votes[k] /\ votes[k] \in Ballots
    BY <1>1, <1>3, AppendProperties, LenProperties, ElementOfSeq
  <1>5. ASSUME NEW u, u.n \in Nat \ {0}, Recorded(u)
        PROVE  Recorded(u)' /\ u.n < v.n
    BY <1>3, <1>4, <1>5 DEF Recorded
  <1>6. Recorded(v)'
    BY <1>3, <1>4 DEF Recorded
  <1>7. \A k \in 1 .. Len(votes') : k \in 1 .. Len(votes) \/ (k = Len(votes) + 1 /\ votes'[k] = v)
    BY <1>4
  <1>8. \A k \in 1 .. Len(votes) : votes[k].n \in Nat \ {0} /\ votes[k].n < v.n /\ Recorded(votes[k])'
    BY <1>4, <1>5 DEF InOrder, Ballots
  <1>9. ASSUME NEW n \in Nat, n < v.n, BeforeList(n) PROVE BeforeList(n)'
    BY <1>4, <1>7, <1>9 DEF BeforeList
  <1>10. \A k \in 1 .. Len(votes') : Recorded(votes[k])'
    <2> SUFFICES ASSUME NEW k \in 1 .. Len(votes') PROVE Recorded(votes[k])'
      OBVIOUS
    <2>1. CASE k \in 1 .. Len(votes)
      BY <1>4, <1>8, <2>1 DEF Recorded
    <2>2. CASE votes'[k] = v
      BY <1>6, <2>2 DEF Recorded
    <2> QED BY <1>7, <2>1, <2>2
  <1>11. \A j, k \in 1 .. Len(votes') : j < k => votes'[j].n < votes'[k].n
    BY SMTT(30), <1>4, <1>7, <1>8 DEF InOrder
  <1>12. \A w \in Workers : Holding(w)' => Recorded(held[w])' /\ BeforeList(held[w].n)'
    <2> SUFFICES ASSUME NEW w \in Workers, Holding(w)'
                 PROVE  Recorded(held[w])' /\ BeforeList(held[w].n)'
      OBVIOUS
    <2>1. Holding(w) /\ held'[w] = held[w]
      BY <1>3 DEF Holding
    <2>2. PICK u : u = held[w] /\ u.n \in Nat \ {0}
      BY <1>1, <2>1 DEF Holding, NoVote, Ballots
    <2>3. Recorded(u) /\ BeforeList(u.n)
      BY <2>1, <2>2 DEF InOrder
    <2>4. Recorded(u)' /\ BeforeList(u.n)'
      BY <1>5, <1>9, <2>2, <2>3
    <2> QED BY <2>1, <2>2, <2>4 DEF Recorded, BeforeList
  <1>13. \A j \in Ids : HasRow(j)' => Recorded(Entry(j))' /\ BeforeList(row[j].n)'
    <2> SUFFICES ASSUME NEW j \in Ids, HasRow(j)'
                 PROVE  Recorded(Entry(j))' /\ BeforeList(row[j].n)'
      OBVIOUS
    <2>1. HasRow(j) /\ row' = row /\ Entry(j)' = Entry(j)
      BY <1>3 DEF HasRow, Entry
    <2>a. row[j].n \in Nat \ {0}
      BY <1>1, <2>1 DEF HasRow, Rows
    <2>2. PICK u : u = Entry(j) /\ u.n = row[j].n /\ u.n \in Nat \ {0}
      <3>1. Entry(j).n = row[j].n
        BY DEF Entry
      <3> QED BY <2>a, <3>1, Zenon
    <2>3. Recorded(u) /\ BeforeList(u.n)
      BY <2>1, <2>2 DEF InOrder
    <2>4. Recorded(u)' /\ BeforeList(u.n)'
      BY <1>5, <1>9, <2>2, <2>3
    <2> QED BY <2>1, <2>2, <2>4 DEF Recorded, BeforeList
  <1>14. \A w \in Workers : Holding(w)' /\ ~raced'[held'[w].id] => Newest(w)'
    BY <1>3 DEF InOrder, Holding, Newest, Overlaps
  <1> QED BY <1>10, <1>11, <1>12, <1>13, <1>14 DEF InOrder

(* Facts on the list when its first vote goes. *)
LEMMA TailFacts ==
  ASSUME Types, votes # <<>>, votes' = Tail(votes)
  PROVE  /\ Len(votes) \in Nat /\ 1 \in 1 .. Len(votes)
         /\ Head(votes) = votes[1] /\ Head(votes) \in Ballots
         /\ Len(votes') = Len(votes) - 1
         /\ \A k \in 1 .. Len(votes') : k + 1 \in 1 .. Len(votes) /\ votes'[k] = votes[k + 1]
         /\ \A k \in 1 .. Len(votes) : votes[k] \in Ballots
  BY SMTT(30), HeadTailProperties, LenProperties, ElementOfSeq DEF Types, StoreTypes

(* A list that only got shorter keeps its order. *)
LEMMA ShorterList ==
  ASSUME Types, InOrder, cast' = cast,
         votes' = votes \/ votes' = <<>> \/ (votes # <<>> /\ votes' = Tail(votes))
  PROVE  /\ \A k \in 1 .. Len(votes') : Recorded(votes[k])'
         /\ \A j, k \in 1 .. Len(votes') : j < k => votes'[j].n < votes'[k].n
         /\ \A n \in Nat : BeforeList(n) => BeforeList(n)'
  <1>1. CASE votes' = votes
    BY SMTT(30), <1>1 DEF InOrder, Recorded, BeforeList
  <1>2. CASE votes' = <<>>
    BY SMTT(30), <1>2 DEF BeforeList
  <1>3. CASE votes # <<>> /\ votes' = Tail(votes)
    <2>1. \A k \in 1 .. Len(votes') : k + 1 \in 1 .. Len(votes) /\ votes'[k] = votes[k + 1]
      BY <1>3, TailFacts
    <2>2. \A k \in 1 .. Len(votes') : Recorded(votes[k])'
      BY SMTT(30), <2>1 DEF InOrder, Recorded
    <2>3. \A n \in Nat : BeforeList(n) => BeforeList(n)'
      BY SMTT(30), <2>1 DEF BeforeList
    <2>4. votes \in Seq(Ballots) /\ votes' \in Seq(Ballots)
      BY <1>3, PopTypes DEF Types, StoreTypes
    <2>a. Len(votes) \in Nat /\ Len(votes') \in Nat
      BY <2>4, LenProperties
    <2>5. \A j, k \in 1 .. Len(votes') : j < k => votes'[j].n < votes'[k].n
      BY SMTT(30), <2>1, <2>a DEF InOrder
    <2> QED BY SMTT(30), <2>2, <2>3, <2>5
  <1> QED BY <1>1, <1>2, <1>3

(* What is recorded, and the rows, when neither the record nor the table
   changes and the list gets shorter. *)
LEMMA RowsStay ==
  ASSUME Types, InOrder, cast' = cast, row' = row, \A n \in Nat : BeforeList(n) => BeforeList(n)'
  PROVE  \A i \in Ids : HasRow(i)' => Recorded(Entry(i))' /\ BeforeList(row[i].n)'
  <1> SUFFICES ASSUME NEW i \in Ids, HasRow(i)'
               PROVE  Recorded(Entry(i))' /\ BeforeList(row[i].n)'
    OBVIOUS
  <1>1. HasRow(i) /\ Entry(i)' = Entry(i)
    BY DEF HasRow, Entry
  <1>2. row[i].n \in Nat
    BY DEF Types, StoreTypes, Rows
  <1>3. Recorded(Entry(i)) /\ BeforeList(row[i].n)
    BY <1>1 DEF InOrder
  <1>4. BeforeList(row[i].n)'
    BY <1>2, <1>3 DEF BeforeList
  <1> QED BY <1>1, <1>3, <1>4 DEF Recorded

(* The same for what a worker goes on holding. *)
LEMMA HeldStays ==
  ASSUME Types, InOrder, cast' = cast, NEW w \in Workers, held'[w] = held[w],
         \A n \in Nat : BeforeList(n) => BeforeList(n)', Holding(w)'
  PROVE  Recorded(held[w])' /\ BeforeList(held[w].n)'
  <1>1. Holding(w) /\ held[w].n \in Nat
    BY DEF Holding, Types, WorkerTypes, Ballots, NoVote
  <1>2. Recorded(held[w]) /\ BeforeList(held[w].n)
    BY <1>1 DEF InOrder
  <1>3. BeforeList(held[w].n)'
    BY <1>1, <1>2 DEF BeforeList
  <1> QED BY <1>2, <1>3 DEF Recorded

(* A vote is popped: it is newer than every row and every vote in hand. *)
LEMMA PoppedOrder ==
  ASSUME Types, InOrder, NEW w \in Workers, Popped(w)
  PROVE  InOrder'
  <1> DEFINE v == Head(votes)
  <1>0. /\ votes # <<>> /\ votes' = Tail(votes) /\ cast' = cast /\ row' = row
        /\ held' = [held EXCEPT ![w] = v]
        /\ raced' = [raced EXCEPT ![v.id] = @ \/ Overlaps(w, v.id)]
    BY DEF Popped
  <1>1. /\ v = votes[1] /\ 1 \in 1 .. Len(votes) /\ v \in Ballots
        /\ v.id \in Ids /\ v.n \in Nat \ {0}
    BY <1>0, TailFacts DEF Ballots
  <1>2. /\ held \in [Workers -> Ballots \cup {NoVote}]
        /\ held'[w] = v /\ \A u \in Workers \ {w} : held'[u] = held[u]
    BY <1>0 DEF Types, WorkerTypes
  <1>3. Recorded(v) /\ \A k \in 1 .. Len(votes') : v.n < votes'[k].n
    <2>1. Recorded(v)
      BY <1>1 DEF InOrder
    <2>2. \A k \in 1 .. Len(votes') : k \in Nat /\ k + 1 \in 1 .. Len(votes) /\ 1 < k + 1
                                    /\ votes'[k] = votes[k + 1]
      BY <1>0, TailFacts
    <2>3. \A k \in 2 .. Len(votes) : v.n < votes[k].n
      BY <1>1, LenProperties DEF InOrder, Types, StoreTypes
    <2> QED BY <2>1, <2>2, <2>3
  <1>4. \A u \in Workers : Holding(u) => held[u].n < v.n
    BY <1>1 DEF InOrder, BeforeList
  <1>5. \A i \in Ids : row[i].n \in Nat /\ row[i].n < v.n
    <2> TAKE i \in Ids
    <2>1. row[i].n \in Nat
      BY DEF Types, StoreTypes, Rows
    <2> QED BY <1>1, <2>1 DEF InOrder, BeforeList, HasRow
  <1>6. raced \in [Ids -> BOOLEAN]
    BY DEF Types, StoreTypes
  <1>7. /\ \A i \in Ids : i # v.id => (raced'[i] <=> raced[i])
        /\ raced'[v.id] <=> (raced[v.id] \/ Overlaps(w, v.id))
    <2>1. Overlaps(w, v.id) \in BOOLEAN
      BY Zenon DEF Overlaps
    <2> QED BY <1>0, <1>1, <1>6, <2>1, Zenon
  <1> HIDE DEF v
  <1>8. \A u \in Workers : Holding(u)' => Recorded(held[u])' /\ BeforeList(held[u].n)'
    <2> TAKE u \in Workers
    <2>1. CASE u = w
      BY <1>0, <1>2, <1>3, <2>1 DEF Recorded, BeforeList
    <2>2. CASE u # w
      BY <1>0, <1>2, <2>2, ShorterList, HeldStays
    <2> QED BY <2>1, <2>2
  <1>9. ASSUME NEW u \in Workers, Holding(u)', ~raced'[held'[u].id]
        PROVE  Newest(u)'
    <2>1. CASE u = w
      <3>1. ~Overlaps(w, v.id)
        BY <1>2, <1>7, <1>9, <2>1
      <3>2. \A x \in Workers \ {w} : ~(held'[x].n # 0 /\ held'[x].id = v.id)
        BY <1>2, <3>1 DEF Overlaps, Holding
      <3> QED BY <1>0, <1>1, <1>2, <1>5, <2>1, <3>2 DEF Newest, Overlaps, Holding
    <2>2. CASE u # w
      <3>1. held'[u] = held[u] /\ Holding(u)
        BY <1>2, <1>9, <2>2 DEF Holding
      <3>2. held[u].id \in Ids
        BY <1>2, <3>1 DEF Holding, Ballots, NoVote
      <3>3. held[u].id # v.id
        <4>1. SUFFICES ASSUME held[u].id = v.id PROVE FALSE
          OBVIOUS
        <4>2. Overlaps(w, v.id)
          BY <2>2, <3>1, <4>1 DEF Overlaps
        <4> QED BY <1>7, <1>9, <3>1, <4>1, <4>2
      <3>4. ~raced[held[u].id]
        BY <1>7, <1>9, <3>1, <3>2, <3>3
      <3>5. Newest(u)
        BY <3>1, <3>4 DEF InOrder
      <3>6. \A x \in Workers \ {u} : ~(held'[x].n # 0 /\ held'[x].id = held[u].id)
        <4> TAKE x \in Workers \ {u}
        <4>1. CASE x = w
          BY <1>2, <3>3, <4>1
        <4>2. CASE x # w
          BY <1>2, <3>5, <4>2 DEF Newest, Overlaps, Holding
        <4> QED BY <4>1, <4>2
      <3> QED BY <1>0, <3>1, <3>5, <3>6 DEF Newest, Overlaps, Holding
    <2> QED BY <2>1, <2>2
  <1> QED BY <1>0, <1>8, <1>9, ShorterList, RowsStay DEF InOrder

(* Votes are dropped: what is left keeps its order. *)
LEMMA DroppedOrder ==
  ASSUME Types, InOrder,
         Emptied \/ Quiet \/ \E w \in Workers : Dropped(w)
  PROVE  InOrder'
  <1>0. /\ votes' = votes \/ votes' = <<>> \/ (votes # <<>> /\ votes' = Tail(votes))
        /\ cast' = cast /\ row' = row /\ raced' = raced
        /\ held' = held \/ \E w \in Workers : held' = [held EXCEPT ![w] = NoVote]
    BY DEF Emptied, Quiet, Dropped, Kept
  <1>1. \A u \in Workers : held'[u] = held[u] \/ held'[u] = NoVote
    BY <1>0 DEF Types, WorkerTypes
  <1>2. \A u \in Workers : Holding(u)' => Holding(u) /\ held'[u] = held[u]
    BY <1>1 DEF Holding, NoVote
  <1>3. \A u \in Workers : Holding(u)' => Recorded(held[u])' /\ BeforeList(held[u].n)'
    BY <1>0, <1>2, ShorterList, HeldStays
  <1>4. \A u \in Workers : Holding(u)' /\ ~raced'[held'[u].id] => Newest(u)'
    <2> SUFFICES ASSUME NEW u \in Workers, Holding(u)', ~raced'[held'[u].id] PROVE Newest(u)'
      OBVIOUS
    <2>1. Newest(u) /\ held'[u] = held[u]
      BY <1>0, <1>2 DEF InOrder
    <2> QED BY <1>0, <1>2, <2>1 DEF Newest, Overlaps
  <1> QED BY <1>0, <1>3, <1>4, ShorterList, RowsStay DEF InOrder

(* A vote is stored: its row takes its place, the others stay. *)
LEMMA StoredRow ==
  ASSUME Types, NEW w \in Workers, Stored(w)
  PROVE  /\ held[w] \in Ballots /\ held[w].id \in Ids
         /\ row'[held[w].id] = RowOf(w)
         /\ \A i \in Ids \ {held[w].id} : row'[i] = row[i]
         /\ RowOf(w).n = held[w].n /\ RowOf(w).vote = held[w].vote
  <1>1. held[w] \in Ballots /\ held[w].id \in Ids
    BY DEF Types, WorkerTypes, Stored, Holding, NoVote, Ballots
  <1>2. RowOf(w).n = held[w].n /\ RowOf(w).vote = held[w].vote
    BY DEF RowOf
  <1> HIDE DEF RowOf
  <1> QED BY <1>1, <1>2 DEF Types, StoreTypes, Stored, Store

(* Storing the vote in hand keeps the order of the list, the hands and the rows. *)
LEMMA StoredOrder ==
  ASSUME Types, InOrder, NEW w \in Workers, Stored(w)
  PROVE  InOrder'
  <1>0. /\ votes' = votes /\ cast' = cast /\ raced' = raced /\ Holding(w)
        /\ held' = held \/ held' = [held EXCEPT ![w] = NoVote]
    BY DEF Stored, Kept
  <1>1. /\ held[w] \in Ballots /\ held[w].id \in Ids
        /\ row'[held[w].id] = RowOf(w)
        /\ \A i \in Ids \ {held[w].id} : row'[i] = row[i]
        /\ RowOf(w).n = held[w].n /\ RowOf(w).vote = held[w].vote
    BY StoredRow
  <1>2. \A u \in Workers : Holding(u)' => Holding(u) /\ held'[u] = held[u]
    BY <1>0 DEF Types, WorkerTypes, Holding, NoVote
  <1>3. \A u \in Workers : Holding(u)' => Recorded(held[u])' /\ BeforeList(held[u].n)'
    BY <1>0, <1>2, ShorterList, HeldStays
  <1>4. ASSUME NEW i \in Ids, HasRow(i)'
        PROVE  Recorded(Entry(i))' /\ BeforeList(row[i].n)'
    <2>1. CASE i = held[w].id
      <3>1. Entry(i)' = held[w] /\ row'[i].n = held[w].n
        BY <1>1, <2>1 DEF Entry, Ballots
      <3>2. Recorded(held[w]) /\ BeforeList(held[w].n)
        BY <1>0 DEF InOrder
      <3> QED BY <1>0, <3>1, <3>2 DEF Recorded, BeforeList
    <2>2. CASE i # held[w].id
      <3>1. row'[i] = row[i] /\ Entry(i)' = Entry(i) /\ HasRow(i)
        BY <1>1, <1>4, <2>2 DEF Entry, HasRow
      <3>2. Recorded(Entry(i)) /\ BeforeList(row[i].n)
        BY <3>1 DEF InOrder
      <3> QED BY <1>0, <3>1, <3>2 DEF Recorded, BeforeList
    <2> QED BY <2>1, <2>2
  <1>5. ASSUME NEW u \in Workers, Holding(u)', ~raced'[held'[u].id]
        PROVE  Newest(u)'
    <2>1. Newest(u) /\ Holding(u) /\ held'[u] = held[u]
      BY <1>0, <1>2, <1>5 DEF InOrder
    <2>2. ~Overlaps(u, held[u].id)'
      BY <1>2, <2>1 DEF Newest, Overlaps
    <2>3. row'[held[u].id].n <= held[u].n
      <3>1. CASE u = w
        BY <1>1, <3>1 DEF Ballots
      <3>2. CASE u # w
        <4>1. held[u].id # held[w].id
          BY <1>0, <2>1, <3>2 DEF Newest, Overlaps
        <4>2. held[u].id \in Ids
          BY <2>1 DEF Types, WorkerTypes, Holding, NoVote, Ballots
        <4> QED BY <1>1, <2>1, <4>1, <4>2 DEF Newest
      <3> QED BY <3>1, <3>2
    <2> QED BY <2>1, <2>2, <2>3 DEF Newest, Overlaps
  <1> QED BY <1>0, <1>3, <1>4, <1>5, ShorterList DEF InOrder

(* Nothing has happened at the start. *)
LEMMA InitOrder == Init => InOrder
  BY DEF Init, InOrder, Holding, HasRow, NoVote, NoRow

(* The order is inductive with the types. *)
LEMMA NextOrder == ASSUME Types, InOrder, [Next]_vars PROVE InOrder'
  BY StepKinds, PushedOrder, PoppedOrder, DroppedOrder, StoredOrder

(* The list, the workers' hands and the table agree on the order of the
   votes, whatever the number of workers and whatever fails. *)
THEOREM OrderKept == Spec => []InOrder
  <1>1. Types /\ InOrder /\ [Next]_vars => Types' /\ InOrder'
    BY NextTypes, NextOrder
  <1>2. Init => Types /\ InOrder
    BY InitTypes, InitOrder
  <1> QED BY <1>1, <1>2, PTL DEF Spec

-----------------------------------------------------------------------------
(* A step never goes back: the row of a voter is only replaced by a vote in
   the hands of a worker, which is its newest. *)
RowsOnlyRenewed == \A i \in Ids : raced[i] \/ row'[i].n >= row[i].n

(* Every step of the specification leaves a row alone or renews it, unless two
   workers overlapped on its voter. *)
LEMMA StepRenews == ASSUME Types, InOrder, [Next]_vars PROVE RowsOnlyRenewed
  <1> SUFFICES ASSUME NEW i \in Ids, ~raced[i] PROVE row'[i].n >= row[i].n
    BY DEF RowsOnlyRenewed
  <1>1. row[i].n \in Nat
    BY DEF Types, StoreTypes, Rows
  <1>2. CASE row' = row
    BY <1>1, <1>2
  <1>3. ASSUME NEW w \in Workers, Stored(w) PROVE row'[i].n >= row[i].n
    <2>1. CASE i = held[w].id
      <3>1. Newest(w)
        BY <1>3, <2>1 DEF InOrder, Stored
      <3> QED BY <1>1, <1>3, <2>1, <3>1, StoredRow DEF Newest, Ballots
    <2>2. CASE i # held[w].id
      BY <1>1, <1>3, <2>2, StoredRow
    <2> QED BY <2>1, <2>2
  <1>4. row' = row \/ \E w \in Workers : Stored(w)
    BY StepKinds DEF Quiet, Emptied, Pushed, Popped, Dropped
  <1> QED BY <1>2, <1>3, <1>4

(* A later vote of a voter is never replaced by an earlier one, unless two
   workers have held votes of that voter at once: with one worker, never. *)
THEOREM NeverGoesBack == Spec => NeverOlder
  <1>1. Types /\ InOrder /\ [Next]_vars => Types' /\ InOrder'
    BY NextTypes, NextOrder
  <1>2. Init => Types /\ InOrder
    BY InitTypes, InitOrder
  <1>3. Types /\ InOrder /\ [Next]_vars => [\A i \in Ids : raced[i] \/ row'[i].n >= row[i].n]_vars
    BY StepRenews DEF RowsOnlyRenewed
  <1> QED BY <1>1, <1>2, <1>3, PTL DEF Spec, NeverOlder

-----------------------------------------------------------------------------
(* No vote is lost without a fault, and one to each fault at most *)

(* An overlap once seen is not forgotten. *)
LEMMA RacedStays ==
  ASSUME Types, [Next]_vars, NEW i \in Ids, raced[i]
  PROVE  raced'[i]
  <1>1. CASE raced' = raced
    BY <1>1
  <1>2. ASSUME NEW w \in Workers, Popped(w) PROVE raced'[i]
    <2>1. raced' = [raced EXCEPT ![Head(votes).id] = @ \/ Overlaps(w, Head(votes).id)]
          /\ raced \in [Ids -> BOOLEAN]
      BY <1>2 DEF Popped, Types, StoreTypes
    <2> QED BY <2>1, Zenon
  <1>3. raced' = raced \/ \E w \in Workers : Popped(w)
    BY StepKinds DEF Quiet, Emptied, Pushed, Dropped, Stored
  <1> QED BY <1>1, <1>2, <1>3

(* Where a vote is that counts as not lost, apart from the two histories. *)
InList(v) == \E k \in 1 .. Len(votes) : votes[k] = v
InHand(v) == \E w \in Workers : held[w] = v
InTable(v) == row[v.id].n >= v.n

(* The histories only grow, and what the table holds it holds or replaces by
   a later vote; so it is the list and the hands that matter. *)
LEMMA AccountedStays ==
  ASSUME Types, InOrder, [Next]_vars, NEW v \in Ballots, Accounted(v), wiped \subseteq wiped',
         InList(v) \/ InHand(v) => InList(v)' \/ InHand(v)' \/ v.n \in wiped' \/ InTable(v)'
  PROVE  Accounted(v)'
  <1>0. v.id \in Ids /\ v.n \in Nat \ {0}
    BY DEF Ballots
  <1>1. CASE raced[v.id]
    BY <1>0, <1>1, RacedStays DEF Accounted
  <1>2. CASE ~raced[v.id] /\ InTable(v)
    <2>1. row'[v.id].n >= row[v.id].n
      BY <1>0, <1>2, StepRenews DEF RowsOnlyRenewed
    <2>2. row[v.id].n \in Nat /\ row'[v.id].n \in Nat
      <3>1. Types'
        BY NextTypes
      <3> QED BY <1>0, <3>1 DEF Types, StoreTypes, Rows
    <2>3. InTable(v)'
      BY <1>0, <1>2, <2>1, <2>2 DEF InTable
    <2> QED BY <2>3 DEF Accounted, InTable
  <1>3. CASE InList(v) \/ InHand(v)
    BY <1>3 DEF Accounted, InList, InHand, InTable
  <1>4. CASE v.n \in wiped
    BY <1>4 DEF Accounted
  <1> QED BY <1>1, <1>2, <1>3, <1>4 DEF Accounted, InList, InHand, InTable

(* A step that loses nothing, and one that loses one vote at most. *)
Safe == \A v \in Ballots : Accounted(v) => Accounted(v)'
LosesOne == \E x : \A v \in Ballots : Accounted(v) => Accounted(v)' \/ v = x

(* Pushing, popping and storing lose nothing, and the list lost as a whole is
   left out. *)
LEMMA SafeKinds ==
  ASSUME Types, InOrder, [Next]_vars,
         \/ Quiet
         \/ Emptied
         \/ \E i \in Ids, c \in Choices : Pushed(i, c)
         \/ \E w \in Workers : Popped(w) \/ Stored(w)
  PROVE  Safe
  <1> SUFFICES ASSUME NEW v \in Ballots, Accounted(v) PROVE Accounted(v)'
    BY DEF Safe
  <1>0. v.id \in Ids /\ v.n \in Nat \ {0}
    BY DEF Ballots
  <1>1. CASE Quiet
    BY <1>1, AccountedStays DEF Quiet, InList, InHand
  <1>2. CASE Emptied
    <2>1. InList(v) => v.n \in wiped'
      BY <1>2 DEF Emptied, InList
    <2>2. InHand(v) => InHand(v)'
      BY <1>2 DEF Emptied, InHand
    <2>3. wiped \subseteq wiped'
      BY <1>2 DEF Emptied
    <2> QED BY <2>1, <2>2, <2>3, AccountedStays
  <1>3. ASSUME NEW i \in Ids, NEW c \in Choices, Pushed(i, c) PROVE Accounted(v)'
    <2>0. [id |-> i, vote |-> c, n |-> Len(cast) + 1] \in Ballots
      BY LenProperties DEF Ballots, Types, StoreTypes
    <2>1. PICK b \in Ballots : votes' = Append(votes, b)
      BY <1>3, <2>0 DEF Pushed
    <2>2. \A k \in 1 .. Len(votes) : k \in 1 .. Len(votes') /\ votes'[k] = votes[k]
      BY <2>1, AppendProperties, LenProperties DEF Types, StoreTypes
    <2>3. InList(v) => InList(v)'
      BY <2>2 DEF InList
    <2>4. InHand(v) => InHand(v)'
      BY <1>3 DEF Pushed, InHand
    <2> QED BY <1>3, <2>3, <2>4, AccountedStays DEF Pushed
  <1>4. ASSUME NEW w \in Workers, Popped(w) PROVE Accounted(v)'
    <2>0. /\ votes # <<>> /\ votes' = Tail(votes) /\ ~Holding(w)
          /\ held' = [held EXCEPT ![w] = Head(votes)]
      BY <1>4 DEF Popped
    <2>1. held'[w] = Head(votes) /\ \A u \in Workers \ {w} : held'[u] = held[u]
      BY <2>0 DEF Types, WorkerTypes
    <2>2. held[w] # v
      BY <1>0, <2>0 DEF Holding
    <2>3. InHand(v) => InHand(v)'
      BY <2>1, <2>2 DEF InHand
    <2>4. ASSUME NEW k \in 1 .. Len(votes), votes[k] = v
          PROVE  InList(v)' \/ InHand(v)'
      <3>1. CASE k = 1
        BY <2>0, <2>1, <2>4, <3>1, TailFacts DEF InHand
      <3>2. CASE k # 1
        <4>1. k - 1 \in 1 .. Len(votes') /\ (k - 1) + 1 = k
          BY <2>0, <3>2, TailFacts
        <4>2. votes'[k - 1] = votes[(k - 1) + 1]
          BY <2>0, <4>1, TailFacts
        <4> QED BY <2>4, <4>1, <4>2 DEF InList
      <3> QED BY <3>1, <3>2
    <2>5. InList(v) => InList(v)' \/ InHand(v)'
      BY <2>4 DEF InList
    <2> QED BY <1>4, <2>3, <2>5, AccountedStays DEF Popped
  <1>5. ASSUME NEW w \in Workers, Stored(w) PROVE Accounted(v)'
    <2>1. votes' = votes /\ wiped' = wiped /\ (held' = held \/ held' = [held EXCEPT ![w] = NoVote])
      BY <1>5 DEF Stored, Kept
    <2>2. \A u \in Workers \ {w} : held'[u] = held[u]
      BY <2>1 DEF Types, WorkerTypes
    <2>3. held[w] = v => InTable(v)'
      <3>1. held[w] = v => row'[v.id].n = v.n
        BY <1>5, StoredRow
      <3> QED BY <1>0, <3>1 DEF InTable
    <2>4. InHand(v) => InHand(v)' \/ InTable(v)'
      BY <2>2, <2>3 DEF InHand
    <2>5. InList(v) => InList(v)'
      BY <2>1 DEF InList
    <2> QED BY <2>1, <2>4, <2>5, AccountedStays
  <1> QED BY <1>1, <1>2, <1>3, <1>4, <1>5

(* A worker that gives up the vote in hand loses that one. *)
LEMMA GivesUp ==
  ASSUME Types, InOrder, [Next]_vars, NEW w \in Workers, Dropped(w), votes' = votes
  PROVE  LosesOne
  <1>1. wiped' = wiped /\ (held' = held \/ held' = [held EXCEPT ![w] = NoVote])
    BY DEF Dropped, Kept
  <1>2. \A u \in Workers \ {w} : held'[u] = held[u]
    BY <1>1 DEF Types, WorkerTypes
  <1>3. ASSUME NEW v \in Ballots, Accounted(v), v # held[w] PROVE Accounted(v)'
    <2>1. InHand(v) => InHand(v)'
      BY <1>2, <1>3 DEF InHand
    <2>2. InList(v) => InList(v)'
      BY DEF InList
    <2> QED BY <1>1, <1>3, <2>1, <2>2, AccountedStays
  <1> QED BY <1>3 DEF LosesOne

(* An LPOP whose answer is lost loses the first vote of the list. *)
LEMMA PopLost ==
  ASSUME Types, InOrder, [Next]_vars, NEW w \in Workers, held' = held, wiped' = wiped,
         votes # <<>>, votes' = Tail(votes)
  PROVE  LosesOne
  <1>1. ASSUME NEW v \in Ballots, Accounted(v), v # Head(votes) PROVE Accounted(v)'
    <2>1. ASSUME NEW k \in 1 .. Len(votes), votes[k] = v PROVE InList(v)'
      <3>1. k # 1
        BY <1>1, <2>1, TailFacts
      <3>2. k - 1 \in 1 .. Len(votes') /\ (k - 1) + 1 = k
        BY <3>1, TailFacts
      <3>3. votes'[k - 1] = votes[(k - 1) + 1]
        BY <3>2, TailFacts
      <3> QED BY <2>1, <3>2, <3>3 DEF InList
    <2>2. InList(v) => InList(v)'
      BY <2>1 DEF InList
    <2>3. InHand(v) => InHand(v)'
      BY DEF InHand
    <2> QED BY <1>1, <2>2, <2>3, AccountedStays
  <1> QED BY <1>1 DEF LosesOne

-----------------------------------------------------------------------------
(* Who will still lose a vote to a fault that has happened: a worker at work
   whose connection is broken, until it finds out, and one that comes to the
   UPDATE without a row. *)
Doomed(w) == /\ wpc[w] \notin {"start", "exited"}
             /\ conn[w] # "open" \/ (wpc[w] = "update" /\ ~HasRow(held[w].id))
DoomedWorkers == {w \in Workers : Doomed(w)}

(* The branch that reconnects is taken without a connection only. *)
Unconnected == \A w \in Workers : wpc[w] = "reconnect" => conn[w] = "closed"

(* Rows are never deleted. *)
LEMMA RowsKept ==
  ASSUME Types, [Next]_vars
  PROVE  \A i \in Ids : HasRow(i) => HasRow(i)'
  <1>1. ASSUME NEW w \in Workers, Stored(w), NEW i \in Ids, HasRow(i) PROVE HasRow(i)'
    <2>1. row'[i] = row[i] \/ row'[i].n = held[w].n
      BY <1>1, StoredRow
    <2> QED BY <1>1, <2>1 DEF HasRow, Stored, Holding
  <1>2. row' = row \/ \E w \in Workers : Stored(w)
    BY StepKinds DEF Quiet, Emptied, Pushed, Popped, Dropped
  <1> QED BY <1>1, <1>2 DEF HasRow

(* A worker's step dooms nobody else. *)
LEMMA OthersDoomed ==
  ASSUME Types, [Next]_vars, NEW w \in Workers,
         \A u \in Workers \ {w} : wpc'[u] = wpc[u] /\ conn'[u] = conn[u] /\ held'[u] = held[u]
  PROVE  /\ DoomedWorkers' \subseteq DoomedWorkers \cup {w}
         /\ ~Doomed(w)' => DoomedWorkers' \subseteq DoomedWorkers \ {w}
         /\ (Doomed(w)' => Doomed(w)) => DoomedWorkers' \subseteq DoomedWorkers
  <1>1. \A u \in Workers \ {w} : Doomed(u)' => Doomed(u)
    <2> SUFFICES ASSUME NEW u \in Workers \ {w}, Doomed(u)' PROVE Doomed(u)
      OBVIOUS
    <2>1. wpc[u] = "update" => held[u].id \in Ids
      BY DEF Types, WorkerTypes, HandlingPC, Holding, NoVote, Ballots
    <2>2. wpc[u] = "update" /\ HasRow(held[u].id) => HasRow(held[u].id)'
      BY <2>1, RowsKept DEF HasRow
    <2> QED BY <2>2 DEF Doomed, HasRow
  <1> QED BY <1>1 DEF DoomedWorkers

(* A fault loses one vote or dooms one worker; any other step loses none, or
   the one of a worker doomed before. *)
Charged == \/ Safe /\ DoomedWorkers' \subseteq DoomedWorkers
           \/ \E w \in DoomedWorkers : LosesOne /\ DoomedWorkers' \subseteq DoomedWorkers \ {w}
           \/ Fault /\ LosesOne /\ DoomedWorkers' \subseteq DoomedWorkers
           \/ Fault /\ Safe /\ \E w \in Workers : DoomedWorkers' \subseteq DoomedWorkers \cup {w}

(* What a worker's step changes of the workers, and that it is charged. *)
LEMMA WorkerCharged ==
  ASSUME Types, InOrder, Unconnected, [Next]_vars,
         NEW w \in Workers, WorkerStep(w) \/ WorkerFault(w) \/ Restart(w)
  PROVE  Charged /\ Unconnected'
  <1> USE DEF Goto, Done, queueVars
  <1>0. /\ wpc \in [Workers -> WorkerPC] /\ conn \in [Workers -> {"open", "lost", "closed"}]
        /\ held \in [Workers -> Ballots \cup {NoVote}]
        /\ (wpc[w] \in HandlingPC) <=> Holding(w)
    BY DEF Types, WorkerTypes
  <1>1. /\ \A u \in Workers \ {w} : wpc'[u] = wpc[u] /\ conn'[u] = conn[u] /\ held'[u] = held[u]
        /\ wpc'[w] = "reconnect" => conn'[w] = "closed"
    <2>1. CASE Start(w) \/ Pop(w) \/ CheckState(w) \/ Restart(w)
      BY <1>0, <2>1 DEF Start, Pop, CheckState, Restart, Unconnected
    <2>2. CASE Reconnect(w) \/ Insert(w) \/ InsertThrows(w) \/ InsertRefused(w) \/ InsertUnanswered(w)
               \/ Update(w)
      BY <1>0, <2>2 DEF Reconnect, Insert, InsertThrows, InsertRefused, InsertUnanswered, Update
    <2>3. CASE PopThrows(w) \/ KeepAliveThrows(w) \/ UpdateUnanswered(w) \/ UpdateThrows(w) \/ Crash(w)
      BY <1>0, <2>3 DEF PopThrows, KeepAliveThrows, UpdateUnanswered, UpdateThrows, Crash, Exit
    <2>4. CASE LoseConnection(w) \/ NoticeLoss(w)
      BY <1>0, <2>4 DEF LoseConnection, NoticeLoss, Unconnected
    <2> QED BY <2>1, <2>2, <2>3, <2>4 DEF WorkerStep, WorkerFault
  <1>2. Unconnected'
    BY <1>1 DEF Unconnected
  <1>3. /\ DoomedWorkers' \subseteq DoomedWorkers \cup {w}
        /\ ~Doomed(w)' => DoomedWorkers' \subseteq DoomedWorkers \ {w}
        /\ (Doomed(w)' => Doomed(w)) => DoomedWorkers' \subseteq DoomedWorkers
    BY <1>1, OthersDoomed
  <1>4. Doomed(w) => w \in DoomedWorkers
    BY DEF DoomedWorkers
  <1>5. "held" \in HandlingPC /\ "insert" \in HandlingPC /\ "update" \in HandlingPC
        /\ "poll" \notin HandlingPC
    BY DEF HandlingPC
  <1>6. ~Holding(w) => held[w] = NoVote /\ [held EXCEPT ![w] = NoVote] = held
    BY <1>0 DEF Holding, Ballots
  <1>7. ASSUME Exit(w) PROVE ~Doomed(w)' /\ Kept(w)
    BY <1>0, <1>7 DEF Exit, Doomed, Kept
  <1>8. CASE Start(w) \/ Restart(w) \/ NoticeLoss(w) \/ CheckState(w)
    <2>1. Quiet
      BY <1>8 DEF Start, Restart, NoticeLoss, CheckState, Quiet
    <2>2. Safe
      BY <2>1, SafeKinds
    <2>3. Doomed(w)' => Doomed(w)
      <3>1. CASE Start(w) \/ Restart(w)
        BY <1>0, <3>1 DEF Start, Restart, Doomed
      <3>2. CASE NoticeLoss(w)
        BY <1>0, <3>2 DEF NoticeLoss, Doomed
      <3>3. CASE CheckState(w)
        BY <1>0, <3>3 DEF CheckState, Doomed
      <3> QED BY <1>8, <3>1, <3>2, <3>3
    <2> QED BY <1>2, <1>3, <2>2, <2>3 DEF Charged
  <1>9. CASE Pop(w)
    <2>1. Popped(w)
      BY <1>0, <1>5, <1>9 DEF Pop, Popped
    <2>2. Safe
      BY <2>1, SafeKinds
    <2>3. Doomed(w)' => Doomed(w)
      BY <1>0, <1>9 DEF Pop, Doomed
    <2> QED BY <1>2, <1>3, <2>2, <2>3 DEF Charged
  <1>10. CASE KeepAliveThrows(w)
    <2>1. Quiet
      BY <1>0, <1>5, <1>6, <1>10 DEF KeepAliveThrows, Exit, Quiet
    <2>2. Safe /\ ~Doomed(w)'
      BY <1>7, <1>10, <2>1, SafeKinds DEF KeepAliveThrows
    <2> QED BY <1>2, <1>3, <2>2 DEF Charged
  <1>11. CASE Insert(w) \/ (Update(w) /\ HasRow(held[w].id))
    <2>1. Stored(w)
      BY <1>0, <1>5, <1>11 DEF Insert, Update, Stored, Kept
    <2>2. ~Doomed(w)'
      BY <1>0, <1>11 DEF Insert, Update, Doomed
    <2>3. Safe
      BY <2>1, SafeKinds
    <2> QED BY <1>2, <1>3, <2>2, <2>3 DEF Charged
  <1>12. CASE InsertThrows(w)
    <2>1. Quiet
      BY <1>12 DEF InsertThrows, Quiet
    <2>2. Doomed(w)' => Doomed(w)
      BY <1>0, <1>12 DEF InsertThrows, Doomed, HasRow
    <2>3. Safe
      BY <2>1, SafeKinds
    <2> QED BY <1>2, <1>3, <2>2, <2>3 DEF Charged
  <1>13. CASE Reconnect(w) \/ UpdateThrows(w) \/ (Update(w) /\ ~HasRow(held[w].id))
    <2>1. Dropped(w) /\ votes' = votes
      BY <1>7, <1>13 DEF Reconnect, UpdateThrows, Update, Dropped, Kept
    <2>2. LosesOne
      BY <2>1, GivesUp
    <2>3. Doomed(w) /\ ~Doomed(w)'
      <3>1. CASE Reconnect(w)
        BY <1>0, <3>1 DEF Reconnect, Doomed, Unconnected
      <3>2. CASE UpdateThrows(w)
        BY <1>7, <3>2 DEF UpdateThrows, Doomed
      <3>3. CASE Update(w) /\ ~HasRow(held[w].id)
        BY <1>0, <3>3 DEF Update, Doomed
      <3> QED BY <1>13, <3>1, <3>2, <3>3
    <2> QED BY <1>2, <1>3, <1>4, <2>2, <2>3 DEF Charged
  <1>14. CASE InsertRefused(w) \/ LoseConnection(w)
    <2>1. Quiet /\ Fault
      BY <1>14 DEF InsertRefused, LoseConnection, Quiet
    <2>2. Safe
      BY <2>1, SafeKinds
    <2> QED BY <1>2, <1>3, <2>1, <2>2 DEF Charged
  <1>15. CASE InsertUnanswered(w) \/ UpdateUnanswered(w)
    <2>1. Stored(w) /\ Fault
      BY <1>0, <1>5, <1>7, <1>15 DEF InsertUnanswered, UpdateUnanswered, Stored, Kept
    <2>2. Safe
      BY <2>1, SafeKinds
    <2> QED BY <1>2, <1>3, <2>1, <2>2 DEF Charged
  <1>16. CASE PopThrows(w) \/ Crash(w)
    <2>1. Exit(w) /\ Fault /\ wiped' = wiped
      BY <1>16 DEF PopThrows, Crash
    <2>2. LosesOne
      <3>1. CASE votes' = votes
        BY <1>7, <1>16, <2>1, <3>1, GivesUp DEF PopThrows, Crash, Dropped
      <3>2. CASE PopThrows(w) /\ votes # <<>> /\ votes' = Tail(votes)
        BY <1>0, <1>5, <1>6, <2>1, <3>2, PopLost DEF PopThrows, Exit
      <3> QED BY <1>16, <3>1, <3>2 DEF PopThrows, Crash
    <2>3. DoomedWorkers' \subseteq DoomedWorkers
      BY <1>3, <1>7, <2>1
    <2> QED BY <1>2, <2>1, <2>2, <2>3 DEF Charged
  <1> QED BY <1>8, <1>9, <1>10, <1>11, <1>12, <1>13, <1>14, <1>15, <1>16 DEF WorkerStep, WorkerFault

(* Every step is charged. *)
LEMMA StepCharged ==
  ASSUME Types, InOrder, Unconnected, [Next]_vars
  PROVE  Charged /\ Unconnected'
  <1> USE DEF queueVars, workerVars
  <1>1. ASSUME UNCHANGED <<wpc, held, conn>>, Safe PROVE Charged /\ Unconnected'
    <2>1. DoomedWorkers' \subseteq DoomedWorkers
      <3>1. \A u \in Workers : Doomed(u)' => Doomed(u)
        <4> SUFFICES ASSUME NEW u \in Workers, Doomed(u)' PROVE Doomed(u)
          OBVIOUS
        <4>1. wpc[u] = "update" => held[u].id \in Ids
          BY DEF Types, WorkerTypes, HandlingPC, Holding, NoVote, Ballots
        <4>2. wpc[u] = "update" /\ HasRow(held[u].id) => HasRow(held[u].id)'
          BY <1>1, <4>1, RowsKept DEF HasRow
        <4> QED BY <1>1, <4>2 DEF Doomed, HasRow
      <3> QED BY <3>1 DEF DoomedWorkers
    <2> QED BY <1>1, <2>1 DEF Charged, Unconnected
  <1>2. CASE UNCHANGED vars
    <2>1. Quiet /\ UNCHANGED <<wpc, held, conn>>
      BY <1>2 DEF vars, Quiet
    <2> QED BY <1>1, <2>1, SafeKinds
  <1>3. ASSUME NEW b \in Browsers, OpenPage(b) \/ PostVote(b) PROVE Charged /\ Unconnected'
    <2>1. Quiet /\ UNCHANGED <<wpc, held, conn>>
      BY <1>3 DEF OpenPage, PostVote, Send, Quiet
    <2> QED BY <1>1, <2>1, SafeKinds
  <1>4. ASSUME NEW q \in flight, HandlerStep(q) \/ HandlerFault(q) PROVE Charged /\ Unconnected'
    <2>1. UNCHANGED <<wpc, held, conn>>
      BY <1>4 DEF HandlerStep, HandlerFault, ServePage, ServeVote, ServeVoteTimesOut, Answer, AnswerLost
    <2> QED BY <1>1, <1>4, <2>1, FrontKinds, SafeKinds
  <1>5. CASE LoseList
    <2>1. Emptied /\ UNCHANGED <<wpc, held, conn>>
      BY <1>5 DEF LoseList, Emptied
    <2> QED BY <1>1, <2>1, SafeKinds
  <1> QED BY <1>2, <1>3, <1>4, <1>5, WorkerCharged DEF Next

-----------------------------------------------------------------------------
(* Counting *)

(* A vote that is cast carries its place in the record. *)
Numbered == \A k \in 1 .. Len(cast) : cast[k].n = k

(* Every vote cast keeps the place it was given. *)
LEMMA NextNumbered == ASSUME Types, Numbered, [Next]_vars PROVE Numbered'
  <1>1. CASE cast' = cast
    BY <1>1 DEF Numbered
  <1>2. ASSUME NEW i \in Ids, NEW c \in Choices, Pushed(i, c) PROVE Numbered'
    <2>0. [id |-> i, vote |-> c, n |-> Len(cast) + 1] \in Ballots
      BY LenProperties DEF Ballots, Types, StoreTypes
    <2>1. PICK b \in Ballots : cast' = Append(cast, b) /\ b.n = Len(cast) + 1
      BY <1>2, <2>0 DEF Pushed
    <2>2. /\ Len(cast) \in Nat
          /\ Len(cast') = Len(cast) + 1 /\ cast'[Len(cast) + 1] = b
          /\ \A j \in 1 .. Len(cast) : cast'[j] = cast[j]
      BY <2>1, AppendProperties, LenProperties DEF Types, StoreTypes
    <2>3. ASSUME NEW k \in 1 .. Len(cast') PROVE cast'[k].n = k
      <3>1. CASE k \in 1 .. Len(cast)
        BY <2>2, <3>1 DEF Numbered
      <3>2. CASE k = Len(cast) + 1
        BY <2>1, <2>2, <3>2
      <3> QED BY <2>2, <3>1, <3>2
    <2> QED BY <2>3 DEF Numbered
  <1>3. cast' = cast \/ \E i \in Ids, c \in Choices : Pushed(i, c)
    BY StepKinds DEF Quiet, Emptied, Popped, Dropped, Stored
  <1> QED BY <1>1, <1>2, <1>3

(* A new vote is in the list, so only one of the record's can come to be lost. *)
LEMMA LostBefore ==
  ASSUME Types, [Next]_vars, NEW k \in LostVotes'
  PROVE  k \in 1 .. Len(cast) /\ cast'[k] = cast[k] /\ cast[k] \in Ballots /\ ~Accounted(cast[k])'
  <1>0. k \in 1 .. Len(cast') /\ ~Accounted(cast[k])'
    BY DEF LostVotes
  <1>1. k \in 1 .. Len(cast) => cast[k] \in Ballots
    BY ElementOfSeq DEF Types, StoreTypes
  <1>2. CASE cast' = cast
    BY <1>0, <1>1, <1>2 DEF Accounted
  <1>3. ASSUME NEW i \in Ids, NEW c \in Choices, Pushed(i, c)
        PROVE  k \in 1 .. Len(cast) /\ cast'[k] = cast[k]
    <2>0. [id |-> i, vote |-> c, n |-> Len(cast) + 1] \in Ballots
      BY LenProperties DEF Ballots, Types, StoreTypes
    <2>1. PICK b \in Ballots : votes' = Append(votes, b) /\ cast' = Append(cast, b)
      BY <1>3, <2>0 DEF Pushed
    <2>2. /\ Len(cast) \in Nat /\ Len(votes) \in Nat
          /\ Len(cast') = Len(cast) + 1 /\ cast'[Len(cast) + 1] = b
          /\ \A j \in 1 .. Len(cast) : cast'[j] = cast[j]
          /\ Len(votes') = Len(votes) + 1 /\ votes'[Len(votes) + 1] = b
      BY <2>1, AppendProperties, LenProperties DEF Types, StoreTypes
    <2>3. k # Len(cast) + 1
      <3>1. SUFFICES ASSUME k = Len(cast) + 1 PROVE FALSE
        OBVIOUS
      <3>2. Len(votes) + 1 \in 1 .. Len(votes') /\ votes'[Len(votes) + 1] = cast'[k]
        BY <2>2, <3>1
      <3> QED BY <1>0, <3>2 DEF Accounted
    <2> QED BY <1>0, <2>2, <2>3
  <1>4. cast' = cast \/ \E i \in Ids, c \in Choices : Pushed(i, c)
    BY StepKinds DEF Quiet, Emptied, Popped, Dropped, Stored
  <1> QED BY <1>0, <1>1, <1>2, <1>3, <1>4 DEF Accounted

(* A safe step adds no lost vote, the others one at most. *)
LEMMA LostGrows ==
  ASSUME Types, Numbered, [Next]_vars
  PROVE  /\ Safe => LostVotes' \subseteq LostVotes
         /\ LosesOne => \E k : LostVotes' \subseteq LostVotes \cup {k}
  <1>1. ASSUME Safe, NEW k \in LostVotes' PROVE k \in LostVotes
    BY <1>1, LostBefore DEF Safe, LostVotes, Accounted
  <1>2. ASSUME LosesOne PROVE \E k : LostVotes' \subseteq LostVotes \cup {k}
    <2>1. PICK x : \A v \in Ballots : Accounted(v) => Accounted(v)' \/ v = x
      BY <1>2 DEF LosesOne
    <2>2. ASSUME NEW k \in LostVotes' PROVE k \in LostVotes \cup {x.n}
      <3>1. k \in 1 .. Len(cast) /\ cast[k] \in Ballots /\ ~Accounted(cast[k])'
            /\ cast'[k] = cast[k]
        BY <2>2, LostBefore
      <3>2. Accounted(cast[k]) => cast[k] = x
        BY <2>1, <3>1 DEF Accounted
      <3>3. cast[k] = x => k = x.n
        BY <3>1 DEF Numbered
      <3> QED BY <3>1, <3>2, <3>3 DEF LostVotes
    <2> QED BY <2>2
  <1> QED BY <1>1, <1>2

(* Sets that grow by one element at most, or lose one. *)
LEMMA Grows ==
  ASSUME NEW S, NEW T, NEW x, IsFiniteSet(S), T \subseteq S \cup {x}
  PROVE  /\ IsFiniteSet(T)
         /\ Cardinality(S) \in Nat /\ Cardinality(T) \in Nat
         /\ Cardinality(T) <= Cardinality(S) + 1
         /\ x \notin T => Cardinality(T) <= Cardinality(S)
         /\ x \in S /\ x \notin T => Cardinality(T) <= Cardinality(S) - 1
  <1>1. IsFiniteSet(S \cup {x}) /\ Cardinality(S \cup {x}) <= Cardinality(S) + 1
        /\ Cardinality(S) \in Nat /\ Cardinality(S \cup {x}) \in Nat
    BY FS_AddElement, FS_CardinalityType
  <1>2. IsFiniteSet(T) /\ Cardinality(T) <= Cardinality(S \cup {x}) /\ Cardinality(T) \in Nat
    BY <1>1, FS_Subset, FS_CardinalityType
  <1>3. ASSUME x \notin T
        PROVE  Cardinality(T) <= IF x \in S THEN Cardinality(S) - 1 ELSE Cardinality(S)
    <2>1. T \subseteq S \ {x}
      BY <1>3
    <2>2. IsFiniteSet(S \ {x})
          /\ Cardinality(S \ {x}) = IF x \in S THEN Cardinality(S) - 1 ELSE Cardinality(S)
      BY FS_RemoveElement
    <2>3. Cardinality(T) <= Cardinality(S \ {x})
      BY <2>1, <2>2, FS_Subset
    <2> QED BY <2>2, <2>3
  <1> QED BY <1>1, <1>2, <1>3

(* What is lost and what will still be lost is paid for by the faults. *)
Paid == /\ IsFiniteSet(LostVotes) /\ IsFiniteSet(DoomedWorkers)
        /\ Cardinality(LostVotes) + Cardinality(DoomedWorkers) <= faults

(* The faults are never forgotten. *)
LEMMA FaultsGrow == ASSUME Types, [Next]_vars PROVE faults' \in Nat /\ faults' >= faults
  <1>1. Fault \/ NoFault
    BY DEF NoFault, Next, vars, WorkerStep, WorkerFault, HandlerStep, HandlerFault,
           OpenPage, PostVote, Send, ServePage, ServeVote, ServeVoteTimesOut, Answer, AnswerLost,
           Start, Pop, PopThrows, KeepAliveThrows, CheckState, Reconnect, Crash, Insert,
           InsertThrows, InsertRefused, InsertUnanswered, Update, UpdateUnanswered, UpdateThrows,
           LoseConnection, NoticeLoss, LoseList, Restart
  <1> QED BY <1>1 DEF Fault, NoFault, Types

(* Every step is paid for. *)
LEMMA NextPaid ==
  ASSUME Types, InOrder, Unconnected, Numbered, Paid, [Next]_vars
  PROVE  Paid' /\ Unconnected'
  <1>0. /\ Charged /\ Unconnected'
        /\ faults \in Nat /\ faults' \in Nat /\ faults' >= faults
        /\ IsFiniteSet(LostVotes) /\ IsFiniteSet(DoomedWorkers)
        /\ Cardinality(LostVotes) + Cardinality(DoomedWorkers) <= faults
    BY StepCharged, FaultsGrow DEF Paid, Types
  <1>1. Cardinality(LostVotes) \in Nat /\ Cardinality(DoomedWorkers) \in Nat
    BY <1>0, FS_CardinalityType
  <1>2. Fault => faults' = faults + 1
    BY DEF Fault
  <1>3. ASSUME Safe
        PROVE  IsFiniteSet(LostVotes') /\ Cardinality(LostVotes') \in Nat
               /\ Cardinality(LostVotes') <= Cardinality(LostVotes)
    BY <1>0, <1>3, LostGrows, FS_Subset, FS_CardinalityType
  <1>4. ASSUME LosesOne
        PROVE  IsFiniteSet(LostVotes') /\ Cardinality(LostVotes') \in Nat
               /\ Cardinality(LostVotes') <= Cardinality(LostVotes) + 1
    BY <1>0, <1>4, LostGrows, Grows
  <1>5. ASSUME DoomedWorkers' \subseteq DoomedWorkers
        PROVE  IsFiniteSet(DoomedWorkers') /\ Cardinality(DoomedWorkers') \in Nat
               /\ Cardinality(DoomedWorkers') <= Cardinality(DoomedWorkers)
    BY <1>0, <1>5, FS_Subset, FS_CardinalityType
  <1>6. CASE Safe /\ DoomedWorkers' \subseteq DoomedWorkers
    BY <1>0, <1>1, <1>3, <1>5, <1>6 DEF Paid
  <1>7. ASSUME NEW w \in DoomedWorkers, LosesOne, DoomedWorkers' \subseteq DoomedWorkers \ {w}
        PROVE  Paid'
    <2>1. IsFiniteSet(DoomedWorkers') /\ Cardinality(DoomedWorkers') \in Nat
          /\ Cardinality(DoomedWorkers') <= Cardinality(DoomedWorkers) - 1
      <3>1. DoomedWorkers' \subseteq DoomedWorkers \cup {w} /\ w \notin DoomedWorkers'
        BY <1>7
      <3> QED BY <1>0, <1>7, <3>1, Grows
    <2> QED BY <1>0, <1>1, <1>4, <1>7, <2>1 DEF Paid
  <1>8. CASE Fault /\ LosesOne /\ DoomedWorkers' \subseteq DoomedWorkers
    BY <1>0, <1>1, <1>2, <1>4, <1>5, <1>8 DEF Paid
  <1>9. ASSUME Fault, Safe, NEW w \in Workers, DoomedWorkers' \subseteq DoomedWorkers \cup {w}
        PROVE  Paid'
    <2>1. IsFiniteSet(DoomedWorkers') /\ Cardinality(DoomedWorkers') \in Nat
          /\ Cardinality(DoomedWorkers') <= Cardinality(DoomedWorkers) + 1
      BY <1>0, <1>9, Grows
    <2> QED BY <1>0, <1>1, <1>2, <1>3, <1>9, <2>1 DEF Paid
  <1> QED BY <1>0, <1>6, <1>7, <1>8, <1>9 DEF Charged

(* Redis loses its list by a fault only. *)
WipedByFault == faults = 0 => wiped = {}

(* A step that leaves the faults at zero is not one of those. *)
LEMMA NextWiped == ASSUME Types, WipedByFault, [Next]_vars PROVE WipedByFault'
  <1>1. faults \in Nat /\ faults' \in Nat /\ faults' >= faults
    BY FaultsGrow DEF Types
  <1>2. wiped' = wiped \/ Fault
    BY StepKinds DEF Quiet, Emptied, Pushed, Popped, Dropped, Stored
  <1> QED BY <1>1, <1>2 DEF WipedByFault, Fault

(* The invariant, from which the loss of votes and the last votes follow. *)
Ledger == Types /\ InOrder /\ Unconnected /\ Numbered /\ Paid /\ WipedByFault

(* The ledger is kept: every loss is charged to a fault of its own. *)
THEOREM LedgerKept == Spec => []Ledger
  <1>1. Init => Ledger
    <2> SUFFICES ASSUME Init PROVE Ledger
      OBVIOUS
    <2>1. LostVotes = {} /\ DoomedWorkers = {}
      BY DEF Init, LostVotes, DoomedWorkers, Doomed
    <2>2. Unconnected /\ Numbered /\ WipedByFault /\ faults = 0
      BY DEF Init, Unconnected, Numbered, WipedByFault
    <2> QED BY <2>1, <2>2, InitTypes, InitOrder, FS_EmptySet DEF Ledger, Paid
  <1>2. Ledger /\ [Next]_vars => Ledger'
    BY NextTypes, NextOrder, NextNumbered, NextPaid, NextWiped DEF Ledger
  <1> QED BY <1>1, <1>2, PTL DEF Spec

(* Each fault loses one vote at most, and nothing else loses any: every vote
   pushed is in the list, in a worker's hands or in the table, or a fault of
   its own is to blame; votes lost with the whole list, and voters on whom
   two workers overlapped, are left out. *)
THEOREM NoVoteLost == Spec => []OneVotePerFault
  <1>1. Ledger => OneVotePerFault
    <2> SUFFICES ASSUME Ledger PROVE OneVotePerFault
      OBVIOUS
    <2>1. /\ Cardinality(LostVotes) \in Nat /\ Cardinality(DoomedWorkers) \in Nat /\ faults \in Nat
          /\ Cardinality(LostVotes) + Cardinality(DoomedWorkers) <= faults
      BY FS_CardinalityType DEF Ledger, Paid, Types
    <2> QED BY <2>1 DEF OneVotePerFault
  <1> QED BY <1>1, LedgerKept, PTL

(* A vote that is neither in the list nor in a worker's hands is in the table
   as itself or as a later one of its voter, and of those there is none
   when it is the last. *)
LEMMA LastInRow ==
  ASSUME Ledger, Idle, faults = 0,
         NEW i \in Ids, ~raced[i], NEW k \in LastCast(i)
  PROVE  row[i].vote = cast[k].vote
  <1>0. Types /\ InOrder /\ Numbered /\ Paid
    BY DEF Ledger
  <1>1. /\ k \in 1 .. Len(cast) /\ cast[k].id = i /\ Len(cast) \in Nat
        /\ \A j \in k + 1 .. Len(cast) : cast[j].id # i
    BY <1>0, LenProperties DEF LastCast, Types, StoreTypes
  <1>2. cast[k] \in Ballots /\ cast[k].n = k
    BY <1>0, <1>1, ElementOfSeq DEF Numbered, Types, StoreTypes
  <1>3. \A w \in Workers : held[w] # cast[k]
    BY <1>1, <1>2 DEF Idle, Holding
  <1>4. Len(votes) = 0
    BY EmptySeq DEF Idle
  <1>5. LostVotes = {}
    <2>1. /\ Cardinality(LostVotes) \in Nat /\ Cardinality(DoomedWorkers) \in Nat
          /\ Cardinality(LostVotes) + Cardinality(DoomedWorkers) <= 0 /\ IsFiniteSet(LostVotes)
      BY <1>0, FS_CardinalityType DEF Paid
    <2>2. Cardinality(LostVotes) = 0
      BY <2>1
    <2> QED BY <2>1, <2>2, FS_EmptySet
  <1>6. row[i].n >= k
    <2>1. Accounted(cast[k])
      BY <1>1, <1>5 DEF LostVotes
    <2>2. wiped = {}
      BY DEF Ledger, WipedByFault
    <2> QED BY <1>1, <1>2, <1>3, <1>4, <2>1, <2>2 DEF Accounted
  <1>7. row[i].n \in Nat
    BY <1>0 DEF Types, StoreTypes, Rows
  <1>8. row[i].n <= Len(cast) /\ cast[row[i].n] = Entry(i)
    BY <1>0, <1>1, <1>6, <1>7 DEF InOrder, HasRow, Recorded, Entry
  <1>9. row[i].n \notin k + 1 .. Len(cast)
    BY <1>1, <1>8 DEF Entry
  <1>10. row[i].n = k
    BY <1>1, <1>6, <1>7, <1>8, <1>9
  <1> QED BY <1>8, <1>10 DEF Entry

(* When all votes are handled and nothing failed, every voter on whom no two
   workers overlapped is counted for the last vote cast; with a single
   worker that is every voter. *)
THEOREM LastVotesCounted == Spec => []LastVoteCounts
  <1>1. Ledger => LastVoteCounts
    BY LastInRow DEF LastVoteCounts
  <1> QED BY <1>1, LedgerKept, PTL

-----------------------------------------------------------------------------
(* One worker *)

(* A worker alone never overlaps with anybody: with the single worker of
   docker-compose.yml the exception for overlaps in the properties above is
   empty, so a later vote always wins. *)
NoneRaced == \A i \in Ids : ~raced[i]
(* With a single worker no two workers ever overlap on a voter. *)
THEOREM OneWorkerNeverRaces ==
  ASSUME \A u, w \in Workers : u = w
  PROVE  Spec => []NoneRaced
  <1>1. Init => Types /\ NoneRaced
    BY InitTypes DEF Init, NoneRaced
  <1>2. ASSUME Types, NoneRaced, [Next]_vars PROVE NoneRaced'
    <2>1. ASSUME NEW w \in Workers, Popped(w) PROVE NoneRaced'
      <3>1. raced' = [raced EXCEPT ![Head(votes).id] = @ \/ Overlaps(w, Head(votes).id)]
            /\ raced \in [Ids -> BOOLEAN]
        BY <1>2, <2>1 DEF Popped, Types, StoreTypes
      <3>2. ~Overlaps(w, Head(votes).id)
        BY DEF Overlaps
      <3> QED BY <1>2, <3>1, <3>2, Zenon DEF NoneRaced
    <2>2. raced' = raced \/ \E w \in Workers : Popped(w)
      BY <1>2, StepKinds DEF Quiet, Emptied, Pushed, Dropped, Stored
    <2> QED BY <1>2, <2>1, <2>2 DEF NoneRaced
  <1>3. Types /\ NoneRaced /\ [Next]_vars => Types' /\ NoneRaced'
    BY <1>2, NextTypes
  <1> QED BY <1>1, <1>3, PTL DEF Spec

-----------------------------------------------------------------------------
(* One worker implements the table *)

LastIds == [i \in Ids |-> row[i].n]

(* A stored vote is recorded in the table, or was there before. *)
LEMMA StoredRecords ==
  ASSUME Types, InOrder, NoneRaced, NEW w \in Workers, Stored(w)
  PROVE  [Table!TableNext]_(Table!tableVars)
  <1>1. /\ held[w] \in Ballots /\ held[w].id \in Ids /\ held[w].n \in Nat \ {0}
        /\ row'[held[w].id].n = held[w].n
        /\ \A i \in Ids \ {held[w].id} : row'[i] = row[i]
    BY StoredRow DEF Ballots
  <1>2. Recorded(held[w]) /\ row[held[w].id].n <= held[w].n
    BY <1>1 DEF Stored, InOrder, Newest, NoneRaced
  <1>3. held[w].n \in 1 .. Len(cast) /\ cast[held[w].n] = held[w]
    <2>1. Len(cast) \in Nat
      BY LenProperties DEF Types, StoreTypes
    <2> QED BY <1>1, <1>2, <2>1 DEF Recorded
  <1>4. cast' = cast
    BY DEF Stored
  <1>5. LastIds' = [LastIds EXCEPT ![held[w].id] = held[w].n]
    BY <1>1 DEF LastIds
  <1>6. CASE row[held[w].id].n = held[w].n
    <2>1. LastIds' = LastIds
      BY <1>1, <1>5, <1>6 DEF LastIds
    <2> QED BY <1>4, <2>1 DEF LastIds, Table!tableVars
  <1>7. CASE row[held[w].id].n # held[w].n
    <2>1. row[held[w].id].n \in Int
      BY <1>1 DEF Types, StoreTypes, Rows
    <2>2. PICK k \in 1 .. Len(cast) : k = held[w].n
      BY <1>3
    <2>3. [i \in Ids |-> row[i].n]' = [[i \in Ids |-> row[i].n] EXCEPT ![cast[k].id] = k]
      BY <1>3, <1>5, <2>2 DEF LastIds
    <2>4. [i \in Ids |-> row[i].n][cast[k].id] < k
      BY <1>1, <1>2, <1>3, <1>7, <2>1, <2>2
    <2>5. Table!Record(k)
      BY <1>4, <2>3, <2>4 DEF Table!Record
    <2> QED BY <2>5 DEF Table!TableNext
  <1> QED BY <1>6, <1>7

(* The single worker of docker-compose.yml implements VoteTable: whatever is
   lost, fails or is started again, the table only ever takes over votes that
   were cast, and replaces one by a later one only. *)
THEOREM OneWorkerImplementsTable ==
  ASSUME \A u, w \in Workers : u = w
  PROVE  Spec => ImplementsTable
  <1>1. Init => Table!TableInit
    BY DEF Init, NoRow, Table!TableInit
  <1>2. Types /\ InOrder /\ NoneRaced /\ [Next]_vars => [Table!TableNext]_(Table!tableVars)
    <2> SUFFICES ASSUME Types, InOrder, NoneRaced, [Next]_vars
                 PROVE  [Table!TableNext]_(Table!tableVars)
      OBVIOUS
    <2>1. CASE cast' = cast /\ row' = row
      BY <2>1 DEF Table!tableVars
    <2>2. ASSUME NEW i \in Ids, NEW c \in Choices, Pushed(i, c)
          PROVE  Table!TableNext
      BY <2>2 DEF Pushed, Table!TableNext, Table!Cast, Table!Ballot
    <2>3. ASSUME NEW w \in Workers, Stored(w)
          PROVE  [Table!TableNext]_(Table!tableVars)
      BY <2>3, StoredRecords
    <2>4. \/ cast' = cast /\ row' = row
          \/ \E i \in Ids, c \in Choices : Pushed(i, c)
          \/ \E w \in Workers : Stored(w)
      BY StepKinds DEF Quiet, Emptied, Popped, Dropped
    <2> QED BY <2>1, <2>2, <2>3, <2>4
  <1>3. Types /\ InOrder /\ [Next]_vars => Types' /\ InOrder'
    BY NextTypes, NextOrder
  <1>4. Init => Types /\ InOrder
    BY InitTypes, InitOrder
  <1>5. Spec => []NoneRaced
    BY OneWorkerNeverRaces
  <1> QED BY <1>1, <1>2, <1>3, <1>4, <1>5, PTL DEF Spec, ImplementsTable, Table!TableSpec
=============================================================================
