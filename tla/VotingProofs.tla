---------------------------- MODULE VotingProofs ----------------------------
(***************************************************************************)
(* The order of the votes and their loss, for any number of browsers and   *)
(* workers and any number of requests and faults.                          *)
(***************************************************************************)
EXTENDS Voting, TLAPS, SequenceTheorems

(* The types, by the part of the system that changes them. *)
FrontTypes == /\ cookie \in [Browsers -> Ids \cup {NoId}]
              /\ loaded \in [Browsers -> BOOLEAN]
              /\ flight \subseteq Requests
              /\ \A q \in flight : /\ q.kind = "post" => q.vote \in Choices
                                   /\ q.served => q.id \in Ids
              /\ requests \in 0 .. MaxRequests
              /\ issued \in 0 .. MaxIds
              /\ owner \in [Ids -> SUBSET Browsers]

WorkerTypes == /\ wpc \in [Workers -> WorkerPC]
               /\ held \in [Workers -> Ballots \cup {NoVote}]
               /\ conn \in [Workers -> {"open", "lost", "closed"}]
               /\ keepable \in [Workers -> BOOLEAN]
               /\ \A w \in Workers : (wpc[w] \in HandlingPC) <=> Holding(w)

StoreTypes == /\ cast \in Seq(Ballots)
              /\ votes \in Seq(Ballots)
              /\ row \in [Ids -> Rows]
              /\ raced \in [Ids -> BOOLEAN]
              /\ wiped \subseteq Nat

Types == FrontTypes /\ WorkerTypes /\ StoreTypes /\ faults \in 0 .. MaxFaults

(* The parts are the whole. *)
LEMMA TypesAreTypeOK == Types <=> TypeOK
  BY DEF Types, FrontTypes, WorkerTypes, StoreTypes, TypeOK

(* The system starts well typed. *)
LEMMA InitTypes == Init => Types
  <1> SUFFICES ASSUME Init PROVE Types
    OBVIOUS
  <1>1. FrontTypes
    <2>1. loaded \in [Browsers -> BOOLEAN]
      BY Zenon DEF Init
    <2> QED BY <2>1, BoundsAssumption DEF Init, FrontTypes
  <1>2. WorkerTypes
    <2>1. keepable \in [Workers -> BOOLEAN]
      BY Zenon DEF Init
    <2>2. wpc \in [Workers -> WorkerPC] /\ held \in [Workers -> Ballots \cup {NoVote}]
          /\ conn \in [Workers -> {"open", "lost", "closed"}]
      BY DEF Init, WorkerPC
    <2>3. \A w \in Workers : wpc[w] \notin HandlingPC /\ ~Holding(w)
      BY DEF Init, HandlingPC, Holding, NoVote
    <2> QED BY <2>1, <2>2, <2>3 DEF WorkerTypes
  <1>3. StoreTypes
    <2>1. raced \in [Ids -> BOOLEAN]
      BY Zenon DEF Init
    <2>2. row \in [Ids -> Rows]
      BY DEF Init, Rows, NoRow
    <2> QED BY <2>1, <2>2, EmptySeq DEF Init, StoreTypes
  <1>4. faults \in 0 .. MaxFaults
    BY BoundsAssumption DEF Init
  <1> QED BY <1>1, <1>2, <1>3, <1>4 DEF Types

-----------------------------------------------------------------------------
(* Types: browsers and vote application *)

(* A fault is counted, or none happens. *)
LEMMA FaultTypes == faults \in 0 .. MaxFaults /\ (Fault \/ NoFault) => faults' \in 0 .. MaxFaults
  BY BoundsAssumption DEF Fault, NoFault

(* Sending a request. *)
LEMMA SendTypes ==
  ASSUME Types, NEW b \in Browsers, OpenPage(b) \/ PostVote(b)
  PROVE  Types'
  <1>1. PICK kind \in {"get", "post"}, v \in Choices \cup {NoChoice} :
           Send(b, kind, v) /\ (kind = "post" => v \in Choices)
    BY DEF OpenPage, PostVote
  <1> DEFINE r == Request(b, kind, v)
  <1>2. r \in Requests /\ r.kind = kind /\ r.vote = v /\ r.served = FALSE
    BY DEF Request, Requests, Types, FrontTypes
  <1>3. flight' = flight \cup {r} /\ requests' \in 0 .. MaxRequests
    BY <1>1, BoundsAssumption DEF Send, Types, FrontTypes
  <1> HIDE DEF r
  <1>4. flight' \subseteq Requests
        /\ \A q \in flight' : (q.kind = "post" => q.vote \in Choices) /\ (q.served => q.id \in Ids)
    BY <1>1, <1>2, <1>3 DEF Types, FrontTypes
  <1>5. FrontTypes'
    BY <1>1, <1>3, <1>4 DEF Send, Types, FrontTypes
  <1>6. WorkerTypes' /\ StoreTypes' /\ faults' \in 0 .. MaxFaults
    BY <1>1, FaultTypes DEF Send, Types, WorkerTypes, StoreTypes, queueVars, workerVars, Holding
  <1> QED BY <1>5, <1>6 DEF Types

(* The handler gives out an id at most once. *)
LEMMA IssueTypes ==
  ASSUME FrontTypes, NEW q \in flight, Issue(q)
  PROVE  /\ VoterId(q) \in Ids
         /\ issued' \in 0 .. MaxIds
         /\ owner' \in [Ids -> SUBSET Browsers]
         /\ Served(q) \in Requests
         /\ Served(q).kind = q.kind /\ Served(q).vote = q.vote /\ Served(q).id \in Ids
  <1>1. VoterId(q) \in Ids
    BY DEF Issue
  <1>2. issued' \in 0 .. MaxIds
    BY <1>1, BoundsAssumption DEF FrontTypes, Issue, VoterId, Ids
  <1>3. owner' \in [Ids -> SUBSET Browsers]
    <2>1. q.b \in Browsers
      BY DEF FrontTypes, Requests
    <2> QED BY <1>1, <2>1 DEF FrontTypes, Issue
  <1>4. /\ Served(q) \in Requests
        /\ Served(q).kind = q.kind /\ Served(q).vote = q.vote /\ Served(q).id = VoterId(q)
    BY <1>1 DEF FrontTypes, Served, Requests
  <1> QED BY <1>1, <1>2, <1>3, <1>4

(* A push. *)
LEMMA PushTypes ==
  ASSUME Types, NEW q \in flight, q.kind = "post", VoterId(q) \in Ids, rpush(q)
  PROVE  cast' \in Seq(Ballots) /\ votes' \in Seq(Ballots)
  <1>1. Ballot(q) \in Ballots
    BY LenProperties DEF Ballot, Ballots, Types, FrontTypes, StoreTypes
  <1> QED BY <1>1, AppendProperties DEF rpush, Types, StoreTypes

(* The handler of the vote application and what becomes of its answer. *)
LEMMA HandlerTypes ==
  ASSUME Types, NEW q \in flight, HandlerStep(q) \/ HandlerFault(q)
  PROVE  Types'
  <1> USE DEF queueVars, workerVars
  <1>0. FrontTypes /\ WorkerTypes /\ StoreTypes /\ q \in Requests
    BY DEF Types, FrontTypes
  <1>1. CASE ServePage(q)
    <2>1. FrontTypes'
      BY <1>0, <1>1, IssueTypes DEF ServePage, FrontTypes
    <2>2. WorkerTypes' /\ StoreTypes' /\ faults' \in 0 .. MaxFaults
      BY <1>1, FaultTypes DEF ServePage, Types, WorkerTypes, StoreTypes, Holding
    <2> QED BY <2>1, <2>2 DEF Types
  <1>2. CASE ServeVote(q)
    <2>1. FrontTypes'
      BY <1>0, <1>2, IssueTypes DEF ServeVote, FrontTypes
    <2>2. StoreTypes'
      BY <1>0, <1>2, IssueTypes, PushTypes DEF ServeVote, rpush, StoreTypes
    <2>3. WorkerTypes' /\ faults' \in 0 .. MaxFaults
      BY <1>2, FaultTypes DEF ServeVote, Types, WorkerTypes, Holding
    <2> QED BY <2>1, <2>2, <2>3 DEF Types
  <1>3. CASE ServeVoteTimesOut(q)
    <2>1. FrontTypes'
      BY <1>0, <1>3, IssueTypes DEF ServeVoteTimesOut, FrontTypes
    <2>2. StoreTypes'
      BY <1>0, <1>3, IssueTypes, PushTypes DEF ServeVoteTimesOut, rpush, StoreTypes
    <2>3. WorkerTypes' /\ faults' \in 0 .. MaxFaults
      BY <1>3, FaultTypes DEF ServeVoteTimesOut, Types, WorkerTypes, Holding
    <2> QED BY <2>1, <2>2, <2>3 DEF Types
  <1>4. CASE Answer(q)
    <2>1. loaded' \in [Browsers -> BOOLEAN]
      BY <1>4, Zenon DEF Answer, Types, FrontTypes
    <2>2. FrontTypes'
      BY <1>0, <1>4, <2>1 DEF Answer, FrontTypes, Requests
    <2>3. WorkerTypes' /\ StoreTypes' /\ faults' \in 0 .. MaxFaults
      BY <1>4, FaultTypes DEF Answer, Types, WorkerTypes, StoreTypes, Holding
    <2> QED BY <2>2, <2>3 DEF Types
  <1>5. CASE AnswerLost(q)
    <2>1. FrontTypes'
      BY <1>0, <1>5 DEF AnswerLost, FrontTypes
    <2>2. WorkerTypes' /\ StoreTypes' /\ faults' \in 0 .. MaxFaults
      BY <1>5, FaultTypes DEF AnswerLost, Types, WorkerTypes, StoreTypes, Holding
    <2> QED BY <2>1, <2>2 DEF Types
  <1> QED BY <1>1, <1>2, <1>3, <1>4, <1>5 DEF HandlerStep, HandlerFault

-----------------------------------------------------------------------------
(* Types: workers *)

(* A worker changes only what is its own. *)
LEMMA OwnTypes ==
  ASSUME WorkerTypes, NEW w \in Workers, NEW p \in WorkerPC,
         wpc' = [wpc EXCEPT ![w] = p],
         held' = held \/ \E v \in Ballots \cup {NoVote} : held' = [held EXCEPT ![w] = v],
         conn' = conn \/ \E c \in {"open", "lost", "closed"} : conn' = [conn EXCEPT ![w] = c],
         keepable' = keepable \/ \E k \in BOOLEAN : keepable' = [keepable EXCEPT ![w] = k],
         p \in HandlingPC <=> held'[w].n # 0
  PROVE  WorkerTypes'
  <1>1. keepable' \in [Workers -> BOOLEAN]
    BY Zenon DEF WorkerTypes
  <1>2. wpc' \in [Workers -> WorkerPC]
    BY DEF WorkerTypes
  <1>3. held' \in [Workers -> Ballots \cup {NoVote}]
    BY DEF WorkerTypes
  <1>4. conn' \in [Workers -> {"open", "lost", "closed"}]
    BY DEF WorkerTypes
  <1>5. \A u \in Workers : (wpc'[u] \in HandlingPC) <=> held'[u].n # 0
    <2>1. \A u \in Workers \ {w} : wpc'[u] = wpc[u] /\ held'[u] = held[u]
      BY DEF WorkerTypes
    <2>2. wpc'[w] = p
      BY DEF WorkerTypes
    <2> QED BY <2>1, <2>2 DEF WorkerTypes, Holding
  <1> QED BY <1>1, <1>2, <1>3, <1>4, <1>5 DEF WorkerTypes, Holding

(* A worker's own variables, one worker at a time. *)
LEMMA OwnSame ==
  ASSUME WorkerTypes, NEW w \in Workers
  PROVE  /\ held[w] \in Ballots \cup {NoVote}
         /\ wpc[w] \in WorkerPC
         /\ wpc[w] \in HandlingPC <=> held[w].n # 0
         /\ \A v : [held EXCEPT ![w] = v][w] = v
  BY DEF WorkerTypes, Holding

(* The places in the worker's code, and what a vote in hand is. *)
LEMMA Places ==
  /\ HandlingPC \subseteq WorkerPC
  /\ {"start", "poll", "exited"} \subseteq WorkerPC
  /\ {"start", "poll", "exited"} \cap HandlingPC = {}
  /\ NoVote.n = 0
  /\ \A v \in Ballots : v.n # 0
  BY DEF HandlingPC, WorkerPC, NoVote, Ballots

(* An exit, from wherever the worker is. *)
LEMMA ExitTypes == ASSUME WorkerTypes, NEW w \in Workers, Exit(w) PROVE WorkerTypes'
  <1>1. held'[w].n = 0
    BY OwnSame, Places DEF Exit
  <1>2. "exited" \in WorkerPC /\ "exited" \notin HandlingPC
    BY Places
  <1> QED BY <1>1, <1>2, OwnTypes DEF Exit

(* A vote popped. *)
LEMMA PopTypes ==
  ASSUME StoreTypes, votes # <<>>
  PROVE  Head(votes) \in Ballots /\ Head(votes).id \in Ids /\ Tail(votes) \in Seq(Ballots)
  <1>1. Head(votes) \in Ballots /\ Tail(votes) \in Seq(Ballots)
    BY HeadTailProperties DEF StoreTypes
  <1> QED BY <1>1 DEF Ballots

(* A vote stored. *)
LEMMA StoreKeepsTypes ==
  ASSUME WorkerTypes, StoreTypes, NEW w \in Workers, Holding(w), Store(w)
  PROVE  row' \in [Ids -> Rows]
  <1>1. held[w] \in Ballots
    BY Places DEF WorkerTypes, Holding
  <1>2. RowOf(w) \in Rows
    BY <1>1 DEF RowOf, Rows, Ballots
  <1> QED BY <1>2 DEF Store, StoreTypes

(* The steps of a worker between start, list and check. *)
LEMMA WorkerLoopTypes ==
  ASSUME Types, NEW w \in Workers,
         \/ Start(w) \/ Pop(w) \/ PopThrows(w) \/ KeepAliveThrows(w)
         \/ CheckState(w) \/ Reconnect(w) \/ Crash(w) \/ Restart(w)
  PROVE  WorkerTypes' /\ StoreTypes'
  <1> USE DEF Goto, queueVars
  <1>0. WorkerTypes /\ StoreTypes
    BY DEF Types
  <1>1. CASE Start(w)
    <2>1. WorkerTypes'
      BY <1>0, <1>1, OwnTypes, OwnSame, Places DEF Start
    <2> QED BY <1>0, <1>1, <2>1 DEF Start, StoreTypes
  <1>2. CASE Pop(w)
    <2>1. WorkerTypes'
      <3>1. Head(votes) \in Ballots
        BY <1>0, <1>2, PopTypes DEF Pop
      <3>2. wpc' = [wpc EXCEPT ![w] = "held"] /\ held' = [held EXCEPT ![w] = Head(votes)]
            /\ conn' = conn /\ keepable' = keepable
        BY <1>2 DEF Pop
      <3>3. "held" \in WorkerPC /\ "held" \in HandlingPC /\ Head(votes).n # 0
        BY <3>1, Places DEF HandlingPC, WorkerPC
      <3> QED BY <1>0, <3>1, <3>2, <3>3, OwnTypes, OwnSame
    <2>2. raced' \in [Ids -> BOOLEAN]
      <3>1. raced \in [Ids -> BOOLEAN] /\ Overlaps(w, Head(votes).id) \in BOOLEAN
        BY <1>0, Zenon DEF StoreTypes, Overlaps
      <3> QED BY <1>2, <3>1, Zenon DEF Pop
    <2>3. StoreTypes'
      BY <1>0, <1>2, <2>2, PopTypes DEF Pop, StoreTypes
    <2> QED BY <2>1, <2>3
  <1>3. CASE PopThrows(w)
    <2>1. WorkerTypes'
      BY <1>0, <1>3, ExitTypes DEF PopThrows
    <2> QED BY <1>0, <1>3, <2>1, PopTypes DEF PopThrows, StoreTypes
  <1>4. CASE KeepAliveThrows(w)
    <2>1. WorkerTypes'
      BY <1>0, <1>4, ExitTypes DEF KeepAliveThrows
    <2> QED BY <1>0, <1>4, <2>1 DEF KeepAliveThrows, StoreTypes
  <1>5. CASE CheckState(w)
    <2>1. PICK p \in {"reconnect", "insert"} : wpc' = [wpc EXCEPT ![w] = p]
      BY <1>5 DEF CheckState
    <2>2. p \in WorkerPC /\ p \in HandlingPC /\ "held" \in HandlingPC
      BY DEF WorkerPC, HandlingPC
    <2>3. held[w].n # 0 /\ held' = held /\ conn' = conn /\ keepable' = keepable
      BY <1>0, <1>5, <2>2, OwnSame DEF CheckState
    <2>4. WorkerTypes'
      BY <1>0, <2>1, <2>2, <2>3, OwnTypes, OwnSame
    <2> QED BY <1>0, <1>5, <2>4 DEF CheckState, StoreTypes
  <1>6. CASE Reconnect(w)
    <2>1. WorkerTypes'
      BY <1>0, <1>6, OwnTypes, OwnSame, Places DEF Reconnect
    <2> QED BY <1>0, <1>6, <2>1 DEF Reconnect, StoreTypes
  <1>7. CASE Crash(w)
    <2>1. WorkerTypes'
      BY <1>0, <1>7, ExitTypes DEF Crash
    <2> QED BY <1>0, <1>7, <2>1 DEF Crash, StoreTypes
  <1>8. CASE Restart(w)
    <2>a. held[w].n = 0 /\ held' = held /\ conn' = conn /\ keepable' = keepable
          /\ wpc' = [wpc EXCEPT ![w] = "start"]
      BY <1>0, <1>8, OwnSame, Places DEF Restart
    <2>1. WorkerTypes'
      BY <1>0, <2>a, OwnTypes, OwnSame, Places
    <2> QED BY <1>0, <1>8, <2>1 DEF Restart, StoreTypes
  <1> QED BY <1>1, <1>2, <1>3, <1>4, <1>5, <1>6, <1>7, <1>8

(* The steps of UpdateVote and of the connection. *)
LEMMA WorkerUpdateTypes ==
  ASSUME Types, NEW w \in Workers,
         \/ Insert(w) \/ InsertThrows(w) \/ InsertRefused(w) \/ InsertUnanswered(w)
         \/ Update(w) \/ UpdateUnanswered(w) \/ UpdateThrows(w)
         \/ LoseConnection(w) \/ NoticeLoss(w)
  PROVE  WorkerTypes' /\ StoreTypes'
  <1> USE DEF queueVars
  <1>0. WorkerTypes /\ StoreTypes
    BY DEF Types
  <1>1. "insert" \in HandlingPC /\ "update" \in HandlingPC /\ "update" \in WorkerPC
    BY DEF HandlingPC, WorkerPC
  <1>2. ASSUME Done(w, "insert") \/ Done(w, "update"), conn' = conn, keepable' = keepable
        PROVE  WorkerTypes' /\ Holding(w)
    <2>1. wpc' = [wpc EXCEPT ![w] = "poll"] /\ held' = [held EXCEPT ![w] = NoVote]
          /\ wpc[w] \in HandlingPC
      BY <1>1, <1>2 DEF Done, Goto
    <2>2. WorkerTypes'
      BY <1>0, <1>2, <2>1, OwnTypes, OwnSame, Places
    <2> QED BY <1>0, <2>1, <2>2 DEF WorkerTypes
  <1>3. ASSUME NEW c \in {"open", "lost", "closed"}, Goto(w, "insert", "update"),
               conn' = [conn EXCEPT ![w] = c], held' = held, keepable' = keepable
        PROVE  WorkerTypes' /\ Holding(w)
    <2>1. wpc' = [wpc EXCEPT ![w] = "update"] /\ wpc[w] \in HandlingPC
      BY <1>1, <1>3 DEF Goto
    <2>2. WorkerTypes'
      BY <1>0, <1>1, <1>3, <2>1, OwnTypes, OwnSame
    <2> QED BY <1>0, <2>1, <2>2 DEF WorkerTypes
  <1>4. ASSUME NEW c \in {"open", "lost", "closed"}, conn' = [conn EXCEPT ![w] = c],
               wpc' = wpc, held' = held, keepable' = keepable
        PROVE  WorkerTypes'
    <2>1. conn' \in [Workers -> {"open", "lost", "closed"}]
      BY <1>0, <1>4 DEF WorkerTypes
    <2> QED BY <1>0, <1>4, <2>1 DEF WorkerTypes, Holding
  <1>5. CASE Insert(w)
    BY <1>0, <1>2, <1>5, StoreKeepsTypes DEF Insert, StoreTypes
  <1>6. CASE InsertThrows(w)
    <2>1. PICK c \in {"open", "lost", "closed"} : conn' = [conn EXCEPT ![w] = c]
      BY <1>6 DEF InsertThrows
    <2> QED BY <1>0, <1>3, <1>6, <2>1 DEF InsertThrows, StoreTypes
  <1>7. CASE InsertRefused(w)
    <2>1. wpc' = [wpc EXCEPT ![w] = "update"] /\ wpc[w] \in HandlingPC
          /\ held' = held /\ conn' = conn /\ keepable' = keepable
      BY <1>1, <1>7 DEF InsertRefused, Goto
    <2>2. WorkerTypes'
      BY <1>0, <1>1, <2>1, OwnTypes, OwnSame
    <2> QED BY <1>0, <1>7, <2>2 DEF InsertRefused, StoreTypes
  <1>8. CASE InsertUnanswered(w)
    BY <1>0, <1>3, <1>8, StoreKeepsTypes DEF InsertUnanswered, StoreTypes
  <1>9. CASE Update(w)
    BY <1>0, <1>2, <1>9, StoreKeepsTypes DEF Update, StoreTypes
  <1>10. CASE UpdateUnanswered(w)
    <2>1. Holding(w)
      BY <1>0, <1>1, <1>10 DEF UpdateUnanswered, WorkerTypes
    <2> QED BY <1>0, <1>10, <2>1, ExitTypes, StoreKeepsTypes DEF UpdateUnanswered, StoreTypes
  <1>11. CASE UpdateThrows(w)
    BY <1>0, <1>11, ExitTypes DEF UpdateThrows, StoreTypes
  <1>12. CASE LoseConnection(w)
    BY <1>0, <1>4, <1>12 DEF LoseConnection, StoreTypes
  <1>13. CASE NoticeLoss(w)
    BY <1>0, <1>4, <1>13 DEF NoticeLoss, StoreTypes
  <1> QED BY <1>5, <1>6, <1>7, <1>8, <1>9, <1>10, <1>11, <1>12, <1>13

(* Any step of a worker, its environment's included. *)
LEMMA WorkerStepTypes ==
  ASSUME Types, NEW w \in Workers, WorkerStep(w) \/ WorkerFault(w) \/ Restart(w)
  PROVE  Types'
  <1>1. WorkerTypes' /\ StoreTypes'
    BY WorkerLoopTypes, WorkerUpdateTypes DEF WorkerStep, WorkerFault
  <1>2. UNCHANGED frontVars /\ (Fault \/ NoFault)
    BY DEF WorkerStep, WorkerFault, Restart, Start, Pop, PopThrows, KeepAliveThrows, CheckState,
           Reconnect, Crash, Insert, InsertThrows, InsertRefused, InsertUnanswered, Update,
           UpdateUnanswered, UpdateThrows, LoseConnection, NoticeLoss
  <1>3. FrontTypes' /\ faults' \in 0 .. MaxFaults
    BY <1>2, FaultTypes DEF frontVars, Types, FrontTypes
  <1> QED BY <1>1, <1>3 DEF Types

(* Every step keeps the types. *)
LEMMA NextTypes == ASSUME Types, [Next]_vars PROVE Types'
  <1>1. CASE UNCHANGED vars
    BY <1>1 DEF vars, frontVars, queueVars, workerVars, Types, FrontTypes, WorkerTypes, StoreTypes,
                Holding
  <1>2. CASE LoseList
    <2>1. FrontTypes' /\ WorkerTypes' /\ faults' \in 0 .. MaxFaults
      BY <1>2, FaultTypes DEF LoseList, frontVars, workerVars, Types, FrontTypes, WorkerTypes, Holding
    <2>2. \A k \in 1 .. Len(votes) : votes[k].n \in Nat
      <3>1. votes \in Seq(Ballots)
        BY DEF Types, StoreTypes
      <3>2. \A k \in 1 .. Len(votes) : votes[k] \in Ballots
        BY <3>1, ElementOfSeq
      <3> QED BY <3>2 DEF Ballots
    <2>3. wiped' \subseteq Nat
      BY <1>2, <2>2 DEF LoseList, Types, StoreTypes
    <2>4. StoreTypes'
      BY <1>2, <2>3, EmptySeq DEF LoseList, Types, StoreTypes
    <2> QED BY <2>1, <2>4 DEF Types
  <1> QED BY <1>1, <1>2, SendTypes, HandlerTypes, WorkerStepTypes DEF Next

(* Type correctness: ids stay within those handed out, and a worker has a
   vote in hand exactly while it handles one, however it leaves the loop. *)
THEOREM TypeCorrect == Spec => []TypeOK
  <1>1. Spec => []Types
    BY InitTypes, NextTypes, PTL DEF Spec
  <1> QED BY <1>1, TypesAreTypeOK, PTL
=============================================================================
