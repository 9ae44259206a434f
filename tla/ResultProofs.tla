---------------------------- MODULE ResultProofs ----------------------------
(***************************************************************************)
(* What the pages show, for any number of voters and pages and any number  *)
(* of votes, connections and faults.                                       *)
(***************************************************************************)
EXTENDS Result, TLAPS, SequenceTheorems, FiniteSetTheorems

CastBallots == [id : Voters, vote : Choices, n : Nat]

(* The types, by the part of the system that changes them. *)
TableTypes == /\ cast \in Seq(CastBallots)
              /\ last \in Snapshots
              /\ dbup \in BOOLEAN
              /\ table \in BOOLEAN

(* The server counts its attempts only while it connects. *)
ServerTypes == /\ poll \in {"connect", "asked", "answered", "wait", "gaveup", "down"}
               /\ tries \in 0 .. Tries
               /\ poll = "connect" => tries < Tries
               /\ poll = "down" => tries = 0
               /\ client \in {"none", "open", "lost"}
               /\ answer \in Answers \cup {Nothing, Failed}
               /\ poll = "answered" => answer \in Answers \cup {Failed}

PageTypes == /\ sock \in [Pages -> BOOLEAN]
             /\ wire \in [Pages -> Seq(Messages)]
             /\ handlers \in [Pages -> Nat]
             /\ shown \in [Pages -> Views \cup {Nothing}]
             /\ connects \in 0 .. MaxConnects

Types == TableTypes /\ ServerTypes /\ PageTypes /\ faults \in 0 .. MaxFaults

-----------------------------------------------------------------------------
(* Counts and percentages *)

(* A rounded share is a percentage. *)
LEMMA ShareInRange ==
  ASSUME NEW a \in Nat, NEW b \in Nat, a + b > 0, NEW n \in RoundedShare(a, b)
  PROVE  n \in Percent
  <1> DEFINE t == a + b
  <1> DEFINE down == (100 * a) \div t
  <1>1. t \in Nat /\ t > 0 /\ 100 * a \in Nat /\ 100 * a <= 100 * t
    OBVIOUS
  <1>2. down \in Int /\ down * t <= 100 * a /\ 100 * a < down * t + t
    BY <1>1
  <1>3. n \in Int /\ (n = down \/ n = down + 1)
    BY <1>2 DEF RoundedShare
  <1>4. 2 * (100 * a - n * t) \in -t .. t
    BY DEF RoundedShare
  <1> HIDE DEF down, t
  <1>5. n >= 0
    <2>1. SUFFICES down >= 0
      BY <1>2, <1>3
    <2>2. CASE down < 0
      <3>1. down * t + t <= 0
        <4>1. (down + 1) * t <= 0
          BY <1>1, <1>2, <2>2
        <4>2. (down + 1) * t = down * t + t
          BY <1>1, <1>2
        <4> QED BY <1>1, <1>2, <4>1, <4>2
      <3> QED BY <1>1, <1>2, <3>1
    <2> QED BY <1>2, <2>2
  <1>6. n <= 100
    <2>1. SUFFICES ASSUME n >= 101 PROVE FALSE
      BY <1>3
    <2>2. n * t >= 101 * t
      BY <1>1, <1>3, <2>1
    <2>3. n * t \in Int
      BY <1>1, <1>3
    <2>4. 2 * (100 * a - n * t) < -t
      BY <1>1, <2>2, <2>3
    <2> QED BY <1>1, <1>4, <2>3, <2>4
  <1> QED BY <1>3, <1>5, <1>6 DEF Percent

(* The bars are percentages. *)
LEMMA BarsInRange ==
  ASSUME NEW a \in Nat, NEW b \in Nat
  PROVE  getPercentages(a, b) \subseteq [a : Percent, b : Percent]
  <1>1. CASE a + b > 0
    <2>1. ASSUME NEW n \in RoundedShare(a, b) PROVE n \in Percent /\ 100 - n \in Percent
      <3>1. n \in Percent
        BY <1>1, ShareInRange
      <3> QED BY <3>1 DEF Percent
    <2> QED BY <1>1, <2>1 DEF getPercentages
  <1>2. CASE ~(a + b > 0)
    BY <1>2 DEF getPercentages, Percent
  <1> QED BY <1>1, <1>2

(* Whole numbers of shares compare as their factors do. *)
LEMMA SharesCompare ==
  ASSUME NEW n \in Int, NEW k \in Int, NEW t \in Nat, n <= k
  PROVE  n * t <= k * t
  OBVIOUS

(* The rounded share is next to the share, and on its side of the half. *)
LEMMA ShareTells ==
  ASSUME NEW a \in Nat, NEW b \in Nat, a + b > 0, NEW n \in RoundedShare(a, b)
  PROVE  AsTold([a |-> n, b |-> 100 - n], a, b)
  <1> DEFINE t == a + b
             x == n * t
             bars == [a |-> n, b |-> 100 - n]
  <1>1. n \in 0 .. 100 /\ t \in Nat /\ t > 0 /\ t = a + b
    <2>1. n \in Percent
      BY ShareInRange
    <2> QED BY <2>1 DEF Percent
  <1>2. 2 * (100 * a - x) \in -t .. t
    BY DEF RoundedShare
  <1>3. x \in Int /\ (100 - n) * t = 100 * t - x
    BY <1>1
  <1>4. n >= 51 => x >= 51 * t
    <2>1. n >= 51 => 51 * t <= n * t
      BY <1>1, SharesCompare
    <2> QED BY <2>1
  <1>5. n <= 49 => x <= 49 * t
    <2>1. n <= 49 => n * t <= 49 * t
      BY <1>1, SharesCompare
    <2> QED BY <2>1
  <1>6. bars.a = n /\ bars.b = 100 - n
    OBVIOUS
  <1>7. 100 * a - bars.a * t \in -t .. t
    <2>1. 100 * a - x \in -t .. t
      <3> HIDE DEF x, t
      <3> QED BY <1>1, <1>2, <1>3
    <2> QED BY <1>6, <2>1
  <1>8. 100 * b - bars.b * t \in -t .. t
    <2>1. bars.b * t = 100 * t - x
      BY <1>3, <1>6
    <2>2. 100 * b - (100 * t - x) \in -t .. t
      <3> HIDE DEF x, t
      <3> QED BY <1>1, <1>2, <1>3
    <2> QED BY <2>1, <2>2
  <1>9. a >= b => n >= 50
    <2> HIDE DEF x, t
    <2> QED BY <1>1, <1>2, <1>3, <1>5
  <1>10. a <= b => n <= 50
    <2> HIDE DEF x, t
    <2> QED BY <1>1, <1>2, <1>3, <1>4
  <1>11. \A c \in {<<bars.a, a>>, <<bars.b, b>>} : 100 * c[2] - c[1] * t \in -t .. t
    BY <1>7, <1>8
  <1>12. bars.a + bars.b = 100
    BY <1>1, <1>6
  <1>13. /\ a = b => bars.a = bars.b
         /\ a > b => bars.a >= bars.b
         /\ a < b => bars.a <= bars.b
    <2> HIDE DEF bars
    <2> QED BY <1>1, <1>6, <1>9, <1>10
  <1> HIDE DEF bars
  <1>14. AsTold(bars, a, b)
    BY <1>11, <1>12, <1>13 DEF AsTold
  <1> QED BY <1>14 DEF bars

(* So do the bars, also when nobody has voted. *)
LEMMA PercentagesTell ==
  ASSUME NEW a \in Nat, NEW b \in Nat, NEW bars \in getPercentages(a, b)
  PROVE  AsTold(bars, a, b)
  <1>1. CASE a + b > 0
    BY <1>1, ShareTells DEF getPercentages
  <1>2. CASE ~(a + b > 0)
    BY <1>2 DEF getPercentages, AsTold
  <1> QED BY <1>1, <1>2

(* The voters whose row shows an option, and how many they are. *)
LEMMA CountInRange ==
  ASSUME NEW c PROVE Count(c) \in 0 .. Cardinality(Voters)
  <1> DEFINE S == {i \in Voters : last[i] # 0 /\ cast[last[i]].vote = c}
  <1>1. S \subseteq Voters /\ IsFiniteSet(Voters)
    BY VotersAssumption
  <1>2. IsFiniteSet(S) /\ Cardinality(S) <= Cardinality(Voters)
    BY <1>1, FS_Subset
  <1>3. Cardinality(S) \in Nat /\ Cardinality(Voters) \in Nat
    BY <1>1, <1>2, FS_CardinalityType
  <1> QED BY <1>2, <1>3 DEF Count

(* The answer to a query has its type. *)
LEMMA FoundTypes == ASSUME last \in Snapshots PROVE Found \in Answers
  <1>1. Cardinality(Voters) \in Nat
    BY VotersAssumption, FS_CardinalityType
  <1>2. Rows \subseteq [vote : Choices, count : Nat]
    BY <1>1 DEF Rows
  <1> QED BY <1>2 DEF Found, Answers

(* So have the scores made of it. *)
LEMMA ScoresTypes == ASSUME NEW f \in Answers PROVE Scores(f) \in Messages
  <1>1. collectVotesFromResult(f.rows) \in [Choices -> Nat]
    <2> SUFFICES ASSUME NEW c \in Choices, NEW r \in f.rows, r.vote = c
                 PROVE  (CHOOSE s \in f.rows : s.vote = c).count \in Nat
      BY DEF collectVotesFromResult
    <2>1. (CHOOSE s \in f.rows : s.vote = c) \in f.rows
      OBVIOUS
    <2> QED BY <2>1 DEF Answers
  <1> QED BY <1>1 DEF Scores, Messages, Answers

-----------------------------------------------------------------------------
(* Types *)

(* The parts make up the type invariant. *)
LEMMA TypesAreTypeOK == Types => TypeOK
  BY DEF Types, TableTypes, ServerTypes, PageTypes, TypeOK, CastBallots

(* The system starts well typed. *)
LEMMA InitTypes == Init => Types
  <1> SUFFICES ASSUME Init PROVE Types
    OBVIOUS
  <1>1. TableTypes
    BY EmptySeq DEF Init, TableInit, TableTypes, Snapshots
  <1>2. ServerTypes
    BY TriesAssumption DEF Init, ServerTypes
  <1>3. PageTypes
    <2>1. sock \in [Pages -> BOOLEAN]
      BY Zenon DEF Init
    <2> QED BY <2>1, EmptySeq, BoundsAssumption DEF Init, PageTypes
  <1>4. faults \in 0 .. MaxFaults
    BY BoundsAssumption DEF Init
  <1> QED BY <1>1, <1>2, <1>3, <1>4 DEF Types

(* Faults are counted. *)
LEMMA FaultTypes == faults \in 0 .. MaxFaults /\ (Fault \/ NoFault) => faults' \in 0 .. MaxFaults
  BY BoundsAssumption DEF Fault, NoFault

(* A vote that is cast or recorded. *)
LEMMA TableStepTypes ==
  ASSUME TableTypes, CastVote \/ RecordVote
  PROVE  TableTypes'
  <1>1. CASE CastVote
    <2>1. PICK i \in Voters, c \in Choices : Cast(i, c)
      BY <1>1 DEF CastVote
    <2>2. Ballot(i, c) \in CastBallots
      BY LenProperties DEF Ballot, CastBallots, TableTypes
    <2> QED BY <1>1, <2>1, <2>2, AppendProperties DEF TableTypes, CastVote, Cast
  <1>2. CASE RecordVote
    <2>1. PICK k \in 1 .. Len(cast) : Record(k)
      BY <1>2 DEF RecordVote
    <2>2. cast[k] \in CastBallots /\ k \in Nat
      BY <2>1, ElementOfSeq, LenProperties DEF TableTypes
    <2>3. last' \in Snapshots
      BY <2>1, <2>2 DEF Record, TableTypes, Snapshots, CastBallots
    <2> QED BY <1>2, <2>1, <2>3 DEF Record, TableTypes, RecordVote
  <1> QED BY <1>1, <1>2

(* The database and the steps of the server that send nothing. *)
Silent == \/ CreateTable \/ StopDb \/ StartDb \/ LoseClient
          \/ ConnectFails \/ ConnectOk \/ QueryRefused \/ Timer \/ Restart

(* They keep the types, and so does a query. *)
LEMMA SilentTypes ==
  ASSUME Types, Silent \/ RunQuery
  PROVE  Types'
  <1> USE DEF Types, serverVars, pageVars, tableVars
  <1>1. TableTypes'
    BY DEF TableTypes, Silent, CreateTable, StopDb, StartDb, LoseClient, ConnectFails, ConnectOk,
           QueryRefused, Timer, Restart, RunQuery
  <1>2. PageTypes'
    BY DEF PageTypes, Silent, CreateTable, StopDb, StartDb, LoseClient, ConnectFails, ConnectOk,
           QueryRefused, Timer, Restart, RunQuery
  <1>3. ServerTypes'
    <2> USE DEF ServerTypes
    <2>1. CASE RunQuery
      BY <2>1, FoundTypes DEF RunQuery, TableTypes
    <2>2. CASE ConnectFails
      BY <2>2, TriesAssumption DEF ConnectFails
    <2>3. CASE StopDb \/ LoseClient
      BY <2>3 DEF StopDb, LoseClient, DropClient
    <2>4. CASE CreateTable \/ StartDb
      BY <2>4 DEF CreateTable, StartDb
    <2>5. CASE ConnectOk \/ QueryRefused \/ Timer
      BY <2>5 DEF ConnectOk, QueryRefused, Timer
    <2>6. CASE Restart
      BY <2>6, TriesAssumption DEF Restart
    <2> QED BY <2>1, <2>2, <2>3, <2>4, <2>5, <2>6 DEF Silent
  <1>4. faults' \in 0 .. MaxFaults
    BY FaultTypes DEF Silent, CreateTable, StopDb, StartDb, LoseClient, ConnectFails, ConnectOk,
           QueryRefused, Timer, Restart, RunQuery
  <1> QED BY <1>1, <1>2, <1>3, <1>4

(* The scores are sent. *)
LEMMA CallbackTypes == ASSUME Types, Callback PROVE Types'
  <1> USE DEF Types, Callback, tableVars
  <1>1. wire' \in [Pages -> Seq(Messages)]
    <2>1. CASE answer = Failed
      BY <2>1 DEF PageTypes
    <2>2. CASE answer # Failed
      <3>1. Scores(answer) \in Messages
        BY <2>2, ScoresTypes DEF ServerTypes
      <3> DEFINE m == Scores(answer)
      <3> HIDE DEF m
      <3>2. \A p \in Pages : Append(wire[p], m) \in Seq(Messages)
        BY <3>1, AppendProperties DEF PageTypes, m
      <3>3. wire' = [p \in Pages |-> IF sock[p] THEN Append(wire[p], m) ELSE wire[p]]
        BY <2>2 DEF emit, m
      <3> QED BY <3>2, <3>3 DEF PageTypes
    <2> QED BY <2>1, <2>2
  <1>2. TableTypes' /\ PageTypes' /\ ServerTypes'
    BY <1>1 DEF TableTypes, PageTypes, ServerTypes
  <1> QED BY <1>2, FaultTypes

(* The process ends. *)
LEMMA DieTypes == ASSUME Types, NoticeLoss \/ Crash PROVE Types'
  <1>1. Die
    BY DEF NoticeLoss, Crash
  <1>2. sock' \in [Pages -> BOOLEAN]
    BY <1>1, Zenon DEF Die
  <1>3. TableTypes' /\ PageTypes' /\ ServerTypes'
    BY <1>1, <1>2, EmptySeq, TriesAssumption DEF Types, Die, TableTypes, PageTypes, ServerTypes, tableVars
  <1> QED BY <1>3, FaultTypes DEF Types, NoticeLoss, Crash

(* Pages come, go and receive. *)
LEMMA PageStepTypes ==
  ASSUME Types, NEW p \in Pages, Load(p) \/ Reconnect(p) \/ Disconnect(p) \/ Deliver(p)
  PROVE  Types'
  <1> USE DEF Types
  <1>0. UNCHANGED <<tableVars, dbup, table, serverVars>> /\ (Fault \/ NoFault)
    BY DEF Load, Reconnect, Join, Disconnect, Deliver
  <1>1. TableTypes' /\ ServerTypes' /\ faults' \in 0 .. MaxFaults
    BY <1>0, FaultTypes DEF TableTypes, ServerTypes, tableVars, serverVars
  <1>2. CASE Load(p) \/ Reconnect(p)
    <2>1. <<Welcome>> \in Seq(Messages)
      BY DEF Messages
    <2>2. sock' = [sock EXCEPT ![p] = TRUE] /\ wire' = [wire EXCEPT ![p] = <<Welcome>>]
          /\ connects' = connects + 1 /\ connects < MaxConnects
      BY <1>2 DEF Load, Reconnect, Join, Connect
    <2>3. sock' \in [Pages -> BOOLEAN] /\ wire' \in [Pages -> Seq(Messages)]
      BY <2>1, <2>2 DEF PageTypes
    <2>4. handlers' \in [Pages -> Nat] /\ shown' \in [Pages -> Views \cup {Nothing}]
      <3>1. CASE Load(p)
        BY <3>1 DEF Load, PageTypes
      <3>2. CASE Reconnect(p)
        BY <3>2 DEF Reconnect, PageTypes
      <3> QED BY <1>2, <3>1, <3>2
    <2>5. connects' \in 0 .. MaxConnects
      BY <2>2, BoundsAssumption DEF PageTypes
    <2> QED BY <1>1, <2>3, <2>4, <2>5 DEF PageTypes
  <1>3. CASE Disconnect(p)
    <2>1. sock' \in [Pages -> BOOLEAN] /\ wire' \in [Pages -> Seq(Messages)]
      BY <1>3, EmptySeq DEF Disconnect, PageTypes
    <2> QED BY <1>1, <1>3, <2>1 DEF Disconnect, PageTypes
  <1>4. CASE Deliver(p)
    <2>1. wire[p] \in Seq(Messages) /\ wire[p] # <<>>
      BY <1>4 DEF Deliver, PageTypes
    <2>2. wire' \in [Pages -> Seq(Messages)]
      BY <1>4, <2>1, HeadTailProperties DEF Deliver, PageTypes
    <2>3. Head(wire[p]) \in Messages
      BY <2>1, HeadTailProperties
    <2>4. CASE Head(wire[p]) = Welcome
      <3>1. handlers' \in [Pages -> Nat] /\ shown' = shown
        <4>1. OnMessage(p)
          BY <1>4, <2>4 DEF Deliver
        <4> QED BY <4>1 DEF OnMessage, PageTypes
      <3> QED BY <1>1, <1>4, <2>2, <3>1 DEF Deliver, PageTypes
    <2>5. CASE Head(wire[p]) # Welcome
      <3> DEFINE m == Head(wire[p])
      <3>1. m.at \in Snapshots /\ m.votes[A] \in Nat /\ m.votes[B] \in Nat
        BY <2>3, <2>5, ChoicesAssumption DEF Messages
      <3>2. \A bars \in getPercentages(m.votes[A], m.votes[B]) :
               [at |-> m.at, total |-> m.votes[A] + m.votes[B], bars |-> bars] \in Views
        BY <3>1, BarsInRange DEF Views
      <3>3. OnScores(p, m)
        BY <1>4, <2>5 DEF Deliver
      <3> HIDE DEF m
      <3>4. shown' \in [Pages -> Views \cup {Nothing}] /\ handlers' = handlers
        BY <3>2, <3>3 DEF OnScores, PageTypes
      <3> QED BY <1>1, <1>4, <2>2, <3>4 DEF Deliver, PageTypes
    <2> QED BY <2>4, <2>5
  <1> QED BY <1>2, <1>3, <1>4

(* Every step keeps the types. *)
LEMMA NextTypes == ASSUME Types, [Next]_vars PROVE Types'
  <1>1. CASE CastVote \/ RecordVote
    <2>1. TableTypes'
      BY <1>1, TableStepTypes DEF Types
    <2>2. ServerTypes' /\ PageTypes' /\ faults' \in 0 .. MaxFaults
      BY <1>1, FaultTypes DEF Types, CastVote, RecordVote, serverVars, pageVars, ServerTypes, PageTypes
    <2> QED BY <2>1, <2>2 DEF Types
  <1>2. CASE UNCHANGED vars
    BY <1>2 DEF vars, tableVars, serverVars, pageVars, Types, TableTypes, ServerTypes, PageTypes
  <1> QED BY <1>1, <1>2, SilentTypes, CallbackTypes, DieTypes, PageStepTypes
          DEF Next, ServerStep, Silent

(* Type correctness, for any number of voters, pages, votes and faults; in
   particular both bars are percentages, and the server never counts beyond
   its attempts. *)
THEOREM TypeCorrect == Spec => []TypeOK
  <1>1. Types /\ [Next]_vars => Types'
    BY NextTypes
  <1> QED BY <1>1, InitTypes, TypesAreTypeOK, PTL DEF Spec

-----------------------------------------------------------------------------
(* The welcome comes first *)

(* A connected page has a handler, or the welcome is the next to come; nothing
   is under way to a page that is not connected. *)
Greeted(sk, w, h) == IF sk THEN h > 0 \/ (w # <<>> /\ Head(w) = Welcome) ELSE w = <<>>
AllGreeted == \A p \in Pages : Greeted(sock[p], wire[p], handlers[p])

(* A step of the pages, by what it does to the page. *)
LEMMA PageGreeted ==
  ASSUME Types, AllGreeted, NEW p \in Pages, Load(p) \/ Reconnect(p) \/ Disconnect(p) \/ Deliver(p)
  PROVE  AllGreeted'
  <1> USE DEF AllGreeted
  <1>0. /\ sock \in [Pages -> BOOLEAN] /\ wire \in [Pages -> Seq(Messages)]
        /\ handlers \in [Pages -> Nat]
    BY DEF Types, PageTypes
  <1>1. SUFFICES ASSUME NEW q \in Pages PROVE Greeted(sock'[q], wire'[q], handlers'[q])
    OBVIOUS
  <1>2. CASE q # p
    <2>1. sock'[q] = sock[q] /\ wire'[q] = wire[q] /\ handlers'[q] = handlers[q]
      <3>1. CASE Load(p)
        BY <1>0, <1>2, <3>1 DEF Load, Join, Connect
      <3>2. CASE Reconnect(p)
        BY <1>0, <1>2, <3>2 DEF Reconnect, Join, Connect
      <3>3. CASE Disconnect(p)
        BY <1>0, <1>2, <3>3 DEF Disconnect
      <3>4. CASE Deliver(p)
        BY <1>0, <1>2, <3>4 DEF Deliver, OnMessage, OnScores
      <3> QED BY <3>1, <3>2, <3>3, <3>4
    <2> QED BY <2>1
  <1>3. CASE q = p /\ (Load(p) \/ Reconnect(p))
    <2>1. sock'[p] = TRUE /\ wire'[p] = <<Welcome>>
      BY <1>0, <1>3 DEF Load, Reconnect, Join, Connect
    <2> QED BY <1>3, <2>1 DEF Greeted
  <1>4. CASE q = p /\ Disconnect(p)
    <2>1. sock'[p] = FALSE /\ wire'[p] = <<>>
      BY <1>0, <1>4 DEF Disconnect
    <2> QED BY <1>4, <2>1 DEF Greeted
  <1>5. CASE q = p /\ Deliver(p)
    <2>1. wire[p] # <<>> /\ sock'[p] = sock[p] /\ sock[p] \in BOOLEAN
      BY <1>0, <1>5 DEF Deliver
    <2>2. sock[p]
      BY <2>1 DEF Greeted
    <2>3. handlers'[p] > 0
      <3>1. CASE Head(wire[p]) = Welcome
        BY <1>0, <1>5, <3>1 DEF Deliver, OnMessage
      <3>2. CASE Head(wire[p]) # Welcome
        <4>1. handlers[p] > 0
          BY <2>2, <3>2 DEF Greeted
        <4>2. handlers' = handlers
          BY <1>5, <3>2 DEF Deliver, OnScores
        <4> QED BY <4>1, <4>2
      <3> QED BY <3>1, <3>2
    <2> QED BY <1>5, <2>1, <2>2, <2>3 DEF Greeted
  <1> QED BY <1>2, <1>3, <1>4, <1>5

(* Every step keeps the welcome first. *)
LEMMA NextGreeted == ASSUME Types, AllGreeted, [Next]_vars PROVE AllGreeted'
  <1>0. /\ sock \in [Pages -> BOOLEAN] /\ wire \in [Pages -> Seq(Messages)]
        /\ handlers \in [Pages -> Nat]
    BY DEF Types, PageTypes
  <1>1. CASE UNCHANGED <<sock, wire, handlers>>
    BY <1>1 DEF AllGreeted
  <1>2. CASE Callback
    <2>1. SUFFICES ASSUME NEW q \in Pages PROVE Greeted(sock[q], wire'[q], handlers[q])
      BY <1>2 DEF AllGreeted, Callback
    <2>2. wire'[q] = wire[q] \/ (sock[q] /\ wire'[q] = Append(wire[q], Scores(answer)))
      BY <1>0, <1>2 DEF Callback, emit
    <2>3. Greeted(sock[q], wire[q], handlers[q])
      BY DEF AllGreeted
    <2>4. CASE wire'[q] = wire[q]
      BY <2>3, <2>4
    <2>5. CASE sock[q] /\ wire'[q] = Append(wire[q], Scores(answer)) /\ ~(handlers[q] > 0)
      <3> DEFINE m == Scores(answer)
      <3>1. wire[q] \in Seq(Messages) /\ wire[q] # <<>> /\ Head(wire[q]) = Welcome
        BY <1>0, <2>3, <2>5 DEF Greeted
      <3> HIDE DEF m
      <3>2. Append(wire[q], m) # <<>> /\ Head(Append(wire[q], m)) = Head(wire[q])
        <4>1. /\ Len(wire[q]) \in Nat \ {0} /\ Len(Append(wire[q], m)) = Len(wire[q]) + 1
              /\ Append(wire[q], m)[1] = wire[q][1]
          BY <3>1
        <4> QED BY <3>1, <4>1
      <3> QED BY <2>5, <3>1, <3>2 DEF Greeted, m
    <2> QED BY <2>2, <2>4, <2>5 DEF Greeted
  <1>3. CASE NoticeLoss \/ Crash
    BY <1>3 DEF NoticeLoss, Crash, Die, AllGreeted, Greeted
  <1>4. CASE CastVote \/ RecordVote \/ Silent \/ RunQuery \/ UNCHANGED vars
    <2>1. UNCHANGED pageVars
      BY <1>4 DEF CastVote, RecordVote, Silent, RunQuery, vars, CreateTable, StopDb, StartDb,
                  LoseClient, ConnectFails, ConnectOk, QueryRefused, Timer, Restart
    <2> QED BY <1>1, <2>1 DEF pageVars
  <1> QED BY <1>2, <1>3, <1>4, PageGreeted DEF Next, ServerStep, Silent

(* No scores reach a page without a handler, however often pages connect, are
   loaded again and lose their connection. *)
THEOREM WelcomeFirst == Spec => []ScoresFindHandler
  <1>1. Init => Types /\ AllGreeted
    BY InitTypes DEF Init, AllGreeted, Greeted
  <1>2. Types /\ AllGreeted /\ [Next]_vars => Types' /\ AllGreeted'
    BY NextTypes, NextGreeted
  <1>3. Types /\ AllGreeted => ScoresFindHandler
    BY DEF Types, PageTypes, AllGreeted, Greeted, ScoresFindHandler
  <1> QED BY <1>1, <1>2, <1>3, PTL DEF Spec

-----------------------------------------------------------------------------
(* States of the table, and what is told of them *)

(* s is a state the table had while no more than cs was cast. *)
Sound(s, cs) == /\ s \in Snapshots
                /\ \A i \in Voters : s[i] # 0 => s[i] \in 1 .. Len(cs) /\ cs[s[i]].id = i

(* The votes for each option in it. *)
Tally(s, cs) == [c \in Choices |-> Cardinality({i \in Voters : s[i] # 0 /\ cs[s[i]].vote = c})]

TrueScores(m, cs) == Sound(m.at, cs) /\ m.votes = Tally(m.at, cs)

TrueView(v, cs) == LET n == Tally(v.at, cs)
                   IN  /\ Sound(v.at, cs)
                       /\ v.total = n[A] + n[B]
                       /\ v.bars \in getPercentages(n[A], n[B])

(* A further vote changes neither. *)
LEMMA CastKeepsTally ==
  ASSUME NEW cs \in Seq(CastBallots), NEW x \in CastBallots, NEW s, Sound(s, cs)
  PROVE  Sound(s, Append(cs, x)) /\ Tally(s, Append(cs, x)) = Tally(s, cs)
  <1>1. \A i \in Voters : s[i] # 0 => /\ s[i] \in 1 .. Len(Append(cs, x))
                                      /\ Append(cs, x)[s[i]] = cs[s[i]]
    BY AppendProperties, LenProperties DEF Sound
  <1>2. Sound(s, Append(cs, x))
    BY <1>1 DEF Sound
  <1>3. ASSUME NEW c \in Choices
        PROVE  {i \in Voters : s[i] # 0 /\ Append(cs, x)[s[i]].vote = c} =
               {i \in Voters : s[i] # 0 /\ cs[s[i]].vote = c}
    BY <1>1
  <1> QED BY <1>2, <1>3 DEF Tally

(* What the callback makes of the rows is the tally of the table. *)
LEMMA FoundIsTally ==
  ASSUME last \in Snapshots
  PROVE  collectVotesFromResult(Rows) = Tally(last, cast)
  <1> SUFFICES ASSUME NEW c \in Choices
               PROVE  (IF \E r \in Rows : r.vote = c
                       THEN (CHOOSE r \in Rows : r.vote = c).count ELSE 0) = Count(c)
    BY DEF collectVotesFromResult, Tally, Count
  <1>1. Count(c) \in 0 .. Cardinality(Voters) /\ Cardinality(Voters) \in Nat
    BY CountInRange, VotersAssumption, FS_CardinalityType
  <1>2. CASE \E r \in Rows : r.vote = c
    <2>1. (CHOOSE r \in Rows : r.vote = c) \in Rows /\ (CHOOSE r \in Rows : r.vote = c).vote = c
      BY <1>2
    <2>2. \A r \in Rows : r.count = Count(r.vote)
      BY DEF Rows
    <2> QED BY <1>2, <2>1, <2>2
  <1>3. CASE ~ \E r \in Rows : r.vote = c
    <2>1. SUFFICES ASSUME Count(c) # 0 PROVE FALSE
      BY <1>3
    <2> DEFINE r == [vote |-> c, count |-> Count(c)]
    <2>2. r \in [vote : Choices, count : 1 .. Cardinality(Voters)] /\ r.vote = c /\ r.count = Count(c)
      BY <1>1, <2>1
    <2>3. r \in Rows
      BY <2>2 DEF Rows
    <2> QED BY <1>3, <2>2, <2>3
  <1> QED BY <1>2, <1>3

-----------------------------------------------------------------------------
(* The table, the answer, what is under way and what is shown *)

(* What is under way to a page was counted in that order, after what the page
   shows and before t. *)
Chain(w, sh, t) ==
    /\ \A k \in 1 .. Len(w) : w[k] # Welcome =>
          /\ NoOlder(w[k].at, t)
          /\ sh # Nothing => NoOlder(sh.at, w[k].at)
          /\ \A j \in 1 .. k - 1 : w[j] # Welcome => NoOlder(w[j].at, w[k].at)
    /\ sh # Nothing => NoOlder(sh.at, t)

(* Everything told of the table was true of it. *)
TrueToPage(w, sh, cs) == /\ \A k \in 1 .. Len(w) : w[k] # Welcome => TrueScores(w[k], cs)
                         /\ sh # Nothing => TrueView(sh, cs)

(* The snapshots in types. *)
LEMMA SnapshotsOf ==
  ASSUME NEW w \in Seq(Messages), NEW k \in 1 .. Len(w), w[k] # Welcome
  PROVE  w[k].at \in Snapshots
  BY ElementOfSeq DEF Messages

(* A later state is after the same messages. *)
LEMMA ChainUp ==
  ASSUME NEW w \in Seq(Messages), NEW sh \in Views \cup {Nothing},
         NEW s \in Snapshots, NEW t \in Snapshots, NoOlder(s, t), Chain(w, sh, s)
  PROVE  Chain(w, sh, t)
  <1>1. ASSUME NEW u \in Snapshots, NoOlder(u, s) PROVE NoOlder(u, t)
    BY <1>1 DEF NoOlder, Snapshots
  <1>2. sh # Nothing => sh.at \in Snapshots
    BY DEF Views
  <1> QED BY <1>1, <1>2, SnapshotsOf DEF Chain

(* One more message. *)
LEMMA ChainAppend ==
  ASSUME NEW w \in Seq(Messages), NEW sh \in Views \cup {Nothing}, NEW m \in Messages,
         Chain(w, sh, m.at), m.at \in Snapshots
  PROVE  Chain(Append(w, m), sh, m.at)
  <1> DEFINE v == Append(w, m)
  <1>1. /\ Len(w) \in Nat /\ Len(v) = Len(w) + 1 /\ v[Len(w) + 1] = m
        /\ \A k \in 1 .. Len(w) : v[k] = w[k]
    BY AppendProperties, LenProperties
  <1>2. NoOlder(m.at, m.at)
    BY DEF NoOlder, Snapshots
  <1> HIDE DEF v
  <1>3. SUFFICES ASSUME NEW k \in 1 .. Len(v), v[k] # Welcome
                 PROVE  /\ NoOlder(v[k].at, m.at)
                        /\ sh # Nothing => NoOlder(sh.at, v[k].at)
                        /\ \A j \in 1 .. k - 1 : v[j] # Welcome => NoOlder(v[j].at, v[k].at)
    BY DEF Chain, v
  <1>4. CASE k \in 1 .. Len(w)
    <2>1. \A j \in 1 .. k - 1 : j \in 1 .. Len(w)
      BY <1>1, <1>4
    <2> QED BY <1>1, <1>3, <1>4, <2>1 DEF Chain
  <1>5. CASE k = Len(w) + 1
    <2>1. \A j \in 1 .. k - 1 : j \in 1 .. Len(w)
      BY <1>1, <1>5
    <2> QED BY <1>1, <1>2, <1>5, <2>1 DEF Chain
  <1> QED BY <1>1, <1>4, <1>5

(* One message less, and the page shows it. *)
LEMMA ChainTail ==
  ASSUME NEW w \in Seq(Messages), w # <<>>, NEW sh, NEW t, Chain(w, sh, t)
  PROVE  /\ Chain(Tail(w), sh, t)
         /\ Head(w) # Welcome => \A v : v.at = Head(w).at => Chain(Tail(w), v, t)
         /\ Head(w) # Welcome /\ sh # Nothing => NoOlder(sh.at, Head(w).at)
  <1>1. /\ Len(w) \in Nat \ {0} /\ Len(Tail(w)) = Len(w) - 1 /\ Head(w) = w[1]
        /\ \A k \in 1 .. Len(Tail(w)) : Tail(w)[k] = w[k + 1] /\ k + 1 \in 1 .. Len(w)
    BY HeadTailProperties, LenProperties, EmptySeq
  <1>2. ASSUME NEW k \in 1 .. Len(Tail(w)), Tail(w)[k] # Welcome
        PROVE  /\ NoOlder(Tail(w)[k].at, t)
               /\ sh # Nothing => NoOlder(sh.at, Tail(w)[k].at)
               /\ Head(w) # Welcome => NoOlder(Head(w).at, Tail(w)[k].at)
               /\ \A j \in 1 .. k - 1 : Tail(w)[j] # Welcome => NoOlder(Tail(w)[j].at, Tail(w)[k].at)
    <2>1. 1 \in 1 .. (k + 1) - 1 /\ \A j \in 1 .. k - 1 : j + 1 \in 1 .. (k + 1) - 1 /\ j \in 1 .. Len(Tail(w))
      BY <1>1
    <2> QED BY <1>1, <1>2, <2>1 DEF Chain
  <1>3. 1 \in 1 .. Len(w)
    BY <1>1
  <1> QED BY <1>1, <1>2, <1>3 DEF Chain

-----------------------------------------------------------------------------
(* The invariant *)

TableTrue == Sound(last, cast)

PagesTrue == \A p \in Pages : /\ TrueToPage(wire[p], shown[p], cast)
                              /\ Chain(wire[p], shown[p], last)

(* An answer waits for its callback. *)
Answering == poll = "answered" /\ answer # Failed

AnswerTrue == Answering => /\ Sound(answer.at, cast)
                           /\ collectVotesFromResult(answer.rows) = Tally(answer.at, cast)
                           /\ NoOlder(answer.at, last)
                           /\ \A p \in Pages : Chain(wire[p], shown[p], answer.at)

AllTrue == TableTrue /\ PagesTrue /\ AnswerTrue

(* At first nothing is told. *)
LEMMA InitTrue == Init => AllTrue
  BY DEF Init, TableInit, AllTrue, TableTrue, PagesTrue, AnswerTrue, Answering, Sound, Snapshots,
         TrueToPage, Chain

(* A vote is cast: what was true stays true. *)
LEMMA CastTrue == ASSUME Types, AllTrue, CastVote PROVE AllTrue'
  <1>1. PICK x \in CastBallots : cast' = Append(cast, x)
    BY LenProperties DEF CastVote, Cast, Ballot, Types, TableTypes, CastBallots
  <1>2. UNCHANGED <<last, poll, answer, wire, shown>> /\ cast \in Seq(CastBallots)
    BY DEF CastVote, Cast, serverVars, pageVars, Types, TableTypes
  <1>3. \A t : Sound(t, cast) => Sound(t, cast') /\ Tally(t, cast') = Tally(t, cast)
    BY <1>1, <1>2, CastKeepsTally
  <1>4. \A m : TrueScores(m, cast) => TrueScores(m, cast')
    BY <1>3 DEF TrueScores
  <1>5. \A v : TrueView(v, cast) => TrueView(v, cast')
    BY <1>3 DEF TrueView
  <1>6. PagesTrue'
    BY <1>2, <1>4, <1>5 DEF AllTrue, PagesTrue, TrueToPage
  <1>7. TableTrue' /\ AnswerTrue'
    BY <1>2, <1>3 DEF AllTrue, TableTrue, AnswerTrue, Answering
  <1> QED BY <1>6, <1>7 DEF AllTrue

(* A vote is recorded: what was told is of an earlier state. *)
LEMMA RecordTrue == ASSUME Types, AllTrue, RecordVote PROVE AllTrue'
  <1>1. PICK k \in 1 .. Len(cast) : Record(k)
    BY DEF RecordVote
  <1>2. UNCHANGED <<cast, poll, answer, wire, shown>>
    BY <1>1 DEF RecordVote, Record, serverVars, pageVars
  <1>3. cast[k].id \in Voters /\ k \in Nat \ {0} /\ last \in Snapshots
    <2>1. cast[k] \in CastBallots /\ k \in Nat \ {0}
      BY <1>1, ElementOfSeq, LenProperties DEF Types, TableTypes
    <2> QED BY <2>1 DEF CastBallots, Types, TableTypes
  <1>4. last' = [last EXCEPT ![cast[k].id] = k] /\ last[cast[k].id] < k
    BY <1>1 DEF Record
  <1>5. Sound(last', cast) /\ NoOlder(last, last') /\ last' \in Snapshots
    BY <1>3, <1>4 DEF AllTrue, TableTrue, Sound, NoOlder, Snapshots
  <1>6. \A p \in Pages : wire[p] \in Seq(Messages) /\ shown[p] \in Views \cup {Nothing}
    BY DEF Types, PageTypes
  <1>7. PagesTrue'
    <2>1. \A p \in Pages : Chain(wire[p], shown[p], last')
      BY <1>3, <1>5, <1>6, ChainUp DEF AllTrue, PagesTrue
    <2> QED BY <1>2, <2>1 DEF AllTrue, PagesTrue
  <1>8. AnswerTrue'
    <2>1. ASSUME Answering PROVE NoOlder(answer.at, last')
      BY <1>3, <1>5, <2>1 DEF AllTrue, AnswerTrue, NoOlder, Snapshots, Sound
    <2> QED BY <1>2, <2>1 DEF AllTrue, AnswerTrue, Answering
  <1> QED BY <1>2, <1>5, <1>7, <1>8 DEF AllTrue, TableTrue

(* The silent steps leave what is told alone. *)
LEMMA SilentTrue == ASSUME Types, AllTrue, Silent \/ UNCHANGED vars PROVE AllTrue'
  <1>1. UNCHANGED <<cast, last, wire, shown>> /\ (Answering' => Answering /\ answer' = answer)
    BY DEF Silent, vars, CreateTable, StopDb, StartDb, LoseClient, ConnectFails, ConnectOk,
           QueryRefused, Timer, Restart, tableVars, pageVars, serverVars, Answering
  <1> QED BY <1>1 DEF AllTrue, TableTrue, PagesTrue, AnswerTrue

(* A query finds the table as it is. *)
LEMMA QueryTrue == ASSUME Types, AllTrue, RunQuery PROVE AllTrue'
  <1>1. UNCHANGED <<cast, last, wire, shown>> /\ (answer' = Found \/ answer' = Failed)
    BY DEF RunQuery, tableVars, pageVars
  <1>2. last \in Snapshots /\ NoOlder(last, last)
    BY DEF Types, TableTypes, NoOlder, Snapshots
  <1>3. ASSUME Answering'
        PROVE  answer'.at = last /\ collectVotesFromResult(answer'.rows) = Tally(last, cast)
    <2>1. answer' = Found
      BY <1>1, <1>3 DEF Answering
    <2>2. answer'.at = last /\ answer'.rows = Rows
      BY <2>1 DEF Found
    <2> QED BY <1>2, <2>2, FoundIsTally
  <1> QED BY <1>1, <1>2, <1>3 DEF AllTrue, TableTrue, PagesTrue, AnswerTrue

(* The scores that are sent tell the table of the query, which is not before
   any told earlier. *)
LEMMA CallbackTrue == ASSUME Types, AllTrue, Callback PROVE AllTrue'
  <1>1. UNCHANGED <<cast, last, shown>> /\ poll' = "wait"
    BY DEF Callback, tableVars
  <1>2. AnswerTrue' /\ TableTrue'
    BY <1>1 DEF AllTrue, TableTrue, AnswerTrue, Answering
  <1>3. SUFFICES ASSUME NEW p \in Pages
                 PROVE  TrueToPage(wire'[p], shown[p], cast) /\ Chain(wire'[p], shown[p], last)
    BY <1>1, <1>2 DEF AllTrue, PagesTrue
  <1> DEFINE m == Scores(answer)
  <1>4. wire'[p] = wire[p] \/ (answer # Failed /\ wire'[p] = Append(wire[p], m))
    BY DEF Callback, emit, Types, PageTypes
  <1>5. CASE wire'[p] = wire[p]
    BY <1>5 DEF AllTrue, PagesTrue
  <1>6. CASE answer # Failed /\ wire'[p] = Append(wire[p], m)
    <2>1. Answering /\ answer \in Answers
      BY <1>6 DEF Answering, Callback, Types, ServerTypes
    <2>2. m \in Messages /\ m.at = answer.at /\ m.votes = Tally(answer.at, cast)
      BY <2>1, ScoresTypes DEF AllTrue, AnswerTrue, Scores
    <2>3. TrueScores(m, cast) /\ Chain(wire[p], shown[p], m.at) /\ NoOlder(m.at, last)
          /\ m.at \in Snapshots
      BY <2>1, <2>2 DEF AllTrue, AnswerTrue, TrueScores, Sound
    <2>4. wire[p] \in Seq(Messages) /\ shown[p] \in Views \cup {Nothing} /\ last \in Snapshots
      BY DEF Types, PageTypes, TableTypes
    <2> HIDE DEF m
    <2>5. Chain(Append(wire[p], m), shown[p], m.at) /\ Append(wire[p], m) \in Seq(Messages)
      BY <2>2, <2>3, <2>4, ChainAppend, AppendProperties
    <2>6. Chain(Append(wire[p], m), shown[p], last)
      BY <2>3, <2>4, <2>5, ChainUp
    <2>7. TrueToPage(wire[p], shown[p], cast)
      BY DEF AllTrue, PagesTrue
    <2>8. /\ Len(wire[p]) \in Nat /\ Len(Append(wire[p], m)) = Len(wire[p]) + 1
          /\ Append(wire[p], m)[Len(wire[p]) + 1] = m
          /\ \A k \in 1 .. Len(wire[p]) : Append(wire[p], m)[k] = wire[p][k]
      BY <2>2, <2>4, AppendProperties, LenProperties
    <2>9. TrueToPage(Append(wire[p], m), shown[p], cast)
      BY <2>3, <2>7, <2>8 DEF TrueToPage
    <2> QED BY <1>6, <2>6, <2>9 DEF m
  <1> QED BY <1>4, <1>5, <1>6

(* Nothing is under way any more, and what is shown stays. *)
LEMMA EmptyTrue ==
  ASSUME NEW w, NEW sh, NEW cs, NEW t, TrueToPage(w, sh, cs), Chain(w, sh, t)
  PROVE  /\ TrueToPage(<<>>, sh, cs) /\ Chain(<<>>, sh, t)
         /\ TrueToPage(<<Welcome>>, sh, cs) /\ Chain(<<Welcome>>, sh, t)
  BY DEF TrueToPage, Chain

(* The process ends. *)
LEMMA DieTrue == ASSUME Types, AllTrue, NoticeLoss \/ Crash PROVE AllTrue'
  <1>1. Die
    BY DEF NoticeLoss, Crash
  <1>2. UNCHANGED <<cast, last, shown>> /\ ~Answering' /\ \A p \in Pages : wire'[p] = <<>>
    BY <1>1 DEF Die, Answering, tableVars
  <1>3. PagesTrue'
    BY <1>2, EmptyTrue DEF AllTrue, PagesTrue
  <1> QED BY <1>2, <1>3 DEF AllTrue, TableTrue, AnswerTrue

-----------------------------------------------------------------------------
(* What a page shows *)

(* A page without a handler, or with the welcome to come, shows what it
   showed; otherwise it shows the scores that come. *)
LEMMA DeliverKinds ==
  ASSUME Types, NEW p \in Pages, Deliver(p)
  PROVE  /\ wire[p] # <<>> /\ wire'[p] = Tail(wire[p])
         /\ \A q \in Pages \ {p} : wire'[q] = wire[q] /\ shown'[q] = shown[q]
         /\ \/ shown' = shown
            \/ /\ Head(wire[p]) # Welcome
               /\ \E bars \in getPercentages(Head(wire[p]).votes[A], Head(wire[p]).votes[B]) :
                     shown'[p] = [at |-> Head(wire[p]).at,
                                  total |-> Head(wire[p]).votes[A] + Head(wire[p]).votes[B],
                                  bars |-> bars]
  <1>1. wire \in [Pages -> Seq(Messages)] /\ shown \in [Pages -> Views \cup {Nothing}]
    BY DEF Types, PageTypes
  <1>2. wire[p] # <<>> /\ wire' = [wire EXCEPT ![p] = Tail(@)]
    BY DEF Deliver
  <1> DEFINE m == Head(wire[p])
  <1>3. CASE m = Welcome
    BY <1>1, <1>2, <1>3 DEF Deliver, OnMessage
  <1>4. CASE m # Welcome
    <2>1. OnScores(p, m)
      BY <1>4 DEF Deliver
    <2> HIDE DEF m
    <2>2. \/ shown' = shown
          \/ \E bars \in getPercentages(m.votes[A], m.votes[B]) :
                shown' = [shown EXCEPT ![p] = [at |-> m.at, total |-> m.votes[A] + m.votes[B],
                                               bars |-> bars]]
      BY <2>1 DEF OnScores
    <2> QED BY <1>1, <1>2, <1>4, <2>2 DEF m
  <1> QED BY <1>3, <1>4

(* Whatever happens to a page, it shows the truth, in order. *)
LEMMA PageTold ==
  ASSUME Types, AllTrue, NEW p \in Pages, NEW q \in Pages,
         Load(p) \/ Reconnect(p) \/ Disconnect(p) \/ Deliver(p)
  PROVE  /\ TrueToPage(wire'[q], shown'[q], cast)
         /\ \A t : Chain(wire[q], shown[q], t) => Chain(wire'[q], shown'[q], t)
         /\ shown[q] # Nothing /\ shown'[q] # Nothing => NoOlder(shown[q].at, shown'[q].at)
  <1>0. /\ wire \in [Pages -> Seq(Messages)] /\ shown \in [Pages -> Views \cup {Nothing}]
        /\ TrueToPage(wire[q], shown[q], cast) /\ Chain(wire[q], shown[q], last)
    BY DEF Types, PageTypes, AllTrue, PagesTrue
  <1>1. CASE wire'[q] = wire[q] /\ shown'[q] = shown[q]
    <2>1. shown[q] # Nothing => NoOlder(shown[q].at, shown[q].at)
      BY <1>0 DEF Views, NoOlder, Snapshots
    <2> QED BY <1>0, <1>1, <2>1
  <1>2. CASE wire'[q] \in {<<>>, <<Welcome>>} /\ shown'[q] \in {shown[q], Nothing}
    <2>1. shown[q] # Nothing => NoOlder(shown[q].at, shown[q].at)
      BY <1>0 DEF Views, NoOlder, Snapshots
    <2>2. TrueToPage(wire'[q], shown[q], cast)
      BY <1>0, <1>2, EmptyTrue
    <2>3. \A t : Chain(wire[q], shown[q], t) => Chain(wire'[q], shown[q], t)
      BY <1>0, <1>2, EmptyTrue
    <2>4. TrueToPage(wire'[q], Nothing, cast) /\ \A t : Chain(wire'[q], Nothing, t)
      BY <1>2 DEF TrueToPage, Chain
    <2> QED BY <1>2, <2>1, <2>2, <2>3, <2>4
  <1>3. CASE Load(p) \/ Reconnect(p) \/ Disconnect(p)
    <2>1. CASE Load(p)
      BY <1>0, <1>1, <1>2, <2>1 DEF Load, Join, Connect
    <2>2. CASE Reconnect(p)
      BY <1>0, <1>1, <1>2, <2>2 DEF Reconnect, Join, Connect
    <2>3. CASE Disconnect(p)
      BY <1>0, <1>1, <1>2, <2>3 DEF Disconnect
    <2> QED BY <1>3, <2>1, <2>2, <2>3
  <1>4. CASE Deliver(p) /\ q = p
    <2> DEFINE w == wire[p]
    <2> DEFINE m == Head(wire[p])
    <2>1. w \in Seq(Messages) /\ w # <<>> /\ wire'[p] = Tail(w)
      BY <1>0, <1>4, DeliverKinds
    <2>2. /\ Len(w) \in Nat \ {0} /\ Len(Tail(w)) = Len(w) - 1 /\ m = w[1]
          /\ \A k \in 1 .. Len(Tail(w)) : Tail(w)[k] = w[k + 1] /\ k + 1 \in 1 .. Len(w)
      BY <2>1, HeadTailProperties, LenProperties, EmptySeq
    <2>3. TrueToPage(Tail(w), shown[p], cast) /\ (m # Welcome => TrueScores(m, cast))
      <3>1. 1 \in 1 .. Len(w)
        BY <2>2
      <3> QED BY <1>0, <1>4, <2>2, <3>1 DEF TrueToPage
    <2>4. ASSUME NEW t, Chain(w, shown[p], t)
          PROVE  /\ Chain(Tail(w), shown[p], t)
                 /\ m # Welcome => \A v : v.at = m.at => Chain(Tail(w), v, t)
                 /\ m # Welcome /\ shown[p] # Nothing => NoOlder(shown[p].at, m.at)
      BY <2>1, <2>4, ChainTail
    <2>5. CASE shown' = shown
      <3>1. shown[p] # Nothing => NoOlder(shown[p].at, shown[p].at)
        BY <1>0 DEF Views, NoOlder, Snapshots
      <3> QED BY <1>4, <2>1, <2>3, <2>4, <2>5, <3>1
    <2>6. ASSUME m # Welcome,
                 NEW bars \in getPercentages(m.votes[A], m.votes[B]),
                 shown'[p] = [at |-> m.at, total |-> m.votes[A] + m.votes[B], bars |-> bars]
          PROVE  /\ TrueToPage(Tail(w), shown'[p], cast)
                 /\ \A t : Chain(w, shown[p], t) => Chain(Tail(w), shown'[p], t)
                 /\ shown[p] # Nothing => NoOlder(shown[p].at, shown'[p].at)
      <3>1. TrueScores(m, cast)
        BY <2>3, <2>6
      <3> HIDE DEF m
      <3>2. shown'[p].at = m.at /\ shown'[p].total = m.votes[A] + m.votes[B] /\ shown'[p].bars = bars
        BY <2>6
      <3>3. TrueView(shown'[p], cast)
        BY <2>6, <3>1, <3>2 DEF TrueView, TrueScores
      <3>4. TrueToPage(Tail(w), shown'[p], cast)
        BY <2>3, <3>3 DEF TrueToPage
      <3> HIDE DEF w
      <3>5. \A t : Chain(w, shown[p], t) => Chain(Tail(w), shown'[p], t)
        BY <2>4, <2>6, <3>2
      <3>6. shown[p] # Nothing => NoOlder(shown[p].at, m.at)
        BY <1>0, <1>4, <2>4, <2>6 DEF w
      <3> QED BY <3>2, <3>4, <3>5, <3>6
    <2>7. \/ shown' = shown
          \/ /\ m # Welcome
             /\ \E bars \in getPercentages(m.votes[A], m.votes[B]) :
                  shown'[p] = [at |-> m.at, total |-> m.votes[A] + m.votes[B], bars |-> bars]
      BY <1>4, DeliverKinds
    <2> HIDE DEF w, m
    <2> QED BY <1>4, <2>1, <2>5, <2>6, <2>7 DEF w
  <1>5. CASE Deliver(p) /\ q # p
    BY <1>1, <1>5, DeliverKinds
  <1> QED BY <1>3, <1>4, <1>5

(* Pages come, go and receive. *)
LEMMA PageTrue ==
  ASSUME Types, AllTrue, NEW p \in Pages, Load(p) \/ Reconnect(p) \/ Disconnect(p) \/ Deliver(p)
  PROVE  AllTrue'
  <1>1. UNCHANGED <<cast, last, poll, answer>>
    BY DEF Load, Reconnect, Join, Disconnect, Deliver, tableVars, serverVars
  <1>2. PagesTrue'
    BY <1>1, PageTold DEF AllTrue, PagesTrue
  <1>3. AnswerTrue'
    BY <1>1, PageTold DEF AllTrue, AnswerTrue, Answering
  <1> QED BY <1>1, <1>2, <1>3 DEF AllTrue, TableTrue

(* Every step keeps everything true. *)
LEMMA NextTrue == ASSUME Types, AllTrue, [Next]_vars PROVE AllTrue'
  BY CastTrue, RecordTrue, SilentTrue, QueryTrue, CallbackTrue, DieTrue, PageTrue
  DEF Next, ServerStep, Silent

(* The invariant, from which the others follow: what is counted, under way
   and shown was true of the table, in this order of time. *)
THEOREM Invariant == Spec => [](Types /\ AllTrue)
  <1>1. Types /\ AllTrue /\ [Next]_vars => Types' /\ AllTrue'
    BY NextTypes, NextTrue
  <1> QED BY <1>1, InitTypes, InitTrue, PTL DEF Spec

(* Whatever a page shows was the content of the table when it was counted, and
   the bars are those of these counts. *)
THEOREM ShowsTruth == Spec => []ShownWasTrue
  <1>1. ASSUME Types, AllTrue, NEW p \in Pages, shown[p] # Nothing PROVE Faithful(shown[p])
    <2>1. TrueView(shown[p], cast) /\ cast \in Seq(CastBallots)
      BY <1>1 DEF AllTrue, PagesTrue, TrueToPage, Types, TableTypes
    <2>2. Own(shown[p].at)
      BY <2>1, LenProperties DEF TrueView, Sound, Own
    <2>3. A \in Choices /\ B \in Choices
      BY ChoicesAssumption
    <2>4. \A c \in Choices : Tally(shown[p].at, cast)[c] = Cardinality(At(shown[p].at, c))
      BY DEF Tally, At
    <2> QED BY <2>1, <2>2, <2>3, <2>4 DEF TrueView, Faithful
  <1>2. Types /\ AllTrue => ShownWasTrue
    BY <1>1 DEF ShownWasTrue
  <1> QED BY <1>2, Invariant, PTL

(* The bars of every page, and those of any counts: they fill the width, tell
   each share to within a point, and never favour the option with fewer votes. *)
THEOREM BarsTellShares == Spec => []BarsTell
  <1>1. ManyVotes
    BY PercentagesTell, BoundsAssumption DEF ManyVotes
  <1>2. ASSUME Types, ShownWasTrue, NEW p \in Pages, shown[p] # Nothing
        PROVE  AsTold(shown[p].bars, Cardinality(At(shown[p].at, A)), Cardinality(At(shown[p].at, B)))
    <2>1. \A s, c : Cardinality(At(s, c)) \in Nat
      BY VotersAssumption, FS_Subset, FS_CardinalityType DEF At
    <2>2. shown[p].bars \in getPercentages(Cardinality(At(shown[p].at, A)), Cardinality(At(shown[p].at, B)))
      BY <1>2 DEF ShownWasTrue, Faithful
    <2> QED BY <2>1, <2>2, PercentagesTell
  <1>3. Types /\ ShownWasTrue => BarsTell
    BY <1>1, <1>2 DEF BarsTell
  <1> QED BY <1>3, Invariant, ShowsTruth, PTL

(* A page never goes back to an earlier state of the table, whatever fails,
   restarts or is connected again. *)
THEOREM NeverBack == Spec => NeverOlderScores
  <1> DEFINE Step == \A p \in Pages : shown[p] # Nothing /\ shown'[p] # Nothing
                                         => NoOlder(shown[p].at, shown'[p].at)
  <1>1. ASSUME Types, AllTrue, [Next]_vars PROVE Step
    <2>1. CASE shown' = shown
      BY <1>1, <2>1 DEF Types, PageTypes, Views, NoOlder, Snapshots
    <2>2. ASSUME NEW p \in Pages, Load(p) \/ Reconnect(p) \/ Disconnect(p) \/ Deliver(p)
          PROVE  Step
      BY <1>1, <2>2, PageTold
    <2>3. \/ shown' = shown
          \/ \E p \in Pages : Load(p) \/ Reconnect(p) \/ Disconnect(p) \/ Deliver(p)
      BY <1>1 DEF Next, vars, ServerStep, CastVote, RecordVote, CreateTable, StopDb, StartDb, LoseClient,
                  ConnectFails, ConnectOk, RunQuery, Callback, Timer, QueryRefused, NoticeLoss,
                  Crash, Die, Restart, pageVars
    <2> QED BY <2>1, <2>2, <2>3
  <1>2. Types /\ AllTrue /\ [Next]_vars => [Step]_vars
    BY <1>1
  <1> HIDE DEF Step
  <1>3. Spec => [][Step]_vars
    BY <1>2, Invariant, PTL DEF Spec
  <1> QED BY <1>3 DEF NeverOlderScores, Step
=============================================================================
