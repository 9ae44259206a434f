------------------------------- MODULE Result -------------------------------
(***************************************************************************)
(* The result side of CA3/P1/Bibi/voting-app: result/server.js polls the   *)
(* table of votes over one database connection and sends the counts to     *)
(* every connected page; result/views/app.js shows them as two bars.       *)
(* The table changes as VoteTable says.  Postgres, its client library and  *)
(* socket.io are modelled from how this code uses them.                    *)
(***************************************************************************)
EXTENDS VoteTable

CONSTANTS A, B,        \* the two options, as the code spells them
          Pages,       \* browser pages with the result
          Nothing,     \* no answer, no scores
          Failed,      \* the answer of a query that failed
          Tries,       \* times of async.retry, 1000
          MaxCast,     \* bound: votes cast
          MaxWire,     \* bound: messages under way to a page
          MaxConnects, \* bound: connections of pages
          MaxFaults,   \* bound: faults of database, network and process
          MaxCount     \* bound: votes for one option in ManyVotes

ASSUME VotersAssumption == IsFiniteSet(Voters)
ASSUME ChoicesAssumption == Choices = {A, B} /\ A # B
ASSUME TriesAssumption == Tries \in Nat \ {0}
ASSUME BoundsAssumption == /\ MaxCast \in Nat /\ MaxWire \in Nat
                           /\ MaxConnects \in Nat /\ MaxFaults \in Nat
                           /\ MaxCount \in Nat

VARIABLES dbup,        \* Postgres can be reached
          table,       \* the table votes exists
          poll,        \* where the server is
          tries,       \* failed attempts to connect
          client,      \* the connection getVotes goes on with
          answer,      \* what the query found, until its callback runs
          sock,        \* sock[p]: page p's socket is connected
          wire,        \* wire[p]: messages under way to p
          handlers,    \* handlers[p]: 'scores' handlers that p has registered
          shown,       \* shown[p]: what p shows
          connects,    \* connections of pages so far
          faults       \* faults so far

serverVars == <<poll, tries, client, answer>>
pageVars   == <<sock, wire, handlers, shown, connects>>
vars == <<tableVars, dbup, table, serverVars, pageVars, faults>>

Fault == faults < MaxFaults /\ faults' = faults + 1
NoFault == UNCHANGED faults

-----------------------------------------------------------------------------
(* The counts *)

(* SELECT vote, COUNT(id) ... GROUP BY vote: a row for each option somebody
   has voted for.  at says which votes were counted. *)
Count(c) == Cardinality({i \in Voters : last[i] # 0 /\ cast[last[i]].vote = c})
Rows == {r \in [vote : Choices, count : 1 .. Cardinality(Voters)] : r.count = Count(r.vote)}
Found == [at |-> last, rows |-> Rows]

(* Altered: the rows are counted, as if each were one vote. *)
collectVotesCountsRows(rows) == [c \in Choices |-> Cardinality({r \in rows : r.vote = c})]

(* An option without a row counts zero. *)
collectVotesFromResult(rows) ==
    [c \in Choices |-> IF \E r \in rows : r.vote = c
                       THEN (CHOOSE r \in rows : r.vote = c).count ELSE 0]

Welcome == [kind |-> "message"]
Scores(found) == [kind |-> "scores", at |-> found.at, votes |-> collectVotesFromResult(found.rows)]

(* Math.round(a / (a + b) * 100): an integer nearest to the share; half way
   between two, the floating-point quotient decides which. *)
RoundedShare(a, b) == LET down == (100 * a) \div (a + b)
                      IN  {n \in {down, down + 1} : 2 * (100 * a - n * (a + b)) \in -(a + b) .. a + b}

(* Altered: both sides are rounded. *)
getPercentagesRoundsBoth(a, b) ==
    IF a + b > 0 THEN {[a |-> m, b |-> n] : m \in RoundedShare(a, b), n \in RoundedShare(b, a)}
                 ELSE {[a |-> 50, b |-> 50]}

getPercentages(a, b) ==
    IF a + b > 0 THEN {[a |-> n, b |-> 100 - n] : n \in RoundedShare(a, b)}
                 ELSE {[a |-> 50, b |-> 50]}

-----------------------------------------------------------------------------
(* The table of votes, and Postgres *)

CastVote == /\ Len(cast) < MaxCast
            /\ \E i \in Voters, c \in Choices : Cast(i, c)
            /\ UNCHANGED <<dbup, table, serverVars, pageVars>>
            /\ NoFault

RecordVote == /\ dbup /\ table
              /\ \E k \in 1 .. Len(cast) : Record(k)
              /\ UNCHANGED <<dbup, table, serverVars, pageVars>>
              /\ NoFault

(* The first worker to connect creates the table (worker/Program.cs). *)
CreateTable == /\ dbup /\ ~table
               /\ table' = TRUE
               /\ UNCHANGED <<tableVars, dbup, serverVars, pageVars>>
               /\ NoFault

DropClient == client' = IF client = "open" THEN "lost" ELSE client

(* Postgres stops; its volume keeps the table. *)
StopDb == /\ dbup
          /\ dbup' = FALSE
          /\ DropClient
          /\ UNCHANGED <<tableVars, table, poll, tries, answer, pageVars>>
          /\ Fault

StartDb == /\ ~dbup
           /\ dbup' = TRUE
           /\ UNCHANGED <<tableVars, table, serverVars, pageVars>>
           /\ NoFault

(* The network drops the connection, and neither end may ever notice. *)
LoseClient == /\ client = "open"
              /\ DropClient
              /\ UNCHANGED <<tableVars, dbup, table, poll, tries, answer, pageVars>>
              /\ Fault

-----------------------------------------------------------------------------
(* The server *)

(* Altered: it never gives up. *)
ConnectFailsOn == /\ poll = "connect" /\ ~dbup
                  /\ tries' = tries + 1
                  /\ UNCHANGED <<tableVars, dbup, table, poll, client, answer, pageVars>>
                  /\ NoFault

(* async.retry; after the last attempt it gives up but goes on serving pages. *)
ConnectFails == /\ poll = "connect" /\ ~dbup
                /\ tries' = tries + 1
                /\ poll' = IF tries' = Tries THEN "gaveup" ELSE "connect"
                /\ UNCHANGED <<tableVars, dbup, table, client, answer, pageVars>>
                /\ NoFault

(* The callback of the retry calls getVotes, which sends the first query. *)
ConnectOk == /\ poll = "connect" /\ dbup
             /\ client' = "open"
             /\ poll' = "asked"
             /\ UNCHANGED <<tableVars, dbup, table, tries, answer, pageVars>>
             /\ NoFault

(* Postgres runs the query; without the table it is an error. *)
RunQuery == /\ poll = "asked" /\ client = "open"
            /\ answer' = IF table THEN Found ELSE Failed
            /\ poll' = "answered"
            /\ UNCHANGED <<tableVars, dbup, table, tries, client, pageVars>>
            /\ NoFault

(* Any other error, on a connection that stays open. *)
QueryRefused == /\ poll = "asked" /\ client = "open"
                /\ answer' = Failed
                /\ poll' = "answered"
                /\ UNCHANGED <<tableVars, dbup, table, tries, client, pageVars>>
                /\ Fault

emit(message) == wire' = [p \in Pages |-> IF sock[p] THEN Append(wire[p], message) ELSE wire[p]]

(* Altered: the next query is only scheduled after a success. *)
CallbackStops == /\ poll = "answered"
                 /\ \A p \in Pages : Len(wire[p]) < MaxWire
                 /\ IF answer = Failed THEN UNCHANGED wire ELSE emit(Scores(answer))
                 /\ answer' = Nothing
                 /\ poll' = IF answer = Failed THEN "gaveup" ELSE "wait"
                 /\ UNCHANGED <<tableVars, dbup, table, tries, client, sock, handlers, shown, connects>>
                 /\ NoFault

(* Altered: a failed query is taken for one without rows. *)
CallbackIgnoresError ==
    /\ poll = "answered"
    /\ \A p \in Pages : Len(wire[p]) < MaxWire
    /\ emit(Scores(IF answer = Failed THEN [at |-> [i \in Voters |-> 0], rows |-> {}] ELSE answer))
    /\ answer' = Nothing
    /\ poll' = "wait"
    /\ UNCHANGED <<tableVars, dbup, table, tries, client, sock, handlers, shown, connects>>
    /\ NoFault

(* The callback of the query: the scores go to whoever is connected now, and
   the next query is scheduled whether this one worked or not. *)
Callback == /\ poll = "answered"
            /\ \A p \in Pages : Len(wire[p]) < MaxWire
            /\ IF answer = Failed THEN UNCHANGED wire ELSE emit(Scores(answer))
            /\ answer' = Nothing
            /\ poll' = "wait"
            /\ UNCHANGED <<tableVars, dbup, table, tries, client, sock, handlers, shown, connects>>
            /\ NoFault

(* The timer calls getVotes again, on the client it was given. *)
Timer == /\ poll = "wait"
         /\ poll' = "asked"
         /\ UNCHANGED <<tableVars, dbup, table, tries, client, answer, pageVars>>
         /\ NoFault

(* The process ends, and with it every connection. *)
Die == /\ poll' = "down"
       /\ tries' = 0
       /\ client' = "none"
       /\ answer' = Nothing
       /\ sock' = [p \in Pages |-> FALSE]
       /\ wire' = [p \in Pages |-> <<>>]
       /\ UNCHANGED <<tableVars, dbup, table, handlers, shown, connects>>

(* A loss that is noticed is an 'error' event of the client, which nobody
   listens to while the client is checked out of the pool. *)
NoticeLoss == client = "lost" /\ Die /\ NoFault

Crash == poll # "down" /\ Die /\ Fault

(* Docker may start the container again. *)
Restart == /\ poll = "down"
           /\ poll' = "connect"
           /\ UNCHANGED <<tableVars, dbup, table, tries, client, answer, pageVars>>
           /\ NoFault

-----------------------------------------------------------------------------
(* The pages *)

(* Altered: the server does not greet a page. *)
ConnectUngreeted(p) == /\ sock' = [sock EXCEPT ![p] = TRUE]
                       /\ wire' = [wire EXCEPT ![p] = <<>>]

(* io.on('connection'): the welcome comes before any scores. *)
Connect(p) == /\ sock' = [sock EXCEPT ![p] = TRUE]
              /\ wire' = [wire EXCEPT ![p] = <<Welcome>>]

Join(p) == /\ poll # "down"
           /\ connects < MaxConnects
           /\ connects' = connects + 1
           /\ Connect(p)
           /\ UNCHANGED <<tableVars, dbup, table, serverVars>>
           /\ NoFault

(* The page is opened, or loaded again, and its script connects. *)
Load(p) == /\ Join(p)
           /\ handlers' = [handlers EXCEPT ![p] = 0]
           /\ shown' = [shown EXCEPT ![p] = Nothing]

(* socket.io connects a page again on its own; the page stays as it is. *)
Reconnect(p) == ~sock[p] /\ Join(p) /\ UNCHANGED <<handlers, shown>>

Disconnect(p) == /\ sock[p]
                 /\ sock' = [sock EXCEPT ![p] = FALSE]
                 /\ wire' = [wire EXCEPT ![p] = <<>>]
                 /\ UNCHANGED <<tableVars, dbup, table, serverVars, handlers, shown, connects>>
                 /\ Fault

(* Each 'message' registers one more handler for 'scores'. *)
OnMessage(p) == /\ handlers' = [handlers EXCEPT ![p] = @ + 1]
                /\ UNCHANGED shown

(* A handler shows the bars and the total; the others do the same again. *)
OnScores(p, m) ==
    /\ IF handlers[p] = 0 THEN UNCHANGED shown
       ELSE \E bars \in getPercentages(m.votes[A], m.votes[B]) :
                shown' = [shown EXCEPT ![p] = [at |-> m.at, total |-> m.votes[A] + m.votes[B],
                                               bars |-> bars]]
    /\ UNCHANGED handlers

Deliver(p) == /\ wire[p] # <<>>
              /\ wire' = [wire EXCEPT ![p] = Tail(@)]
              /\ IF Head(wire[p]) = Welcome THEN OnMessage(p) ELSE OnScores(p, Head(wire[p]))
              /\ UNCHANGED <<tableVars, dbup, table, serverVars, sock, connects>>
              /\ NoFault

-----------------------------------------------------------------------------
Init == /\ TableInit
        /\ dbup \in BOOLEAN
        /\ table = FALSE
        /\ poll = "connect" /\ tries = 0 /\ client = "none" /\ answer = Nothing
        /\ sock = [p \in Pages |-> FALSE]
        /\ wire = [p \in Pages |-> <<>>]
        /\ handlers = [p \in Pages |-> 0]
        /\ shown = [p \in Pages |-> Nothing]
        /\ connects = 0
        /\ faults = 0

ServerStep == ConnectFails \/ ConnectOk \/ RunQuery \/ Callback \/ Timer

Next == \/ CastVote \/ RecordVote \/ CreateTable
        \/ StopDb \/ StartDb \/ LoseClient
        \/ ServerStep \/ QueryRefused \/ NoticeLoss \/ Crash \/ Restart
        \/ \E p \in Pages : Load(p) \/ Reconnect(p) \/ Disconnect(p) \/ Deliver(p)

(* The event loop of the server and those of the pages keep running; votes
   come, processes are restarted and pages connect when they like. *)
Fairness == WF_vars(ServerStep) /\ \A p \in Pages : WF_vars(Deliver(p))

Spec == Init /\ [][Next]_vars
FairSpec == Spec /\ Fairness

-----------------------------------------------------------------------------
(* Properties *)

Snapshots == [Voters -> Nat]
Percent == 0 .. 100
Answers == [at : Snapshots, rows : SUBSET [vote : Choices, count : Nat]]
Messages == {Welcome} \cup [kind : {"scores"}, at : Snapshots, votes : [Choices -> Nat]]
Views == [at : Snapshots, total : Nat, bars : [a : Percent, b : Percent]]

(* Every variable has its type. *)
TypeOK == /\ cast \in Seq([id : Voters, vote : Choices, n : Nat])
          /\ last \in Snapshots
          /\ dbup \in BOOLEAN
          /\ table \in BOOLEAN
          /\ poll \in {"connect", "asked", "answered", "wait", "gaveup", "down"}
          /\ tries \in 0 .. Tries
          /\ client \in {"none", "open", "lost"}
          /\ answer \in Answers \cup {Nothing, Failed}
          /\ sock \in [Pages -> BOOLEAN]
          /\ wire \in [Pages -> Seq(Messages)]
          /\ handlers \in [Pages -> Nat]
          /\ shown \in [Pages -> Views \cup {Nothing}]
          /\ connects \in 0 .. MaxConnects
          /\ faults \in 0 .. MaxFaults

(* No scores reach a page that has no handler for them yet: the welcome is
   always ahead, on a first connection and on every later one. *)
ScoresFindHandler ==
    \A p \in Pages : wire[p] # <<>> /\ Head(wire[p]) # Welcome => handlers[p] > 0

(* Whatever a page shows was the content of the table when it was counted:
   everybody with a row is counted once, for the option in that row, and the
   bars are those of these counts. *)
At(s, c) == {i \in Voters : s[i] # 0 /\ cast[s[i]].vote = c}
Own(s) == \A i \in Voters : s[i] # 0 => s[i] <= Len(cast) /\ cast[s[i]].id = i
Faithful(v) == LET a == Cardinality(At(v.at, A))
                   b == Cardinality(At(v.at, B))
               IN  /\ Own(v.at)
                   /\ v.total = a + b
                   /\ v.bars \in getPercentages(a, b)
ShownWasTrue == \A p \in Pages : shown[p] # Nothing => Faithful(shown[p])

(* The two bars fill the width, each is within one point of its option's share
   of the votes whichever way the halves are rounded, equal counts show equal
   bars and fewer votes never show the longer one: on the pages, and for all
   counts up to MaxCount, more votes than a run can cast. *)
AsTold(bars, a, b) == /\ bars.a + bars.b = 100
                      /\ a + b > 0 => \A c \in {<<bars.a, a>>, <<bars.b, b>>} :
                             100 * c[2] - c[1] * (a + b) \in -(a + b) .. a + b
                      /\ a = b => bars.a = bars.b
                      /\ a > b => bars.a >= bars.b
                      /\ a < b => bars.a <= bars.b
ManyVotes == \A a, b \in 0 .. MaxCount : \A bars \in getPercentages(a, b) : AsTold(bars, a, b)
BarsTell == /\ \A p \in Pages : shown[p] # Nothing =>
                  AsTold(shown[p].bars, Cardinality(At(shown[p].at, A)), Cardinality(At(shown[p].at, B)))
            /\ ManyVotes

(* Until it is loaded again a page never goes back to an earlier state of the
   table, whatever fails, restarts or is connected again in between. *)
NoOlder(s, t) == \A i \in Voters : s[i] <= t[i]
NeverOlderScores ==
    [][\A p \in Pages : shown[p] # Nothing /\ shown'[p] # Nothing => NoOlder(shown[p].at, shown'[p].at)]_vars

(* A page that stays connected to a server whose database connection stays up
   shows every recorded vote in the end, or a later one of the same voter. *)
Served(p) == sock[p] /\ table /\ client = "open"
Recorded(k) == k <= Len(cast) /\ last[cast[k].id] >= k
Shows(p, k) == shown[p] # Nothing /\ shown[p].at[cast[k].id] >= k
Behind(p, k) == Recorded(k) /\ ~Shows(p, k)
PagesCatchUp ==
    \A p \in Pages, k \in 1 .. MaxCast : Served(p) /\ Behind(p, k) ~> ~Served(p) \/ ~Behind(p, k)
=============================================================================
