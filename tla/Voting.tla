------------------------------- MODULE Voting -------------------------------
(***************************************************************************)
(* The path of a vote in CA3/P1/Bibi/voting-app: browsers load the page    *)
(* and post votes to the Flask application (vote/app.py), which pushes     *)
(* them on a Redis list; workers (worker/Program.cs) pop them one by one   *)
(* and store them in Postgres, one row per voter.  The composed system has *)
(* one worker in docker-compose.yml and two in docker-stack.yml.           *)
(* Redis, Postgres and the network are modelled from how this code uses    *)
(* them; what can go wrong with them is counted in faults.                 *)
(***************************************************************************)
EXTENDS Integers, Sequences, FiniteSets

CONSTANTS Browsers,     \* browsers that keep cookies
          Workers,      \* worker replicas
          Choices,      \* the two options
          NoChoice,     \* no vote
          MaxIds,       \* bound: voter ids handed out
          MaxRequests,  \* bound: requests the browsers send
          MaxFaults,    \* bound: faults of network, databases and processes
          Restarts      \* whether an exited worker is started again

ASSUME BoundsAssumption == /\ MaxIds \in Nat
                           /\ MaxRequests \in Nat
                           /\ MaxFaults \in Nat
                           /\ Restarts \in BOOLEAN

VARIABLES cookie,     \* cookie[b]: the voter_id b would send
          loaded,     \* loaded[b]: b shows the page and can post its form
          flight,     \* requests sent and not yet answered
          requests,   \* number of requests sent so far
          issued,     \* number of voter ids handed out so far
          owner,      \* owner[i]: the browser id i was handed to
          votes,      \* the Redis list "votes", next to be popped first
          cast,       \* history: every vote pushed, in order; a vote carries its place
          wpc,        \* where each worker is
          held,       \* held[w]: the vote w popped and has not finished
          conn,       \* conn[w]: w's database connection
          keepable,   \* keepable[w]: keepAliveCommand belongs to the current connection
          row,        \* row[i]: the row of voter i in the table votes
          raced,      \* history: raced[i]: two workers have held votes of i at once
          wiped,      \* history: the places of the votes Redis lost with its list
          faults      \* number of faults so far

frontVars  == <<cookie, loaded, flight, requests, issued, owner>>
queueVars  == <<votes, cast, wiped>>
workerVars == <<wpc, held, conn, keepable>>
vars == <<frontVars, queueVars, workerVars, row, raced, faults>>

Ids  == 1 .. MaxIds
NoId == 0

(* A vote in the list or in a worker; number 0 stands for none. *)
NoVote == [id |-> NoId, vote |-> NoChoice, n |-> 0]
NoRow  == [vote |-> NoChoice, n |-> 0]

Holding(w) == held[w].n # 0

WorkerPC == {"start", "poll", "held", "reconnect", "insert", "update", "exited"}

Init == /\ cookie   = [b \in Browsers |-> NoId]
        /\ loaded   = [b \in Browsers |-> FALSE]
        /\ flight   = {}
        /\ requests = 0
        /\ issued   = 0
        /\ owner    = [i \in Ids |-> {}]
        /\ votes    = <<>>
        /\ cast     = <<>>
        /\ wiped    = {}
        /\ wpc      = [w \in Workers |-> "start"]
        /\ held     = [w \in Workers |-> NoVote]
        /\ conn     = [w \in Workers |-> "closed"]
        /\ keepable = [w \in Workers |-> FALSE]
        /\ row      = [i \in Ids |-> NoRow]
        /\ raced    = [i \in Ids |-> FALSE]
        /\ faults   = 0

Fault == faults < MaxFaults /\ faults' = faults + 1
NoFault == UNCHANGED faults

-----------------------------------------------------------------------------
(* Browsers and the vote application *)

Request(b, kind, v) == [k |-> requests + 1, b |-> b, kind |-> kind, vote |-> v,
                        id |-> cookie[b], served |-> FALSE]

Send(b, kind, v) == /\ requests < MaxRequests
                    /\ requests' = requests + 1
                    /\ flight' = flight \cup {Request(b, kind, v)}
                    /\ UNCHANGED <<cookie, loaded, issued, owner, queueVars, workerVars, row, raced>>
                    /\ NoFault

(* The cookie travels with the request as it is at that moment; several tabs
   may have requests under way. *)
OpenPage(b) == Send(b, "get", NoChoice)
PostVote(b) == loaded[b] /\ \E v \in Choices : Send(b, "post", v)

(* The id the handler uses: the one in the cookie, or a fresh random one. *)
VoterId(q) == IF q.id = NoId THEN issued + 1 ELSE q.id

(* Altered: the cookie is set to what the browser sent, not to the id in use. *)
ServedAsSent(q) == [q EXCEPT !.served = TRUE]

Served(q) == [q EXCEPT !.id = VoterId(q), !.served = TRUE]

Issue(q) == /\ VoterId(q) \in Ids
            /\ issued' = IF q.id = NoId THEN issued + 1 ELSE issued
            /\ owner' = [owner EXCEPT ![VoterId(q)] = @ \cup {q.b}]

Ballot(q) == [id |-> VoterId(q), vote |-> q.vote, n |-> Len(cast) + 1]

rpush(q) == /\ votes' = Append(votes, Ballot(q))
            /\ cast' = Append(cast, Ballot(q))
            /\ UNCHANGED wiped

(* The handler for a page: no vote, only the id that goes into the cookie. *)
ServePage(q) == /\ q.kind = "get" /\ ~q.served
                /\ Issue(q)
                /\ flight' = (flight \ {q}) \cup {Served(q)}
                /\ UNCHANGED <<cookie, loaded, requests, queueVars, workerVars, row, raced>>
                /\ NoFault

ServeVote(q) == /\ q.kind = "post" /\ ~q.served
                /\ Issue(q)
                /\ rpush(q)
                /\ flight' = (flight \ {q}) \cup {Served(q)}
                /\ UNCHANGED <<cookie, loaded, requests, workerVars, row, raced>>
                /\ NoFault

(* Redis does not answer in time: an error page without a cookie, whether
   the vote was pushed or not. *)
ServeVoteTimesOut(q) == /\ q.kind = "post" /\ ~q.served
                        /\ Issue(q)
                        /\ rpush(q) \/ UNCHANGED queueVars
                        /\ flight' = flight \ {q}
                        /\ UNCHANGED <<cookie, loaded, requests, workerVars, row, raced>>
                        /\ Fault

(* The answer sets the cookie, over whatever it was by then. *)
Answer(q) == /\ q.served
             /\ cookie' = [cookie EXCEPT ![q.b] = q.id]
             /\ loaded' = [loaded EXCEPT ![q.b] = TRUE]
             /\ flight' = flight \ {q}
             /\ UNCHANGED <<requests, issued, owner, queueVars, workerVars, row, raced>>
             /\ NoFault

AnswerLost(q) == /\ q.served
                 /\ flight' = flight \ {q}
                 /\ UNCHANGED <<cookie, loaded, requests, issued, owner, queueVars, workerVars, row, raced>>
                 /\ Fault

-----------------------------------------------------------------------------
(* Worker *)

Goto(w, from, to) == wpc[w] = from /\ wpc' = [wpc EXCEPT ![w] = to]

(* Main catches every exception and returns 1. *)
Exit(w) == /\ wpc' = [wpc EXCEPT ![w] = "exited"]
           /\ held' = [held EXCEPT ![w] = NoVote]
           /\ conn' = [conn EXCEPT ![w] = "closed"]
           /\ keepable' = [keepable EXCEPT ![w] = FALSE]

(* Both connections are open, keepAliveCommand is made for this one. *)
Start(w) == /\ Goto(w, "start", "poll")
            /\ conn' = [conn EXCEPT ![w] = "open"]
            /\ keepable' = [keepable EXCEPT ![w] = TRUE]
            /\ UNCHANGED <<frontVars, queueVars, held, row, raced>>
            /\ NoFault

(* Somebody else works on a vote of the same voter. *)
Overlaps(w, i) == \E u \in Workers \ {w} : Holding(u) /\ held[u].id = i

(* Altered: the list is popped at the end it is pushed at. *)
PopRight(w) == /\ votes # <<>>
               /\ Goto(w, "poll", "held")
               /\ held' = [held EXCEPT ![w] = votes[Len(votes)]]
               /\ votes' = SubSeq(votes, 1, Len(votes) - 1)
               /\ raced' = [raced EXCEPT ![votes[Len(votes)].id] =
                                 @ \/ Overlaps(w, votes[Len(votes)].id)]
               /\ UNCHANGED <<frontVars, cast, wiped, conn, keepable, row>>
               /\ NoFault

(* ListLeftPopAsync gives a vote. *)
Pop(w) == /\ votes # <<>>
          /\ Goto(w, "poll", "held")
          /\ held' = [held EXCEPT ![w] = Head(votes)]
          /\ votes' = Tail(votes)
          /\ raced' = [raced EXCEPT ![Head(votes).id] = @ \/ Overlaps(w, Head(votes).id)]
          /\ UNCHANGED <<frontVars, cast, wiped, conn, keepable, row>>
          /\ NoFault

(* ListLeftPopAsync throws; Redis may have popped the vote all the same. *)
PopThrows(w) == /\ wpc[w] = "poll"
                /\ votes' = votes \/ (votes # <<>> /\ votes' = Tail(votes))
                /\ Exit(w)
                /\ UNCHANGED <<frontVars, cast, wiped, row, raced>>
                /\ Fault

(* Nothing to do: SELECT 1, on the connection of the start.  When it works
   nothing changes; on a lost or replaced connection it throws. *)
KeepAliveThrows(w) == /\ wpc[w] = "poll"
                      /\ votes = <<>>
                      /\ ~keepable[w] \/ conn[w] # "open"
                      /\ Exit(w)
                      /\ UNCHANGED <<frontVars, queueVars, row, raced>>
                      /\ NoFault

CheckState(w) == /\ Goto(w, "held", IF conn[w] = "closed" THEN "reconnect" ELSE "insert")
                 /\ UNCHANGED <<frontVars, queueVars, held, conn, keepable, row, raced>>
                 /\ NoFault

(* Altered: the new connection is not kept, so the next vote meets the old one. *)
ReconnectInVain(w) == /\ Goto(w, "reconnect", "poll")
                      /\ held' = [held EXCEPT ![w] = NoVote]
                      /\ UNCHANGED <<frontVars, queueVars, conn, keepable, row, raced>>
                      /\ NoFault

(* The branch that reconnects does not go on to UpdateVote. *)
Reconnect(w) == /\ Goto(w, "reconnect", "poll")
                /\ conn' = [conn EXCEPT ![w] = "open"]
                /\ keepable' = [keepable EXCEPT ![w] = FALSE]
                /\ held' = [held EXCEPT ![w] = NoVote]
                /\ UNCHANGED <<frontVars, queueVars, row, raced>>
                /\ NoFault

RowOf(w) == [vote |-> held[w].vote, n |-> held[w].n]
HasRow(i) == row[i].n # 0
Entry(i) == [id |-> i, vote |-> row[i].vote, n |-> row[i].n]
Store(w) == row' = [row EXCEPT ![held[w].id] = RowOf(w)]

Done(w, from) == /\ Goto(w, from, "poll")
                 /\ held' = [held EXCEPT ![w] = NoVote]

Insert(w) == /\ Done(w, "insert")
             /\ conn[w] = "open"
             /\ ~HasRow(held[w].id)
             /\ Store(w)
             /\ UNCHANGED <<frontVars, queueVars, conn, keepable, raced>>
             /\ NoFault

(* Altered: the exception is swallowed and no UPDATE follows. *)
InsertSwallows(w) == /\ Done(w, "insert")
                     /\ conn[w] # "open" \/ HasRow(held[w].id)
                     /\ conn' = [conn EXCEPT ![w] = IF @ = "open" THEN "open" ELSE "closed"]
                     /\ UNCHANGED <<frontVars, queueVars, keepable, row, raced>>
                     /\ NoFault

(* Altered: the INSERT is tried again instead. *)
InsertRetries(w) == /\ Goto(w, "insert", "insert")
                    /\ conn[w] # "open" \/ HasRow(held[w].id)
                    /\ UNCHANGED <<frontVars, queueVars, held, conn, keepable, row, raced>>
                    /\ NoFault

(* The id is there already, or the connection is lost: a DbException. *)
InsertThrows(w) == /\ Goto(w, "insert", "update")
                   /\ conn[w] # "open" \/ HasRow(held[w].id)
                   /\ conn' = [conn EXCEPT ![w] = IF @ = "open" THEN "open" ELSE "closed"]
                   /\ UNCHANGED <<frontVars, queueVars, held, keepable, row, raced>>
                   /\ NoFault

(* A DbException of any other kind, on a connection that stays open. *)
InsertRefused(w) == /\ Goto(w, "insert", "update")
                    /\ conn[w] = "open"
                    /\ UNCHANGED <<frontVars, queueVars, held, conn, keepable, row, raced>>
                    /\ Fault

(* The row is stored, the connection breaks before the answer. *)
InsertUnanswered(w) == /\ Goto(w, "insert", "update")
                       /\ conn[w] = "open"
                       /\ ~HasRow(held[w].id)
                       /\ Store(w)
                       /\ conn' = [conn EXCEPT ![w] = "closed"]
                       /\ UNCHANGED <<frontVars, queueVars, held, keepable, raced>>
                       /\ Fault

(* UPDATE ... WHERE id = @id, which may match no row. *)
Update(w) == /\ Done(w, "update")
             /\ conn[w] = "open"
             /\ IF HasRow(held[w].id) THEN Store(w) ELSE UNCHANGED row
             /\ UNCHANGED <<frontVars, queueVars, conn, keepable, raced>>
             /\ NoFault

(* The row is changed, the connection breaks before the answer. *)
UpdateUnanswered(w) == /\ wpc[w] = "update"
                       /\ conn[w] = "open"
                       /\ HasRow(held[w].id)
                       /\ Store(w)
                       /\ Exit(w)
                       /\ UNCHANGED <<frontVars, queueVars, raced>>
                       /\ Fault

(* No connection any more: the exception leaves UpdateVote and Main. *)
UpdateThrows(w) == /\ wpc[w] = "update"
                   /\ conn[w] # "open"
                   /\ Exit(w)
                   /\ UNCHANGED <<frontVars, queueVars, row, raced>>
                   /\ NoFault

-----------------------------------------------------------------------------
(* The environment of a worker *)

(* The server or the network drops the connection; State still says Open. *)
LoseConnection(w) == /\ conn[w] = "open"
                     /\ conn' = [conn EXCEPT ![w] = "lost"]
                     /\ UNCHANGED <<frontVars, queueVars, wpc, held, keepable, row, raced>>
                     /\ Fault

(* State turns to something other than Open. *)
NoticeLoss(w) == /\ conn[w] = "lost"
                 /\ conn' = [conn EXCEPT ![w] = "closed"]
                 /\ UNCHANGED <<frontVars, queueVars, wpc, held, keepable, row, raced>>
                 /\ NoFault

Crash(w) == /\ wpc[w] # "exited"
            /\ Exit(w)
            /\ UNCHANGED <<frontVars, queueVars, row, raced>>
            /\ Fault

(* Redis restarts without its list. *)
LoseList == /\ votes # <<>>
            /\ votes' = <<>>
            /\ wiped' = wiped \cup {votes[k].n : k \in 1 .. Len(votes)}
            /\ UNCHANGED <<frontVars, cast, workerVars, row, raced>>
            /\ Fault

(* The restart policy of the stack or of the deployment. *)
Restart(w) == /\ Restarts
              /\ Goto(w, "exited", "start")
              /\ UNCHANGED <<frontVars, queueVars, held, conn, keepable, row, raced>>
              /\ NoFault

-----------------------------------------------------------------------------
WorkerStep(w) == \/ Start(w)
                 \/ Pop(w) \/ KeepAliveThrows(w)
                 \/ CheckState(w) \/ Reconnect(w)
                 \/ Insert(w) \/ InsertThrows(w)
                 \/ Update(w) \/ UpdateThrows(w)

WorkerFault(w) == \/ PopThrows(w)
                  \/ InsertRefused(w) \/ InsertUnanswered(w) \/ UpdateUnanswered(w)
                  \/ LoseConnection(w) \/ NoticeLoss(w)
                  \/ Crash(w)

HandlerStep(q) == ServePage(q) \/ ServeVote(q) \/ Answer(q)

HandlerFault(q) == ServeVoteTimesOut(q) \/ AnswerLost(q)

Next == \/ \E b \in Browsers : OpenPage(b) \/ PostVote(b)
        \/ \E q \in flight : HandlerStep(q) \/ HandlerFault(q)
        \/ \E w \in Workers : WorkerStep(w) \/ WorkerFault(w) \/ Restart(w)
        \/ LoseList

(* Workers keep looping and are restarted; users post when they like. *)
Fairness == \A w \in Workers : WF_vars(WorkerStep(w)) /\ WF_vars(Restart(w))

Spec == Init /\ [][Next]_vars
FairSpec == Spec /\ Fairness

-----------------------------------------------------------------------------
(* Properties *)

Ballots  == [id : Ids, vote : Choices, n : Nat \ {0}]
Rows     == [vote : Choices \cup {NoChoice}, n : Nat]
Requests == [k : Nat, b : Browsers, kind : {"get", "post"}, vote : Choices \cup {NoChoice},
             id : Ids \cup {NoId}, served : BOOLEAN]

HandlingPC == {"held", "reconnect", "insert", "update"}

(* Every variable has its type; a worker has a vote in hand exactly while it
   handles one. *)
TypeOK == /\ cookie \in [Browsers -> Ids \cup {NoId}]
          /\ loaded \in [Browsers -> BOOLEAN]
          /\ flight \subseteq Requests
          /\ \A q \in flight : /\ q.kind = "post" => q.vote \in Choices
                               /\ q.served => q.id \in Ids
          /\ requests \in 0 .. MaxRequests
          /\ issued \in 0 .. MaxIds
          /\ owner \in [Ids -> SUBSET Browsers]
          /\ cast \in Seq(Ballots)
          /\ votes \in Seq(Ballots)
          /\ wpc \in [Workers -> WorkerPC]
          /\ held \in [Workers -> Ballots \cup {NoVote}]
          /\ conn \in [Workers -> {"open", "lost", "closed"}]
          /\ keepable \in [Workers -> BOOLEAN]
          /\ row \in [Ids -> Rows]
          /\ raced \in [Ids -> BOOLEAN]
          /\ wiped \subseteq Nat
          /\ faults \in 0 .. MaxFaults
          /\ \A w \in Workers : (wpc[w] \in HandlingPC) <=> Holding(w)

(* The list, the workers and the table agree on the order of the votes: the
   list holds the latest votes in the order of their pushes, what a worker
   holds was pushed before them, and as long as no two workers have held
   votes of one voter at once, what a worker holds is the newest of its
   voter outside the list and every row is older. *)
Recorded(v) == v.n <= Len(cast) /\ cast[v.n] = v
BeforeList(n) == \A k \in 1 .. Len(votes) : n < votes[k].n
Newest(w) == /\ row[held[w].id].n <= held[w].n
             /\ ~Overlaps(w, held[w].id)

InOrder == /\ \A k \in 1 .. Len(votes) : Recorded(votes[k])
           /\ \A j, k \in 1 .. Len(votes) : j < k => votes[j].n < votes[k].n
           /\ \A w \in Workers : Holding(w) => Recorded(held[w]) /\ BeforeList(held[w].n)
           /\ \A i \in Ids : HasRow(i) => Recorded(Entry(i)) /\ BeforeList(row[i].n)
           /\ \A w \in Workers : Holding(w) /\ ~raced[held[w].id] => Newest(w)

(* A later vote of a voter is never replaced by an earlier one, unless two
   workers have held votes of that voter at once. *)
NeverOlder == [][\A i \in Ids : raced[i] \/ row'[i].n >= row[i].n]_vars

(* Every vote ever pushed is in the list, in a worker's hands, or in the table
   as itself or as a later vote of the same voter.  What is lost otherwise was
   lost to a fault, and one vote to each at most: a connection that breaks
   costs the vote in hand when the worker finds out, by the branch that
   reconnects or by the UPDATE that throws, and not the next one too; an
   INSERT refused, a crash or an LPOP whose answer is lost costs one vote.
   Votes lost in Redis together with the list, and voters on whom two workers
   overlapped, are left out. *)
Accounted(v) == \/ raced[v.id]
                \/ v.n \in wiped
                \/ \E k \in 1 .. Len(votes) : votes[k] = v
                \/ \E w \in Workers : held[w] = v
                \/ row[v.id].n >= v.n
LostVotes == {k \in 1 .. Len(cast) : ~Accounted(cast[k])}
OneVotePerFault == Cardinality(LostVotes) <= faults

(* With one worker the table is what VoteTable promises: whatever fails, is
   lost or is started again, a row is only ever replaced by a later vote. *)
Table == INSTANCE VoteTable WITH Voters <- Ids, last <- [i \in Ids |-> row[i].n]
ImplementsTable == Table!TableSpec

(* Whatever goes wrong, and however often workers exit, no vote waits in the
   list for ever. *)
Waiting(n) == \E k \in 1 .. Len(votes) : votes[k].n = n
ListDrains == \A n \in 1 .. MaxRequests : Waiting(n) ~> ~Waiting(n)

(* "The voting application only accepts one vote per client browser"
   (voting-app/README.md): the votes counted for one browser. *)
OneVotePerBrowser ==
    \A b \in Browsers : Cardinality({i \in Ids : HasRow(i) /\ b \in owner[i]}) <= 1

(* "(Tip: you can change your vote)" (vote/templates/index.html): when all
   votes are handled, the row of a voter shows the last vote cast. *)
Idle == votes = <<>> /\ \A w \in Workers : ~Holding(w)
LastCast(i) == {k \in 1 .. Len(cast) : cast[k].id = i
                    /\ \A j \in k + 1 .. Len(cast) : cast[j].id # i}
VoteCanBeChanged ==
    Idle => \A i \in Ids : \A k \in LastCast(i) : row[i].vote = cast[k].vote

(* Unless a fault came between or two workers have held votes of the voter at
   once, what is counted for a voter when all votes are handled is the last
   one cast: none is passed over on its way, and a changed vote is updated. *)
LastVoteCounts ==
    Idle /\ faults = 0 =>
        \A i \in Ids : raced[i] \/ \A k \in LastCast(i) : row[i].vote = cast[k].vote
=============================================================================
