----------------------------- MODULE RouterTree -----------------------------
(***************************************************************************)
(* Routers connected as daemon.py connects them: a leaf router for each    *)
(* board of nodes, on its first node, and a root router with a link to     *)
(* each of them.  A request is wrapped into a RouterEvent where a client   *)
(* hands it to its router, forwarded until it is at the router of the      *)
(* server it is for, and its answer goes the same way to the router it     *)
(* came from.  What the requests and answers do there is the module        *)
(* Router; here only their way matters.                                    *)
(***************************************************************************)
EXTENDS Integers, Sequences, SequencesExt, FiniteSets

CONSTANTS
    NumNodes, NodesPerBoard,    \* the machine
    Server,           \* the servers that are asked: [rtr, srvr] of their route
    Asks,             \* who asks whom: pairs of a router and a server
    Unrouted,         \* servers whose object has no line in the route table
    Early,            \* whether requests are sent through links to servers that
                      \* have not connected
    MaxSent           \* bound on the requests from one router to one server

TreeAssumption ==
    /\ NumNodes \in Nat \ {0} /\ NodesPerBoard \in Nat \ {0}
    /\ Early \in BOOLEAN /\ MaxSent \in Nat

\* calcRtrRoot and configRtr of daemon.py: boards, rounded up, and the id of the
\* root router, which is 0 on a single node.
NumBoards == (NumNodes + NodesPerBoard - 1) \div NodesPerBoard
Leaf == 0 .. NumBoards - 1
RootId == IF NumNodes = 1 THEN NumNodes \div NodesPerBoard ELSE NumBoards
\* exec.py: the node of the root router.  A node runs one router.
RootNode == (IF NumNodes < NodesPerBoard THEN NumNodes ELSE NodesPerBoard) - 1
LeafRuns(b) == b * NodesPerBoard # RootNode
Router == {RootId} \cup {b \in Leaf : LeafRuns(b)}
\* The router that listens at the first node of a board.
AtBoard(b) == IF LeafRuns(b) THEN b ELSE RootId

\* The links of a router: [to, nidStart, nidStop]; link 0 has no range.
Links(r) ==
    IF r = RootId
    THEN IF NumNodes = 1 THEN <<>>
         ELSE [i \in 1 .. NumBoards |->
                  [to |-> AtBoard(i - 1), nidStart |-> i - 1, nidStop |-> i - 1]]
    ELSE <<[to |-> RootId, nidStart |-> 0, nidStop |-> 0]>>

\* genRouteFile: a line for each board and for each of its nodes, numbered from
\* 0 in each board.
RouteTable ==
    {[rtr |-> b, srvr |-> k] : b \in Leaf, k \in 0 .. NodesPerBoard} \
    {[rtr |-> NumBoards - 1, srvr |-> k + 1] :
        k \in {j \in 0 .. NodesPerBoard - 1 :
                   (NumBoards - 1) * NodesPerBoard + j >= NumNodes}}

ServerAssumption ==
    /\ Server \ Unrouted \subseteq RouteTable /\ Unrouted \subseteq Server
    /\ Asks \subseteq Router \X Server

Nowhere == [rtr |-> -1, srvr |-> -1]
findRoute(s) == IF s \in Unrouted THEN Nowhere ELSE s

VARIABLES
    localMap,     \* servers connected to their router
    pending,      \* m_pendingEvents of the router of each server
    link,         \* link[r][q]: events on the connection from router r to q
    toServer,     \* events on the connection from the router to a server
    fromServer,   \* and back
    sent,         \* history: requests sent, by pair of Asks
    answered,     \* history: answers that came back, by pair
    dangling      \* history: a deleted event is in pending

vars == <<localMap, pending, link, toServer, fromServer, sent, answered, dangling>>

Init ==
    /\ localMap = {}
    /\ pending = [s \in Server |-> <<>>]
    /\ link = [r \in Router |-> [q \in Router |-> <<>>]]
    /\ toServer = [s \in Server |-> <<>>]
    /\ fromServer = [s \in Server |-> <<>>]
    /\ sent = [p \in Asks |-> 0]
    /\ answered = [p \in Asks |-> <<>>]
    /\ dangling = FALSE

-----------------------------------------------------------------------------
\* TreeCore::getChannel: the first of the links 1 .. that has the id in its
\* range, else link 0.  A mutant leaves the start of a range out.
InOpenRange(l, id) == id > l.nidStart /\ id <= l.nidStop
InRange(l, id) == id >= l.nidStart /\ id <= l.nidStop
getChannel(r, id) ==
    LET ls == Links(r)
        fits == {i \in 2 .. Len(ls) : InRange(ls[i], id)}
    IN  IF fits = {} THEN ls[1].to
        ELSE ls[CHOOSE i \in fits : \A j \in fits : i <= j].to

\* The router an event is addressed to: that of the server, or, for an answer,
\* the one it came from.
Target(ev) == IF ev.kind = "req" THEN findRoute(ev.dest).rtr ELSE ev.src

\* Router::sendEvent at router r, with an event that was made there or that came
\* from a link or a server.  findRtrChan gives a channel: every router that
\* forwards has a link.
Forward(r, ev) ==
    /\ Links(r) # <<>>
    /\ link' = [link EXCEPT ![r][getChannel(r, Target(ev))] =
                    Append(@, [ev EXCEPT !.hops = @ + 1])]

\* The server is local: its connection, or m_pendingEvents.
Deliver(ev) ==
    IF ev.dest \in localMap
    THEN /\ toServer' = [toServer EXCEPT ![ev.dest] = Append(@, ev)]
         /\ UNCHANGED pending
    ELSE /\ pending' = [pending EXCEPT ![ev.dest] = Append(@, ev)]
         /\ UNCHANGED toServer

\* A client of router r has a request for the object of server s.
ClientRequest(r, s) ==
    /\ sent[<<r, s>>] < MaxSent
    /\ Early \/ s \in localMap \/ s \in Unrouted \/ findRoute(s).rtr = r
    /\ sent' = [sent EXCEPT ![<<r, s>>] = @ + 1]
    /\ LET ev == [kind |-> "req", src |-> r, dest |-> s, n |-> sent[<<r, s>>] + 1,
                  hops |-> 0]
       IN  IF Target(ev) = r
           THEN Deliver(ev) /\ UNCHANGED link
           ELSE Forward(r, ev) /\ UNCHANGED <<pending, toServer>>
    /\ UNCHANGED <<localMap, fromServer, answered, dangling>>

\* A RouterEvent arrives from another router.  RtrRouterEvent::process returns
\* true, upon which the event is deleted, although it may have been queued.
FromRouter(q, r) ==
    /\ link[q][r] # <<>>
    /\ LET ev == Head(link[q][r])
           rest == [link EXCEPT ![q][r] = Tail(@)]
       IN  IF Target(ev) # r
           THEN /\ Links(r) # <<>>
                /\ LET to == getChannel(r, Target(ev))
                   IN  link' = [rest EXCEPT ![r][to] =
                                   Append(@, [ev EXCEPT !.hops = IF @ < 3 THEN @ + 1 ELSE 3])]
                /\ UNCHANGED <<pending, toServer, answered, dangling>>
           ELSE /\ link' = rest
                /\ IF ev.kind = "resp"
                   THEN /\ answered' = [answered EXCEPT ![<<r, ev.dest>>] = Append(@, ev.n)]
                        /\ UNCHANGED <<pending, toServer, dangling>>
                   ELSE /\ Deliver(ev)
                        /\ dangling' = (dangling \/ ev.dest \notin localMap)
                        /\ UNCHANGED answered
    /\ UNCHANGED <<localMap, fromServer, sent>>

\* RtrServerConnectEvent: addServer and doPending.  One mutant sends the events
\* that wait newest first, one leaves them in the queue.
NewestFirst(q) == Reverse(q)
Flushed(q) == q
NothingErased(q) == q
Erased(q) == <<>>

ServerConnect(s) ==
    /\ s \notin localMap
    /\ localMap' = localMap \cup {s}
    /\ toServer' = [toServer EXCEPT ![s] = @ \o Flushed(pending[s])]
    /\ pending' = [pending EXCEPT ![s] = Erased(@)]
    /\ UNCHANGED <<link, fromServer, sent, answered, dangling>>

\* The server takes a request and answers it, to the source of its RouterEvent.
ServerTake(s) ==
    /\ toServer[s] # <<>>
    /\ toServer' = [toServer EXCEPT ![s] = Tail(@)]
    /\ fromServer' = [fromServer EXCEPT ![s] =
                          Append(@, [Head(toServer[s]) EXCEPT !.kind = "resp", !.hops = 0])]
    /\ UNCHANGED <<localMap, pending, link, sent, answered, dangling>>

\* Its router has the answer: it is for a request of its own, or it goes on.
FromServer(s) ==
    /\ fromServer[s] # <<>>
    /\ fromServer' = [fromServer EXCEPT ![s] = Tail(@)]
    /\ LET ev == Head(fromServer[s])
           r == AtBoard(s.rtr)
       IN  IF Target(ev) = r
           THEN /\ answered' = [answered EXCEPT ![<<r, s>>] = Append(@, ev.n)]
                /\ UNCHANGED link
           ELSE Forward(r, ev) /\ UNCHANGED answered
    /\ UNCHANGED <<localMap, pending, toServer, sent, dangling>>

Next ==
    \/ \E p \in Asks : ClientRequest(p[1], p[2])
    \/ \E q, r \in Router : FromRouter(q, r)
    \/ \E s \in Server : ServerConnect(s) \/ ServerTake(s) \/ FromServer(s)

\* Every process takes what select offers it, and every server connects.
Fairness ==
    /\ \A q, r \in Router : WF_vars(FromRouter(q, r))
    /\ \A s \in Server : /\ WF_vars(ServerConnect(s))
                         /\ WF_vars(ServerTake(s)) /\ WF_vars(FromServer(s))

Spec == Init /\ [][Next]_vars /\ Fairness

-----------------------------------------------------------------------------
\* Every variable keeps its type; what waits is for a server without connection.
TypeOK ==
    /\ localMap \subseteq Server
    /\ \A r \in Router, q \in Router : \A i \in DOMAIN link[r][q] :
           LET ev == link[r][q][i]
           IN  ev.src \in Router /\ ev.dest \in Server /\ ev.hops \in 1 .. 3
    /\ \A s \in Server : /\ pending[s] # <<>> => s \notin localMap
                         /\ \A i \in DOMAIN pending[s] : pending[s][i].kind = "req"

\* Every request has its answer, and the answers came back in the order of the
\* requests, each once (router.cc:129-194).
AllAnswered == \A p \in Asks : answered[p] = [n \in 1 .. sent[p] |-> n]

\* The numbers of the events of a kind in a queue that are of router r and server s.
Mine(ev, kind, r, s) == ev.kind = kind /\ ev.src = r /\ ev.dest = s
Numbers(q, kind, r, s) ==
    LET f[i \in 0 .. Len(q)] ==
            IF i = 0 THEN <<>>
            ELSE IF Mine(q[i], kind, r, s) THEN Append(f[i - 1], q[i].n) ELSE f[i - 1]
    IN  f[Len(q)]

\* Those on the links from router r to router d, the next to come first.
OnLinks(links, r, d, kind, src, s) ==
    LET a == getChannel(r, d)
    IN  IF r = d THEN <<>>
        ELSE IF a = d THEN Numbers(links[r][d], kind, src, s)
        ELSE Numbers(links[a][d], kind, src, s) \o Numbers(links[r][a], kind, src, s)

\* What is on the way from router r to server s, in the order of its arrival: the
\* routers implement one queue from each router to each server.
InTransit(r, s) ==
    (Numbers(toServer[s], "req", r, s) \o Numbers(pending[s], "req", r, s))
        \o OnLinks(link, r, s.rtr, "req", r, s)

D == INSTANCE Delivery WITH
    Pair <- Asks, queue <- [p \in Asks |-> InTransit(p[1], p[2])]
ImplementsDelivery == D!Spec

\* The answers come back in the order of the requests, each once and none without its
\* request (router.cc:129-194), until an event is deleted that waits.
AnswersInOrder ==
    ~dangling => \A p \in Asks : /\ answered[p] = [n \in 1 .. Len(answered[p]) |-> n]
                                 /\ Len(answered[p]) <= sent[p]

\* No event that another router forwarded is deleted while it waits for its server
\* (router.cc:168), if clients ask a server of another router only after it has
\* connected; with Early they need not, and it is.
NoneDangling == ~dangling
=============================================================================
