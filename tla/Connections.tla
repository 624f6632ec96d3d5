---------------------------- MODULE Connections ----------------------------
(***************************************************************************)
(* The connections of a router: servers and clients that come and go, by   *)
(* their own doing or killed, while requests are on their way.  What the   *)
(* router keeps of a connection (m_serverMap, m_clientMap, m_localMap, the *)
(* src of a CommReqInfo) must go with it, and select decides by descriptor *)
(* in which order it learns what happened.  Each client has one            *)
(* communicator, with one object of each server.                           *)
(***************************************************************************)
EXTENDS Integers, Sequences, FiniteSets, FiniteSetsExt

CONSTANTS
    ServerId,     \* ids of the servers in the route table
    MaxConn,      \* bound on the connections of a server
    MaxClients,   \* bound on the clients
    MaxReq        \* bound on the requests of a client

ConnAssumption ==
    /\ ServerId \subseteq Nat /\ IsFiniteSet(ServerId)
    /\ MaxConn \in Nat \ {0} /\ MaxClients \in Nat \ {0} /\ MaxReq \in Nat

\* A connection: whose, and a number.  Clients are those of ClientPort.
ClientPort == -1
Client == {ClientPort} \X (1 .. MaxClients)
Chan == (ServerId \X (1 .. MaxConn)) \cup Client
NoChan == <<ClientPort, 0>>

\* A message of the communicator of client k: its creation, a request, its end.
Create(k) == <<k, 0>>
Request == Client \X (1 .. MaxReq)
Destroy(k) == <<k, MaxReq + 1>>
ServerConnect == <<>>

VARIABLES
    up,           \* the router runs
    peer,         \* the process at the other end: "none", "up" or "dead"
    backlog,      \* connections not accepted yet
    fd,           \* descriptor of a connection in the router, 0 without
    in,           \* in[c]: events the router has not read
    out,          \* out[c]: events the other end has not read
    reset,        \* connections the peer has reset
    localMap,     \* m_localMap
    pending,      \* m_pendingEvents
    infos,        \* CommReqInfo by request: the servers that have not answered
    asked, got,   \* requests a client has sent, and answers it has
    knows,        \* communicators a server process has been told of
    taken,        \* history: what the processes of a server have taken
    early,        \* history: connections of servers that were started again before
                  \* the router had seen the end of an earlier one
    lost          \* history: what was written to an ended connection or not
                  \* read from one: pairs of a message and a server

vars == <<up, peer, backlog, fd, in, out, reset, localMap, pending, infos, asked, got,
          knows, taken, early, lost>>
router == <<fd, localMap, pending, infos>>

Init ==
    /\ up = TRUE
    /\ peer = [c \in Chan |-> "none"]
    /\ backlog = {}
    /\ fd = [c \in Chan |-> 0]
    /\ in = [c \in Chan |-> <<>>]
    /\ out = [c \in Chan |-> <<>>]
    /\ reset = {}
    /\ localMap = [s \in ServerId |-> NoChan]
    /\ pending = [s \in ServerId |-> <<>>]
    /\ infos = [r \in {} |-> {}]
    /\ asked = [k \in Client |-> 0]
    /\ got = [k \in Client |-> 0]
    /\ knows = [c \in Chan |-> {}]
    /\ taken = [s \in ServerId |-> <<>>]
    /\ early = {}
    /\ lost = {}

Open == {c \in Chan : fd[c] # 0}
Messages(q) == {q[i] : i \in DOMAIN q}

-----------------------------------------------------------------------------
(***************************************************************************)
(* What the processes at the other ends do.                                *)
(***************************************************************************)

\* A client opens its connection and makes its communicator; a server connects
\* and says its name.  A server is started again when its last process has ended,
\* whether the router has seen that or not.
Before(c) == {d \in Chan : d[1] = c[1] /\ d[2] < c[2]}
Connect(c) ==
    /\ up /\ peer[c] = "none"
    /\ \A d \in Before(c) : peer[d] # "none" /\ (c \in Client \/ peer[d] = "dead")
    /\ early' = IF c \notin Client /\ Before(c) \cap (Open \cup backlog) # {}
                THEN early \cup {c} ELSE early
    /\ peer' = [peer EXCEPT ![c] = "up"]
    /\ backlog' = backlog \cup {c}
    /\ in' = [in EXCEPT ![c] = <<IF c \in Client THEN Create(c) ELSE ServerConnect>>]
    /\ UNCHANGED <<up, out, reset, router, asked, got, knows, taken, lost>>

Outstanding(k) == got[k] < asked[k]

ClientAsks(k) ==
    /\ peer[k] = "up" /\ asked[k] < MaxReq
    /\ asked' = [asked EXCEPT ![k] = @ + 1]
    /\ in' = [in EXCEPT ![k] = Append(@, <<k, asked[k] + 1>>)]
    /\ UNCHANGED <<up, peer, backlog, out, reset, router, got, knows, taken, early, lost>>

\* A process ends.  What it has not read resets the connection.
End(c) ==
    /\ peer' = [peer EXCEPT ![c] = "dead"]
    /\ reset' = IF out[c] # <<>> THEN reset \cup {c} ELSE reset
    /\ out' = [out EXCEPT ![c] = <<>>]
    /\ lost' = lost \cup (Messages(out[c]) \X {c[1]})

\* DistCntxt::~DistCntxt of a client, which may wait for answers; a process is killed.
Leave(c) ==
    /\ peer[c] = "up"
    /\ End(c)
    /\ UNCHANGED <<up, backlog, in, router, asked, got, knows, taken, early>>

\* Server::work has an event: a communicator, a request, which it answers, or the
\* end of a communicator.  A request of a communicator that it was never told of
\* has no objects: the process ends there.
ServerTake(c) ==
    /\ c \notin Client /\ out[c] # <<>> /\ peer[c] = "up"
    /\ LET m == Head(out[c])
       IN  /\ taken' = [taken EXCEPT ![c[1]] = Append(@, m)]
           /\ IF m \in Request /\ m[1] \notin knows[c]
              THEN End(c) /\ UNCHANGED <<in, knows>>
              ELSE /\ out' = [out EXCEPT ![c] = Tail(@)]
                   /\ in' = IF m \in Request THEN [in EXCEPT ![c] = Append(@, m)] ELSE in
                   /\ knows' = [knows EXCEPT ![c] = IF m = Create(m[1]) THEN @ \cup {m[1]}
                                                    ELSE IF m = Destroy(m[1]) THEN @ \ {m[1]}
                                                    ELSE @]
                   /\ UNCHANGED <<peer, reset, lost>>
    /\ UNCHANGED <<up, backlog, router, asked, got, early>>

ClientTake(k) ==
    /\ out[k] # <<>> /\ peer[k] = "up"
    /\ out' = [out EXCEPT ![k] = Tail(@)]
    /\ got' = [got EXCEPT ![k] = @ + 1]
    /\ UNCHANGED <<up, peer, backlog, in, reset, router, asked, knows, taken, early, lost>>

-----------------------------------------------------------------------------
(***************************************************************************)
(* The router.                                                             *)
(***************************************************************************)

\* TcpChannelSelect::wait: the lowest descriptor that is ready.  The two listening
\* sockets were opened first.
Ready == {c \in Open : in[c] # <<>> \/ peer[c] = "dead"}
Selected(c) == /\ up /\ backlog = {} /\ c \in Ready
               /\ \A d \in Ready : fd[c] <= fd[d]

\* sendEvent of the messages ws[c] to connections c.  The first write on an ended
\* connection may succeed; on one that is known to be reset it is the end of the
\* router, which has no handler for SIGPIPE.  What a write to a connection that was
\* deleted does is undefined: the router is not followed further.
Write(ws) ==
    LET broken == {c \in DOMAIN ws : ws[c] # <<>> /\ peer[c] = "dead"}
    IN  /\ out' = [c \in Chan |-> IF c \in DOMAIN ws /\ peer[c] = "up"
                                  THEN out[c] \o ws[c] ELSE out[c]]
        /\ reset' = reset \cup broken
        /\ up' \in IF broken = {} THEN {TRUE}
                   ELSE IF broken \cap reset # {} \/ ~(broken \subseteq Open) THEN {FALSE}
                   ELSE BOOLEAN
        /\ lost' = lost \cup UNION {Messages(ws[c]) \X {c[1]} : c \in broken}

\* sendEvent(AppID, ev) of one message to every server.
SendAll(m) ==
    /\ Write([c \in {localMap[s] : s \in ServerId} \ {NoChan} |-> <<m>>])
    /\ pending' = [s \in ServerId |-> IF localMap[s] = NoChan THEN Append(pending[s], m)
                                      ELSE pending[s]]

\* AcceptData::process: the lowest free descriptor.
Accept(c) ==
    /\ up /\ c \in backlog
    /\ \A d \in backlog : d[1] = c[1] => c[2] <= d[2]
    /\ backlog' = backlog \ {c}
    /\ fd' = [fd EXCEPT ![c] = Min((1 .. Cardinality(Chan)) \ {fd[d] : d \in Open})]
    /\ UNCHANGED <<up, peer, in, out, reset, localMap, pending, infos, asked, got, knows, taken, early,
                   lost>>

\* RtrServerConnectEvent: addServer and doPending.  A mutant inserts an entry, which
\* leaves the NULL of an earlier look-up; one does not take what it sends out of the queue.
InsertServer(c) == IF pending[c[1]] = <<>> THEN [localMap EXCEPT ![c[1]] = c] ELSE localMap
addServer(c) == [localMap EXCEPT ![c[1]] = c]
Kept(q) == q
Erased(q) == <<>>

ConnectEvent(c) ==
    /\ localMap' = addServer(c)
    /\ Write([d \in {c} |-> pending[c[1]]])
    /\ pending' = [pending EXCEPT ![c[1]] = Erased(@)]
    /\ UNCHANGED <<fd, infos>>

\* RtrCommCreateEvent and RtrCommReqEvent.
ClientEvent(m) ==
    /\ SendAll(m)
    /\ infos' = IF m \in Request
                THEN [r \in DOMAIN infos \cup {m} |-> IF r = m THEN ServerId ELSE infos[r]]
                ELSE infos
    /\ UNCHANGED <<fd, localMap>>

\* RtrCommRespEvent: the last answer is sent to info->src.  A mutant does not
\* delete info then.
NotDeleted(r) == [infos EXCEPT ![r] = {}]
Deleted(r) == [q \in DOMAIN infos \ {r} |-> infos[q]]
AnswerEvent(s, r) ==
    LET left == infos[r] \ {s}
    IN  /\ r \in DOMAIN infos
        /\ IF left # {}
           THEN /\ infos' = [infos EXCEPT ![r] = left]
                /\ UNCHANGED <<up, out, reset, lost>>
           ELSE /\ infos' = Deleted(r)
                /\ Write([d \in {r[1]} |-> <<r>>])
        /\ UNCHANGED <<fd, localMap, pending>>

\* EventData::process.
ReadEvent(c) ==
    /\ Selected(c) /\ in[c] # <<>>
    /\ in' = [in EXCEPT ![c] = Tail(@)]
    /\ LET m == Head(in[c])
       IN  IF m = ServerConnect THEN ConnectEvent(c)
           ELSE IF c \in Client THEN ClientEvent(m)
           ELSE AnswerEvent(c[1], m)
    /\ UNCHANGED <<peer, backlog, asked, got, knows, taken, early>>

\* delServer erases entry 0 whatever the name.  A mutant erases none.
NoneErased(map) == map
delServer(map) == [s \in ServerId |-> IF s = 0 THEN NoChan ELSE map[s]]

\* The end of a connection: delServerChan with ~Server, or delClientChan with
\* ~Client, which ends the communicators.
delClient(k) == SendAll(Destroy(k))

ReadEnd(c) ==
    /\ Selected(c) /\ in[c] = <<>> /\ c \notin reset
    /\ fd' = [fd EXCEPT ![c] = 0]
    /\ IF c \in Client
       THEN delClient(c) /\ UNCHANGED localMap
       ELSE /\ localMap' = delServer(localMap)
            /\ UNCHANGED <<up, out, reset, pending, lost>>
    /\ UNCHANGED <<peer, backlog, in, infos, asked, got, knows, taken, early>>

\* read returns -1 on a connection that was reset.
ReadReset(c) ==
    /\ Selected(c) /\ in[c] = <<>> /\ c \in reset
    /\ up' = FALSE
    /\ UNCHANGED <<peer, backlog, in, out, reset, router, asked, got, knows, taken, early,
                   lost>>

Next ==
    \/ \E c \in Chan : \/ Connect(c) \/ Leave(c) \/ ServerTake(c)
                       \/ Accept(c) \/ ReadEvent(c) \/ ReadEnd(c) \/ ReadReset(c)
    \/ \E k \in Client : ClientTake(k) \/ ClientAsks(k)

Spec == Init /\ [][Next]_vars

-----------------------------------------------------------------------------
\* No two connections share a descriptor.
OwnDescriptor == \A c, d \in Open : fd[c] = fd[d] => c = d

\* No entry of m_localMap outlives its connection, as initName and delServer intend
\* with one name for both (router.h:105-125).  It is so of the entry of server 0 only:
\* delServer erases 0 whatever the name, so that the entry of another server stays.
EntryLives(s) == localMap[s] # NoChan => localMap[s] \in Open
EntriesLive == \A s \in ServerId : EntryLives(s)
LocalMapLive == 0 \in ServerId => EntryLives(0)

\* The router has read the name of the server from this connection, or its end.
Named(c) == peer[c] # "none" /\ ServerConnect \notin Messages(in[c])
Gone(c) == peer[c] = "dead" /\ c \notin Open \cup backlog

\* A server that has said its name and whose connection the router has not seen end
\* has its entry (router.h:105-119).  Two kinds of servers have lost it: one that was
\* started again before the router had seen the end of the last one, whose end then
\* erases the new entry, and server 0 when another server has gone.
EntryPresent ==
    \A c \in Open \ Client :
        /\ Named(c) /\ c \notin early
        /\ \A d \in Chan : c \in Before(d) => ~Named(d)
        => \/ localMap[c[1]] = c
           \/ c[1] = 0 /\ \E d \in Chan \ Client : d[1] # 0 /\ Gone(d)

\* The client a request came from is there when the last answer comes
\* (commReqEvent.h:41, commRespEvent.h:93), but for one that closed while it waited:
\* the CommReqInfo of what it still waits for keeps its src.
SrcLive == \A r \in DOMAIN infos : r[1] \in Open \/ (Gone(r[1]) /\ Outstanding(r[1]))

\* What the router keeps of a connection goes with it, with the exceptions named at
\* LocalMapLive, EntryPresent and SrcLive.
ChannelsLive == OwnDescriptor /\ LocalMapLive /\ EntryPresent /\ SrcLive

\* What a server takes of a client, over all its processes, are a creation, the
\* requests in their order and the end, each at most once.
TakenInOrder ==
    \A s \in ServerId : \A i, j \in DOMAIN taken[s] :
        i < j /\ taken[s][i][1] = taken[s][j][1] => taken[s][i][2] < taken[s][j][2]

\* A request that is waited for waits for its server, is on the way to it or back,
\* or was written to a connection whose end the router had not seen: the router
\* itself loses none.
NoneMislaid ==
    up => \A r \in DOMAIN infos : \A s \in infos[r] :
        \/ r \in Messages(pending[s])
        \/ \E c \in Chan \ Client : c[1] = s /\ r \in Messages(out[c]) \cup Messages(in[c])
        \/ <<r, s>> \in lost

\* Whatever ends and is started again: order is kept and nothing is mislaid, though not
\* everything is delivered (the entries that LocalMapLive and EntryPresent except).
TakenOnce == TakenInOrder /\ NoneMislaid

\* assert( nbytes == sizeof(type) ) (tcpEventChannel.cc:189): a connection whose
\* turn it is has an event or has ended orderly.
ReadsWhole == \A c \in Chan : Selected(c) => in[c] # <<>> \/ c \notin reset
=============================================================================
