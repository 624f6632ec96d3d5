------------------------------- MODULE Router -------------------------------
(***************************************************************************)
(* The router: one thread that takes one event at a time, from a client or *)
(* a server connection.  A request of a client is sent to every object of  *)
(* its communicator under the address of a new CommReqInfo; the answers    *)
(* are collected there, list by list, and the client is answered when no   *)
(* list is pending.  Events for a server that has not connected yet wait   *)
(* in m_pendingEvents.                                                     *)
(***************************************************************************)
EXTENDS Events, SequencesExt

VARIABLES
    clients,        \* m_clientMap: the open client connections
    clientComms,    \* m_commMap of each client
    localMap,       \* m_localMap: the servers with a connection
    pendingEvents,  \* m_pendingEvents
    reqInfo         \* the live CommReqInfos, by address

routerVars == <<clients, clientComms, localMap, pendingEvents, reqInfo>>

\* src and resp->id are the two halves of the address in this model.  Of a list
\* only the number of answers queued in respQ and their sum so far matter: the
\* code adds the queue up when it is complete, with the same result.
CommReqInfo(m) ==
    [comm : {m}, op : Op, got : [Lists(m) -> Nat], pending : Nat,
     value : [Lists(m) -> Value], err : SUBSET Server]

RouterTypeOK ==
    /\ clients \subseteq Ctx
    /\ clientComms \in [Ctx -> SUBSET Comm]
    /\ localMap \subseteq Server
    /\ pendingEvents \in [Server -> Seq(ServerEvent)]
    /\ DOMAIN reqInfo \subseteq InfoId
    /\ \A id \in DOMAIN reqInfo : \E m \in Comm : reqInfo[id] \in CommReqInfo(m)

RouterInit ==
    /\ clients = Ctx
    /\ clientComms = [c \in Ctx |-> {}]
    /\ localMap = {}
    /\ pendingEvents = [s \in Server |-> <<>>]
    /\ reqInfo = [i \in {} |-> {}]

-----------------------------------------------------------------------------
\* Router::sendEvent for a batch of events, one queue per server: straight to
\* the server's connection if it has one, else to the pending events.
Forward(out) ==
    /\ r2s' = [s \in Server |->
                  IF s \in localMap THEN r2s[s] \o out[s] ELSE r2s[s]]
    /\ pendingEvents' = [s \in Server |->
                  IF s \in localMap THEN pendingEvents[s]
                                    ELSE pendingEvents[s] \o out[s]]

\* A server is told of the communicator once for each list that names it.
CreateEvents(m) ==
    [s \in Server |-> [k \in 1 .. Len(Slots[m][s]) |-> CommCreateEvent(m)]]

\* RtrCommCreateEvent::process.  addComm asserts that the id is new.
RtrCommCreate(c) ==
    /\ Arrives(c2r[c], "CommCreate")
    /\ LET m == Head(c2r[c]).comm
       IN  /\ m \notin clientComms[c]
           /\ clientComms' = [clientComms EXCEPT ![c] = @ \cup {m}]
           /\ Forward(CreateEvents(m))
    /\ c2r' = Received(c2r, c)
    /\ UNCHANGED <<r2c, s2r, clients, localMap, reqInfo>>

-----------------------------------------------------------------------------
\* The same event goes to every object, with grpIndex set to the list.
RequestEventsNoIndex(m, op, id) ==
    [s \in Server |-> [k \in 1 .. Len(Slots[m][s]) |-> SrvrReqEvent(m, op, id, 1)]]
RequestEvents(m, op, id) ==
    [s \in Server |-> [k \in 1 .. Len(Slots[m][s]) |->
                          SrvrReqEvent(m, op, id, Slots[m][s][k])]]

NewInfoOffByOne(m, op) ==
    [comm |-> m, op |-> op, got |-> [g \in Lists(m) |-> 0],
     pending |-> Len(Members[m]) - 1, value |-> [g \in Lists(m) |-> Zero], err |-> {}]
NewInfo(m, op) ==
    [comm |-> m, op |-> op, got |-> [g \in Lists(m) |-> 0],
     pending |-> Len(Members[m]), value |-> [g \in Lists(m) |-> Zero], err |-> {}]

Allocate(id, new) ==
    reqInfo' = [i \in DOMAIN reqInfo \cup {id} |->
                   IF i = id THEN new ELSE reqInfo[i]]
Update(id, new) == reqInfo' = [reqInfo EXCEPT ![id] = new]
FreeNothing(id) == UNCHANGED reqInfo
Free(id) == reqInfo' = [i \in DOMAIN reqInfo \ {id} |-> reqInfo[i]]

\* process of RtrCommReqEvent, RtrCommLogReqEvent and RtrCommGetSamplesReqEvent.
\* The last two assert that the communicator is one object.
RtrCommReq(c) ==
    /\ Arrives(c2r[c], "CommReq")
    /\ LET ev == Head(c2r[c])
       IN  /\ ev.comm \in clientComms[c]
           /\ ev.op \notin Aggregated => OneObject(ev.comm)
           /\ Allocate(<<c, ev.id>>, NewInfo(ev.comm, ev.op))
           /\ Forward(RequestEvents(ev.comm, ev.op, <<c, ev.id>>))
    /\ c2r' = Received(c2r, c)
    /\ UNCHANGED <<r2c, s2r, clients, clientComms, localMap>>

\* What those handlers rely on.
CommFresh(c) ==
    Arrives(c2r[c], "CommCreate") => Head(c2r[c]).comm \notin clientComms[c]
CommKnown(c) ==
    Arrives(c2r[c], "CommReq") => Head(c2r[c]).comm \in clientComms[c]
OneObjectLogs(c) ==
    Arrives(c2r[c], "CommReq") =>
        (Head(c2r[c]).op \notin Aggregated => OneObject(Head(c2r[c]).comm))

-----------------------------------------------------------------------------
\* RtrServerConnectEvent::process: addServer, then doPending.
FlushNothing(s) == UNCHANGED r2s
FlushNewestFirst(s) ==
    r2s' = [r2s EXCEPT ![s] = @ \o Reverse(pendingEvents[s])]
Flush(s) == r2s' = [r2s EXCEPT ![s] = @ \o pendingEvents[s]]

RtrServerConnect(s) ==
    /\ Arrives(s2r[s], "ServerConnect")
    /\ localMap' = localMap \cup {s}
    /\ Flush(s)
    /\ pendingEvents' = [pendingEvents EXCEPT ![s] = <<>>]
    /\ s2r' = Received(s2r, s)
    /\ UNCHANGED <<c2r, r2c, clients, clientComms, reqInfo>>

-----------------------------------------------------------------------------
Incomplete(info) ==
    {g \in Lists(info.comm) : info.got[g] < Cardinality(Members[info.comm][g])}

\* respQ[grpIndex].size() == grpInfo[grpIndex], once the answer is in the queue.
AnyAnswer(info, ev) == TRUE
ListComplete(info, ev) ==
    info.got[ev.grp] + 1 = Cardinality(Members[info.comm][ev.grp])

\* RtrCommRespEvent::process up to the decrement of pending.
Collected(info, ev) ==
    [comm |-> info.comm, op |-> info.op,
     got |-> [info.got EXCEPT ![ev.grp] = @ + 1],
     pending |-> IF ListComplete(info, ev) THEN info.pending - 1 ELSE info.pending,
     value |-> IF info.op = "Get"
               THEN [info.value EXCEPT ![ev.grp] = fpAdd(@, ev.value)]
               ELSE info.value,
     err |-> info.err \cup ev.err]

\* What the client is sent: the sums for a Get, the samples as they came, and
\* every error there was.
ReplyValue(info, ev) ==
    CASE info.op = "Get" -> Collected(info, ev).value
      [] info.op = "Samples" -> <<ev.value>>
      [] OTHER -> <<>>

ReplyEvent(id, info, ev) ==
    ClientRespEvent(id[2], ReplyValue(info, ev), info.err \cup ev.err)

Finished(info, ev) ==
    info.op \in Aggregated => Collected(info, ev).pending = 0

\* The id of an answer is dereferenced, its grpIndex is an index into respQ, and
\* the answer goes to the connection the request came from.
InfoLive(s) ==
    Arrives(s2r[s], "CommResp") =>
        LET ev == Head(s2r[s])
        IN  /\ ev.id \in DOMAIN reqInfo
            /\ ev.grp \in Lists(reqInfo[ev.id].comm)
            /\ ev.id[1] \in clients

\* An answer that leaves some list pending.
RtrRespQueue(s) ==
    /\ Arrives(s2r[s], "CommResp")
    /\ InfoLive(s)
    /\ LET ev == Head(s2r[s])
           info == reqInfo[ev.id]
       IN  /\ ~ Finished(info, ev)
           /\ Update(ev.id, Collected(info, ev))
    /\ s2r' = Received(s2r, s)
    /\ UNCHANGED <<c2r, r2c, r2s, clients, clientComms, localMap, pendingEvents>>

\* The last answer: the client gets its response and the info is deleted.
RtrRespSend(s) ==
    /\ Arrives(s2r[s], "CommResp")
    /\ InfoLive(s)
    /\ LET ev == Head(s2r[s])
           info == reqInfo[ev.id]
       IN  /\ Finished(info, ev)
           /\ r2c' = Sent(r2c, ev.id[1], ReplyEvent(ev.id, info, ev))
           /\ Free(ev.id)
    /\ s2r' = Received(s2r, s)
    /\ UNCHANGED <<c2r, r2s, clients, clientComms, localMap, pendingEvents>>

-----------------------------------------------------------------------------
\* A mutant that tells the servers nothing.
NoDestroyEvents(c) == [s \in Server |-> <<>>]

\* Client::~Client: a CommDestroyEvent for each object in the first list of
\* each of the client's communicators.
DestroyEvents(c) ==
    [s \in Server |->
        LET ms == SetToSeq({m \in clientComms[c] : s \in Members[m][1]})
        IN  [k \in 1 .. Len(ms) |-> CommDestroyEvent(ms[k])]]

\* EventData::process with no event: the client has closed its connection.
RtrClientClosed(c) ==
    /\ Arrives(c2r[c], "Eof")
    /\ clients' = clients \ {c}
    /\ Forward(DestroyEvents(c))
    /\ clientComms' = [clientComms EXCEPT ![c] = {}]
    /\ c2r' = Received(c2r, c)
    /\ UNCHANGED <<r2c, s2r, localMap, reqInfo>>
=============================================================================
