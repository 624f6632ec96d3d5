------------------------------- MODULE Events -------------------------------
(***************************************************************************)
(* The events of the wire protocol (events.h) and the connections that     *)
(* carry them.  Both ends of a TcpEventChannel read and write whole events *)
(* over one TCP connection, so a connection is a pair of FIFO queues.      *)
(*                                                                         *)
(* An operation on a remote object is one of four requests: "Get" and      *)
(* "Set" travel in a CommReqEvent, "Log" (start or stop) in a              *)
(* CommLogReqEvent, "Samples" in a CommGetSamplesReqEvent.  The events     *)
(* between router and servers travel as the payload of a RouterEvent; with *)
(* one router its source and destination add nothing to the queue they     *)
(* are in.                                                                 *)
(***************************************************************************)
EXTENDS Topology

VARIABLES
    c2r, r2c,   \* a context's connection to the client port of the router
    s2r, r2s    \* a server's connection to the server port of the router

channels == <<c2r, r2c, s2r, r2s>>

Op == {"Get", "Set", "Log", "Samples"}
Aggregated == {"Get", "Set"}    \* operations answered by a CommRespEvent

\* The id of an event is the address of the request at its sender: a number
\* drawn by the context, and, from router to server, the router's CommReqInfo.
EventId == Nat
InfoId == Ctx \X EventId

CommCreateEvent(m) == [type |-> "CommCreate", comm |-> m]
CommDestroyEvent(m) == [type |-> "CommDestroy", comm |-> m]
CommReqEvent(m, op, id) == [type |-> "CommReq", comm |-> m, op |-> op, id |-> id]
SrvrReqEvent(m, op, id, grp) ==
    [type |-> "CommReq", comm |-> m, op |-> op, id |-> id, grp |-> grp]
CommRespEvent(id, grp, value, err) ==
    [type |-> "CommResp", id |-> id, grp |-> grp, value |-> value, err |-> err]
ClientRespEvent(id, value, err) == [id |-> id, value |-> value, err |-> err]
ServerConnectEvent == [type |-> "ServerConnect"]
Eof == [type |-> "Eof"]         \* getEvent returns NULL: the peer has closed

ClientEvent ==
    [type : {"CommCreate"}, comm : Comm]
        \cup [type : {"CommReq"}, comm : Comm, op : Op, id : EventId]
        \cup {Eof}
ServerEvent ==
    [type : {"CommCreate", "CommDestroy"}, comm : Comm]
        \cup [type : {"CommReq"}, comm : Comm, op : Op, id : InfoId, grp : Nat]
UpEvent ==
    [type : {"CommResp"}, id : InfoId, grp : Nat, value : Value, err : SUBSET Server]
        \cup {ServerConnectEvent}
DownEvent == [id : EventId, value : Seq(Value), err : SUBSET Server]

ChannelTypeOK ==
    /\ c2r \in [Ctx -> Seq(ClientEvent)]
    /\ r2c \in [Ctx -> Seq(DownEvent)]
    /\ s2r \in [Server -> Seq(UpEvent)]
    /\ r2s \in [Server -> Seq(ServerEvent)]

ChannelInit ==
    /\ c2r = [x \in Ctx |-> <<>>]
    /\ r2c = [x \in Ctx |-> <<>>]
    /\ s2r = [s \in Server |-> <<>>]
    /\ r2s = [s \in Server |-> <<>>]

\* The event a handler is about to be called with.
Arrives(q, type) == q # <<>> /\ Head(q).type = type
Received(q, x) == [q EXCEPT ![x] = Tail(@)]
Sent(q, x, ev) == [q EXCEPT ![x] = Append(@, ev)]
=============================================================================
