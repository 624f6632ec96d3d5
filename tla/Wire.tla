-------------------------------- MODULE Wire --------------------------------
(***************************************************************************)
(* The bytes of a request and of its answer: what the fields of the events *)
(* go through from the application to the devices and back.  An event is   *)
(* written by pushing its fields to the end of a buffer and read by        *)
(* popping them from there, so it must be read in the opposite order       *)
(* (serialize.h, events.h); between router and servers it is the payload   *)
(* of a RouterEvent, whose bytes another router may read and write again.  *)
(*                                                                         *)
(* One communicator with lists of one object each (one list is a DistComm, *)
(* several are a DistGrpComm), and one request on it.                      *)
(* A byte is a number below Base, and the widths are scaled: an int has    *)
(* IntBytes, a size_t, a time, an address or a double has LongBytes.       *)
(***************************************************************************)
EXTENDS Naturals, FiniteSets, SequencesExt

CONSTANTS
    Base, IntBytes, LongBytes,
    Request,        \* what an application may ask for
    NumLists,       \* how many lists the communicator may have
    Garbage,        \* what a field may hold that nothing was written to
    Reading(_, _),  \* the value of an attribute at an object
    Stamp(_, _),    \* ... and its time
    Errors,         \* what an object may report
    Hops            \* how many routers may write an event again on its way

WireAssumption ==
    /\ Base \in Nat \ {0, 1} /\ LongBytes \in Nat \ {0} /\ IntBytes \in 1 .. LongBytes
    /\ Request \subseteq
          [op : {"Get"}, attrs : Seq(Nat)]
          \cup [op : {"Set"}, attrs : Seq(Nat), values : Seq(Nat)]
          \cup [op : {"Start", "Stop"}, attrs : Seq(Nat)]
          \cup [op : {"Samples"}, attrs : Seq(Nat), start : Nat, period : Nat, count : Nat]
    /\ NumLists \subseteq Nat \ {0} /\ Hops \subseteq Nat
    /\ Errors \subseteq Seq([obj : Seq(0 .. Base - 1), attr : Nat, value : Nat])

VARIABLES
    req,        \* what the application asks for
    lists,      \* how many lists the communicator has
    hops,       \* how many routers write an event again on its way
    toRouter,   \* client to router: the messages that have not been read
    info,       \* the CommReqInfo of the request
    comms,      \* m_commMap of the client at the router: the members
    toServer,   \* list to messages on their way
    object,     \* list to the object the server has for the communicator
    done,       \* list to what its server has been asked to do
    errs,       \* list to the errors of its server
    answers,    \* list to the answers on their way to the router
    toClient,   \* the answer on its way to the client
    app         \* what the application gets

vars == <<req, lists, hops, toRouter, info, comms, toServer, object, done, errs, answers,
          toClient, app>>
-----------------------------------------------------------------------------
\* What can be written: a number of some bytes, or a vector.  A string is a vector of
\* bytes.
Uint32 == [bytes |-> IntBytes]
Uint64 == [bytes |-> LongBytes]
Vec(kind) == [of |-> kind]
Str == Vec([bytes |-> 1])

Bytes(x, n) == [i \in 1 .. n |-> (x \div Base ^ (i - 1)) % Base]
Number(bytes) == MapThenSumSet(LAMBDA i : bytes[i] * Base ^ (i - 1), DOMAIN bytes)

\* SerialBuf: a number is pushed with its lowest byte first, a vector with its first
\* element first and its size last; they are popped from the end.
IsNumber(kind) == "bytes" \in DOMAIN kind
Kind ==
    LET number == {[bytes |-> 1], Uint32, Uint64}
        vector == {Vec(kind) : kind \in number}
        vectors == {Vec(kind) : kind \in vector}
    IN  number \cup vector \cup vectors \cup {Vec(kind) : kind \in vectors}
ValueOf[kind \in Kind] == IF IsNumber(kind) THEN Nat ELSE Seq(ValueOf[kind.of])
pushed[kind \in Kind] ==
    IF IsNumber(kind) THEN [x \in Nat |-> Bytes(x, kind.bytes)]
    ELSE [x \in ValueOf[kind] |->
             FlattenSeq([i \in DOMAIN x |-> pushed[kind.of][x[i]]])
             \o Bytes(Len(x), LongBytes)]
Pushed(kind, x) == pushed[kind][x]

Top(buf, n) == SubSeq(buf, Len(buf) - n + 1, Len(buf))
Popped(buf, n) == SubSeq(buf, 1, Len(buf) - n)

pulled[buf \in Seq(0 .. Base - 1), kind \in Kind] ==
    IF IsNumber(kind)
    THEN [val |-> Number(Top(buf, kind.bytes)), rest |-> Popped(buf, kind.bytes)]
    ELSE LET size == Number(Top(buf, LongBytes))
             rest == Popped(buf, LongBytes)
             width == kind.of.bytes
         IN  IF IsNumber(kind.of)
             THEN [val |-> [i \in 1 .. size |->
                              Number(Top(Popped(rest, (size - i) * width), width))],
                   rest |-> Popped(rest, size * width)]
             ELSE FoldLeft(LAMBDA vec, i : LET y == pulled[vec.rest, kind.of]
                                           IN  [val |-> <<y.val>> \o vec.val,
                                                rest |-> y.rest],
                           [val |-> <<>>, rest |-> rest], [i \in 1 .. size |-> i])
Pull(buf, kind) == pulled[buf, kind]

-----------------------------------------------------------------------------
\* The types of events, with the numbers of the enum.
EventType ==
    <<"CommCreate", "CommDestroy", "CommReq", "CommResp", "CommLogReq", "CommLogResp",
      "CommGetSamplesReq", "CommGetSamplesResp", "ServerConnect", "Router2Router">>
TypeNum(type) == CHOOSE n \in DOMAIN EventType : EventType[n] = type
OpType == <<"Noop", "Get", "Set", "Start", "Stop", "Clear">>
OpNum(op) == (CHOOSE n \in DOMAIN OpType : OpType[n] = op) - 1

\* The fields of each event, in the order in which serialize_out pushes them.
EventOut == <<<<"id", Uint64>>, <<"type", Uint32>>, <<"status", Uint32>>>>
CommEventOut == EventOut \o <<<<"commID", Uint64>>, <<"op", Uint32>>>>
CommCreateOut == CommEventOut \o <<<<"members", Vec(Vec(Str))>>>>
CommReqOut ==
    CommEventOut
    \o <<<<"setValues", Vec(Uint64)>>, <<"attrName", Vec(Uint32)>>,
         <<"valueOp", Vec(Uint32)>>, <<"grpIndex", Uint64>>>>
CommRespOut ==
    CommEventOut
    \o <<<<"timeStamp", Vec(Vec(Uint64))>>, <<"value", Vec(Vec(Uint64))>>,
         <<"grpIndex", Uint64>>, <<"errValue", Vec(Uint32)>>, <<"errAttr", Vec(Uint32)>>,
         <<"errObj", Vec(Str)>>>>
CommLogReqOut == CommEventOut \o <<<<"attrName", Uint32>>>>
CommLogRespOut ==
    CommEventOut
    \o <<<<"errValue", Vec(Uint32)>>, <<"errAttr", Vec(Uint32)>>, <<"errObj", Vec(Str)>>>>
CommGetSamplesReqOut ==
    CommEventOut
    \o <<<<"count", Uint32>>, <<"period", Uint64>>, <<"startTime", Uint64>>,
         <<"attrName", Uint32>>>>
CommGetSamplesRespOut ==
    CommEventOut
    \o <<<<"errObj", Vec(Str)>>, <<"errAttr", Vec(Uint32)>>, <<"errValue", Vec(Uint32)>>,
         <<"data", Vec(Uint64)>>, <<"count", Uint32>>, <<"startTime", Uint64>>>>
RouterEventOut ==
    EventOut
    \o <<<<"dest", Uint64>>, <<"src", Uint64>>, <<"eventType", Uint32>>,
         <<"payload", Vec([bytes |-> 1])>>>>
OutFields ==
    <<CommCreateOut, CommEventOut, CommReqOut, CommRespOut, CommLogReqOut, CommLogRespOut,
      CommGetSamplesReqOut, CommGetSamplesRespOut, EventOut, RouterEventOut>>

\* ... and in the order in which serialize_in pops them.
EventIn == <<<<"status", Uint32>>, <<"type", Uint32>>, <<"id", Uint64>>>>
CommEventIn == <<<<"op", Uint32>>, <<"commID", Uint64>>>> \o EventIn
CommCreateIn == <<<<"members", Vec(Vec(Str))>>>> \o CommEventIn

CommReqIn ==
    <<<<"grpIndex", Uint64>>, <<"valueOp", Vec(Uint32)>>, <<"attrName", Vec(Uint32)>>,
      <<"setValues", Vec(Uint64)>>>> \o CommEventIn
CommRespIn ==
    <<<<"errObj", Vec(Str)>>, <<"errAttr", Vec(Uint32)>>, <<"errValue", Vec(Uint32)>>,
      <<"grpIndex", Uint64>>, <<"value", Vec(Vec(Uint64))>>,
      <<"timeStamp", Vec(Vec(Uint64))>>>> \o CommEventIn
CommLogReqIn == <<<<"attrName", Uint32>>>> \o CommEventIn
CommLogRespIn ==
    <<<<"errObj", Vec(Str)>>, <<"errAttr", Vec(Uint32)>>, <<"errValue", Vec(Uint32)>>>>
    \o CommEventIn
CommGetSamplesReqIn ==
    <<<<"attrName", Uint32>>, <<"startTime", Uint64>>, <<"period", Uint64>>,
      <<"count", Uint32>>>> \o CommEventIn
CommGetSamplesRespIn ==
    <<<<"startTime", Uint64>>, <<"count", Uint32>>, <<"data", Vec(Uint64)>>,
      <<"errValue", Vec(Uint32)>>, <<"errAttr", Vec(Uint32)>>, <<"errObj", Vec(Str)>>>>
    \o CommEventIn
RouterEventIn ==
    <<<<"payload", Vec([bytes |-> 1])>>, <<"eventType", Uint32>>, <<"src", Uint64>>,
      <<"dest", Uint64>>>> \o EventIn
InFields ==
    <<CommCreateIn, CommEventIn, CommReqIn, CommRespIn, CommLogReqIn, CommLogRespIn,
      CommGetSamplesReqIn, CommGetSamplesRespIn, EventIn, RouterEventIn>>

\* sendEvent and getEvent: the type, and the bytes of the rest.
Written(ev) ==
    [type |-> ev.type,
     body |-> FoldLeft(LAMBDA buf, f : buf \o Pushed(f[2], ev[f[1]]), <<>>,
                       OutFields[ev.type])]
Read(msg) ==
    FoldLeft(LAMBDA st, f : LET y == Pull(st.rest, f[2])
                            IN  [ev |-> (f[1] :> y.val) @@ st.ev, rest |-> y.rest],
             [ev |-> <<>>, rest |-> msg.body], InFields[msg.type])
EventOf(msg) == Read(msg).ev

-----------------------------------------------------------------------------
\* What the allocators of client, router and server make events of.
CtxTypes == {"CommResp", "CommLogResp", "CommGetSamplesResp"}
ClientTypes == {"CommCreate", "CommReq", "CommLogReq", "CommGetSamplesReq"}
ReqTypes == ClientTypes \cup {"CommDestroy"}
ServerTypes == CtxTypes \cup {"Router2Router", "ServerConnect"}

NewEvent(type, id) == [type |-> TypeNum(type), id |-> id, status |-> 0]
NewCommEvent(type, id, comm, op) ==
    [type |-> TypeNum(type), id |-> id, status |-> 0, commID |-> comm, op |-> OpNum(op)]

\* The addresses and ids of the one request there is.
ReqAddress == 5
InfoAddress == 9
CommId == 7
RtrApp == 10    \* the router itself as source and destination

Name(j) == <<j, 1>>

\* getChannel and getValues, setValues, startLog, stopLog, getSamples of DistComm.
CreateMsg ==
    Written(NewCommEvent("CommCreate", 0, CommId, "Noop")
            @@ [members |-> [j \in 1 .. lists |-> <<Name(j)>>]])
RequestMsg(grpIndex) ==
    CASE req.op = "Get" ->
           Written(NewCommEvent("CommReq", ReqAddress, CommId, "Get")
                   @@ [attrName |-> req.attrs, valueOp |-> [i \in DOMAIN req.attrs |-> 1],
                       setValues |-> <<>>, grpIndex |-> 0])
      [] req.op = "Set" ->
           Written(NewCommEvent("CommReq", ReqAddress, CommId, "Set")
                   @@ [attrName |-> req.attrs, valueOp |-> <<>>, setValues |-> req.values,
                       grpIndex |-> grpIndex])
      [] req.op \in {"Start", "Stop"} ->
           Written(NewCommEvent("CommLogReq", ReqAddress, CommId, req.op)
                   @@ [attrName |-> req.attrs[1]])
      [] req.op = "Samples" ->
           Written(NewCommEvent("CommGetSamplesReq", ReqAddress, CommId, "Noop")
                   @@ [attrName |-> req.attrs[1], startTime |-> req.start,
                       period |-> req.period, count |-> req.count])

Init ==
    /\ req \in Request
    /\ lists \in IF req.op \in {"Get", "Set"} THEN NumLists ELSE {1}
    /\ hops \in Hops
    /\ \E g \in Garbage : toRouter = <<CreateMsg, RequestMsg(g)>>
    /\ info = <<>>
    /\ comms = <<>>
    /\ toServer = [j \in 1 .. lists |-> <<>>]
    /\ object = [j \in 1 .. lists |-> <<>>]
    /\ done = [j \in 1 .. lists |-> <<>>]
    /\ errs \in [1 .. lists -> Errors]
    /\ answers = [j \in 1 .. lists |-> <<>>]
    /\ toClient = <<>>
    /\ app = <<>>

-----------------------------------------------------------------------------
IsA(ev, type) == ev.type = TypeNum(type)

\* Router::sendEvent, Server::fini: an event becomes the payload of a RouterEvent, which
\* a router on the way reads and writes again.
Wrapped(ev, src, dest) ==
    Written(NewEvent("Router2Router", 0)
            @@ [src |-> src, dest |-> dest, eventType |-> ev.type,
                payload |-> Written(ev).body])
Routed(ev, src, dest) ==
    FoldLeft(LAMBDA msg, i : Written(EventOf(msg)), Wrapped(ev, src, dest),
             [i \in 1 .. hops |-> i])
Payload(rev) == [type |-> rev.eventType, body |-> rev.payload]

\* The server of list j.
ServerApp(j) == RtrApp + j

\* The list of the object of server j: an event goes where the name of its object leads.
ListOf(members, j) == CHOOSE g \in DOMAIN members : members[g] = <<Name(j)>>

RtrCommCreate ==
    /\ toRouter # <<>>
    /\ LET ev == EventOf(Head(toRouter))
           create(j) == NewCommEvent("CommCreate", 0, ev.commID, "Noop")
                        @@ [members |-> <<ev.members[ListOf(ev.members, j)]>>]
       IN  /\ IsA(ev, "CommCreate")
           /\ comms' = ev.members
           /\ toServer' = [j \in 1 .. lists |->
                              Append(toServer[j], Routed(create(j), RtrApp, ServerApp(j)))]
    /\ toRouter' = Tail(toRouter)
    /\ UNCHANGED <<req, lists, hops, info, object, done, errs, answers, toClient, app>>

\* The answer is made when the request comes: it keeps the id of the client, and the
\* request gets the address of the CommReqInfo for one.
NewResp(ev) ==
    CASE IsA(ev, "CommReq") ->
           NewCommEvent("CommResp", ev.id, 0, "Noop")
           @@ [value |-> IF ev.op = OpNum("Get") THEN [j \in 1 .. lists |-> <<>>] ELSE <<>>,
               timeStamp |-> IF ev.op = OpNum("Get") THEN [j \in 1 .. lists |-> <<>>]
                                                     ELSE <<>>,
               grpIndex |-> 0, errValue |-> <<>>, errAttr |-> <<>>, errObj |-> <<>>]
      [] IsA(ev, "CommLogReq") ->
           NewCommEvent("CommLogResp", ev.id, 0, "Noop")
           @@ [errValue |-> <<>>, errAttr |-> <<>>, errObj |-> <<>>]
      [] IsA(ev, "CommGetSamplesReq") ->
           NewCommEvent("CommGetSamplesResp", ev.id, 0, "Noop")
           @@ [startTime |-> 0, count |-> 0, data |-> <<>>,
               errValue |-> <<>>, errAttr |-> <<>>, errObj |-> <<>>]

\* A mutant gives an event the index its object has in its list.
IndexInList(ev, g) == IF IsA(ev, "CommReq") THEN [ev EXCEPT !.grpIndex = 0] ELSE ev

Indexed(ev, g) == IF IsA(ev, "CommReq") THEN [ev EXCEPT !.grpIndex = g - 1] ELSE ev

RtrRequest ==
    /\ toRouter # <<>>
    /\ LET ev == EventOf(Head(toRouter))
           known == [ev EXCEPT !.id = InfoAddress]
       IN  /\ ~ IsA(ev, "CommCreate")
           /\ info' = [resp |-> NewResp(ev), ev |-> ev, pending |-> lists]
           /\ toServer' = [j \in 1 .. lists |->
                              Append(toServer[j],
                                     Routed(Indexed(known, ListOf(comms, j)), RtrApp,
                                            ServerApp(j)))]
    /\ toRouter' = Tail(toRouter)
    /\ UNCHANGED <<req, lists, hops, comms, object, done, errs, answers, toClient, app>>

-----------------------------------------------------------------------------
\* A server takes the payload of a RouterEvent.
Taken(j) == EventOf(Payload(EventOf(Head(toServer[j]))))

SrvrCommCreate(j) ==
    /\ toServer[j] # <<>>
    /\ IsA(Taken(j), "CommCreate")
    /\ object' = [object EXCEPT ![j] = Taken(j).members[1][1]]
    /\ toServer' = [toServer EXCEPT ![j] = Tail(@)]
    /\ UNCHANGED <<req, lists, hops, toRouter, info, comms, done, errs, answers, toClient,
                   app>>

ErrFields(j) ==
    [errValue |-> [i \in DOMAIN errs[j] |-> errs[j][i].value],
     errAttr |-> [i \in DOMAIN errs[j] |-> errs[j][i].attr],
     errObj |-> [i \in DOMAIN errs[j] |-> errs[j][i].obj]]

\* What a server has its context do, and the answer: SrvrCommReqEvent,
\* SrvrCommLogReqEvent and SrvrCommGetSamplesReqEvent.
Do(ev, j) ==
    IF IsA(ev, "CommReq")
    THEN IF ev.op = OpNum("Get")
         THEN [op |-> "Get", obj |-> object[j], attrs |-> ev.attrName]
         ELSE [op |-> "Set", obj |-> object[j], attrs |-> ev.attrName,
               values |-> ev.setValues]
    ELSE [op |-> IF ev.op = OpNum("Start") THEN "Start" ELSE "Stop", obj |-> object[j],
          attrs |-> <<ev.attrName>>]

SrvrReq(j) ==
    /\ toServer[j] # <<>>
    /\ \E ev \in {Taken(j)} :
        LET rev == EventOf(Head(toServer[j]))
            get == IsA(ev, "CommReq") /\ ev.op = OpNum("Get")
            row(F(_, _)) ==
               IF get THEN <<[i \in DOMAIN ev.attrName |-> F(object[j], ev.attrName[i])]>>
               ELSE <<>>
            resp ==
               IF IsA(ev, "CommReq")
               THEN NewCommEvent("CommResp", ev.id, 0, OpType[ev.op + 1])
                    @@ [value |-> row(Reading), timeStamp |-> row(Stamp),
                        grpIndex |-> ev.grpIndex] @@ ErrFields(j)
               ELSE NewCommEvent("CommLogResp", ev.id, 0, OpType[ev.op + 1])
                    @@ ErrFields(j)
        IN  /\ IsA(ev, "CommReq") \/ IsA(ev, "CommLogReq")
            /\ done' = [done EXCEPT ![j] = Append(@, Do(ev, j))]
            /\ answers' = [answers EXCEPT ![j] = Append(@, Routed(resp, rev.dest, rev.src))]
    /\ toServer' = [toServer EXCEPT ![j] = Tail(@)]
    /\ UNCHANGED <<req, lists, hops, toRouter, info, comms, object, errs, toClient, app>>

\* The start time of the request goes nowhere: the call is given that of the answer, to
\* which nothing was written.  A device may have fewer samples than it is asked for.
SrvrGetSamples(j) ==
    /\ toServer[j] # <<>>
    /\ LET rev == EventOf(Head(toServer[j]))
           ev == Taken(j)
       IN  /\ IsA(ev, "CommGetSamplesReq")
           /\ \E start \in Garbage, n \in 0 .. ev.count, g \in Garbage :
                LET resp ==
                      NewCommEvent("CommGetSamplesResp", ev.id, g, "Noop")
                      @@ [startTime |-> start, count |-> n,
                          data |-> [i \in 1 .. ev.count |->
                                      IF i <= n THEN Reading(object[j], ev.attrName) + i
                                      ELSE 0]]
                      @@ ErrFields(j)
                IN  /\ done' = [done EXCEPT ![j] =
                                  Append(@, [op |-> "Samples", obj |-> object[j],
                                             attrs |-> <<ev.attrName>>,
                                             period |-> ev.period, count |-> ev.count,
                                             start |-> start, got |-> n])]
                    /\ answers' = [answers EXCEPT ![j] =
                                     Append(@, Routed(resp, rev.dest, rev.src))]
    /\ toServer' = [toServer EXCEPT ![j] = Tail(@)]
    /\ UNCHANGED <<req, lists, hops, toRouter, info, comms, object, errs, toClient, app>>

-----------------------------------------------------------------------------
\* The answer of a server is for the router itself.
Answer(j) == EventOf(Payload(EventOf(Head(answers[j]))))
ForRouter(j) == EventOf(Head(answers[j])).dest = RtrApp

WithErrors(resp, ev) ==
    [resp EXCEPT !.errValue = @ \o ev.errValue, !.errAttr = @ \o ev.errAttr,
                 !.errObj = @ \o ev.errObj]

\* RtrCommRespEvent: one object in each list, whose values are the sum.
Collected(ev) ==
    LET g == ev.grpIndex + 1
        resp == WithErrors(info.resp, ev)
    IN  IF info.ev.op = OpNum("Get")
        THEN [resp EXCEPT !.value[g] = ev.value[1], !.timeStamp[g] = ev.timeStamp[1]]
        ELSE resp

RtrCommResp(j) ==
    /\ answers[j] # <<>> /\ ForRouter(j)
    /\ LET ev == Answer(j)
       IN  /\ IsA(ev, "CommResp") /\ ev.id = InfoAddress
           /\ IF info.pending = 1
              THEN info' = <<>> /\ toClient' = <<Written(Collected(ev))>>
              ELSE /\ info' = [info EXCEPT !.resp = Collected(ev), !.pending = @ - 1]
                   /\ UNCHANGED toClient
    /\ answers' = [answers EXCEPT ![j] = Tail(@)]
    /\ UNCHANGED <<req, lists, hops, toRouter, comms, toServer, object, done, errs, app>>

\* operator= of the event of the server, into that of the router: it leaves the id.
RtrLogResp(j) ==
    /\ answers[j] # <<>> /\ ForRouter(j)
    /\ LET ev == Answer(j)
           resp == [info.resp EXCEPT !.errObj = ev.errObj, !.errAttr = ev.errAttr,
                                     !.errValue = ev.errValue]
       IN  /\ ev.id = InfoAddress
           /\ \/ IsA(ev, "CommLogResp") /\ toClient' = <<Written(resp)>>
              \/ /\ IsA(ev, "CommGetSamplesResp")
                 /\ toClient' = <<Written([resp EXCEPT !.startTime = ev.startTime,
                                                       !.count = ev.count,
                                                       !.data = ev.data])>>
    /\ info' = <<>>
    /\ answers' = [answers EXCEPT ![j] = Tail(@)]
    /\ UNCHANGED <<req, lists, hops, toRouter, comms, toServer, object, done, errs, app>>

-----------------------------------------------------------------------------
\* DistRequest::getValue, setValue, setRetval and getSamples: what the application finds
\* in its buffers and in its Status.  The errors of samples are left.
Process(ev) ==
    LET status == [i \in DOMAIN ev.errValue |->
                      [obj |-> ev.errObj[i], attr |-> ev.errAttr[i],
                       value |-> ev.errValue[i]]]
    IN  CASE req.op = "Get" -> [values |-> ev.value, times |-> ev.timeStamp,
                                status |-> status]
          [] req.op = "Set" -> [status |-> status]
          [] req.op \in {"Start", "Stop"} -> [status |-> status]
          [] req.op = "Samples" -> [values |-> SubSeq(ev.data, 1, ev.count),
                                    start |-> ev.startTime]

ClientAnswer ==
    /\ toClient # <<>>
    /\ EventOf(toClient[1]).id = ReqAddress
    /\ app' = Process(EventOf(toClient[1]))
    /\ toClient' = <<>>
    /\ UNCHANGED <<req, lists, hops, toRouter, info, comms, toServer, object, done, errs,
                   answers>>

Next ==
    \/ RtrCommCreate \/ RtrRequest \/ ClientAnswer
    \/ \E j \in 1 .. lists :
        \/ SrvrCommCreate(j) \/ SrvrReq(j) \/ SrvrGetSamples(j)
        \/ RtrCommResp(j) \/ RtrLogResp(j)
-----------------------------------------------------------------------------
\* Every message on its way is of a type its reader has an event for, and reading it
\* leaves no byte.
Readable(msg, types) ==
    /\ EventType[msg.type] \in types
    /\ Read(msg).rest = <<>>
    /\ EventOf(msg).type = msg.type

\* A RouterEvent has both properties and so has what it carries.
ReadableRouted(msg, types) ==
    /\ Readable(msg, {"Router2Router"})
    /\ Readable(Payload(EventOf(msg)), types)

\* What is written is what is read: every event has a reader that leaves nothing of it
\* for the next (serialize.h:24-121, allocEvent.cc).
NothingLeft ==
    /\ \A i \in DOMAIN toRouter : Readable(toRouter[i], ClientTypes)
    /\ \A i \in DOMAIN toClient : Readable(toClient[i], CtxTypes)
    /\ \A j \in 1 .. lists :
        /\ \A i \in DOMAIN toServer[j] : ReadableRouted(toServer[j][i], ReqTypes)
        /\ \A i \in DOMAIN answers[j] : ReadableRouted(answers[j][i], ServerTypes)

\* Each server is asked, once, for what the application asked for, of the object of its
\* list; but the start of the samples is not what was asked for.
AskedAsMeant ==
    \A j \in 1 .. lists :
        /\ Len(done[j]) <= 1
        /\ \A i \in DOMAIN done[j] :
            \A f \in (DOMAIN req \cap DOMAIN done[j][i]) \ {"start"} :
                done[j][i][f] = req[f]
        /\ done[j] # <<>> => done[j][1].obj = Name(j)

\* The errors of all servers, in some order.
AllErrors == UNION {{errs[j][i] : i \in DOMAIN errs[j]} : j \in 1 .. lists}

\* The application finds in each place of its buffers what the device of that object has
\* for that attribute, with its time, and in its Status every error.
AnsweredAsDone ==
    app # <<>> =>
        /\ \A j \in 1 .. lists : Len(done[j]) = 1
        /\ "status" \in DOMAIN app => {app.status[i] : i \in DOMAIN app.status} = AllErrors
        /\ req.op = "Get" =>
            \A j \in 1 .. lists :
                /\ app.values[j] = [i \in DOMAIN req.attrs |-> Reading(Name(j), req.attrs[i])]
                /\ app.times[j] = [i \in DOMAIN req.attrs |-> Stamp(Name(j), req.attrs[i])]
        /\ req.op = "Samples" =>
            /\ app.start = done[1][1].start
            /\ Len(app.values) = done[1][1].got
            /\ \A i \in DOMAIN app.values :
                  app.values[i] = Reading(Name(1), req.attrs[1]) + i

\* What an application asks for is what the servers do, and what they find is what it
\* gets.
WireIntact == NothingLeft /\ AskedAsMeant /\ AnsweredAsDone
=============================================================================
