------------------------- MODULE DaemonAnswerProofs -------------------------
(***************************************************************************)
(* What a request does, for every topology: whatever is on its way carries *)
(* the operation and the communicator that were asked for, so that a set   *)
(* changes each device it is for exactly once.                             *)
(***************************************************************************)
EXTENDS DaemonProofs

\* The request id of a context is op on communicator m.
OfRequest(id, m, op) ==
    /\ id[1] \in Ctx /\ id[2] \in 1 .. Len(reqs[id[1]])
    /\ reqs[id[1]][id[2]] = [comm |-> m, op |-> op]

MatchAsked ==
    \A x \in Ctx : \A f \in Elems(c2r[x]) :
        IsRequest(f) => OfRequest(<<x, f.id>>, f.comm, f.op)
MatchInfos ==
    \A id \in DOMAIN reqInfo : OfRequest(id, reqInfo[id].comm, reqInfo[id].op)
MatchQueues ==
    \A s \in Server : \A e \in Elems(Queue(s)) :
        IsRequest(e) => OfRequest(e.id, e.comm, e.op)

\* A server asks its sources for what it was asked.
Passed(s, key) ==
    /\ OfRequest(<<s, key.req>>, Nested[s], key.op)
    /\ \E m \in Comm : OfRequest(key.id, m, key.op)
MatchFini == \A s \in Server : \A key \in finiMap[s] : Passed(s, key)

\* It never passes a set on.
ServersRead == \A s \in Server : \A i \in 1 .. Len(reqs[s]) : reqs[s][i].op # "Set"

Bounded == \A x \in App : Len(reqs[x]) <= MaxReq

MInv == MatchAsked /\ MatchInfos /\ MatchQueues /\ MatchFini /\ ServersRead /\ Bounded

\* Requests are added and never changed.
Grows ==
    \A x \in Ctx : \A i \in 1 .. Len(reqs[x]) :
        i \in 1 .. Len(reqs'[x]) /\ reqs'[x][i] = reqs[x][i]

-----------------------------------------------------------------------------
LEMMA StaysRequest ==
    ASSUME Grows, NEW id, NEW m, NEW op, OfRequest(id, m, op)
    PROVE  OfRequest(id, m, op)'
<1>1. id[1] \in Ctx /\ id[2] \in 1 .. Len(reqs[id[1]])
      /\ reqs[id[1]][id[2]] = [comm |-> m, op |-> op]
  BY DEF OfRequest
<1>2. id[2] \in 1 .. Len(reqs'[id[1]]) /\ reqs'[id[1]][id[2]] = reqs[id[1]][id[2]]
  BY <1>1 DEF Grows
<1> QED
  BY <1>1, <1>2 DEF OfRequest

\* What a step adds is what was asked, and so is what stays.
LEMMA StepMatches ==
    ASSUME MInv, Grows,
           \A x \in Ctx : \A f \in Elems(c2r'[x]) :
               IsRequest(f) => f \in Elems(c2r[x]) \/ OfRequest(<<x, f.id>>, f.comm, f.op)',
           \A id \in DOMAIN reqInfo' :
               \/ /\ id \in DOMAIN reqInfo
                  /\ reqInfo'[id].comm = reqInfo[id].comm /\ reqInfo'[id].op = reqInfo[id].op
               \/ OfRequest(id, reqInfo[id].comm, reqInfo[id].op)',
           \A s \in Server : \A e \in Elems(Queue(s)') :
               IsRequest(e) => e \in Elems(Queue(s)) \/ OfRequest(e.id, e.comm, e.op)',
           \A s \in Server : \A key \in finiMap'[s] :
               key \in finiMap[s] \/ Passed(s, key)',
           \A s \in Server : \A i \in 1 .. Len(reqs'[s]) :
               i \in 1 .. Len(reqs[s]) \/ reqs'[s][i].op # "Set",
           Bounded'
    PROVE  MInv'
<1>1. MatchAsked'
  BY StaysRequest DEF MInv, MatchAsked
<1>2. MatchInfos'
  <2> SUFFICES ASSUME NEW id \in DOMAIN reqInfo'
               PROVE  OfRequest(id, reqInfo[id].comm, reqInfo[id].op)'
    BY DEF MatchInfos
  <2>1. CASE /\ id \in DOMAIN reqInfo
             /\ reqInfo'[id].comm = reqInfo[id].comm /\ reqInfo'[id].op = reqInfo[id].op
    <3>1. PICK m, op : m = reqInfo[id].comm /\ op = reqInfo[id].op
      OBVIOUS
    <3>2. OfRequest(id, m, op)
      BY <2>1, <3>1 DEF MInv, MatchInfos
    <3>3. OfRequest(id, m, op)'
      BY <3>2, StaysRequest
    <3>4. m = reqInfo'[id].comm /\ op = reqInfo'[id].op
      BY <2>1, <3>1
    <3> QED
      BY <3>3, <3>4 DEF OfRequest
  <2> QED
    BY <2>1
<1>3. MatchQueues'
  BY StaysRequest DEF MInv, MatchQueues
<1>4. MatchFini'
  <2> SUFFICES ASSUME NEW s \in Server, NEW key \in finiMap[s], Passed(s, key)
               PROVE  Passed(s, key)'
    BY DEF MInv, MatchFini
  <2> QED
    BY StaysRequest DEF Passed
<1>5. ServersRead'
  BY DEF MInv, ServersRead, Grows, Ctx
<1> QED
  BY <1>1, <1>2, <1>3, <1>4, <1>5 DEF MInv

\* Of a request that is made: nothing else changes for the context.
LEMMA IssueMatches ==
    ASSUME IInv, NEW x \in Ctx, NEW m \in Comm, NEW op \in Op, Issue(x, m, op),
           NEW id, id = Len(reqs[x]) + 1
    PROVE  /\ Grows /\ OfRequest(<<x, id>>, m, op)' /\ Len(reqs'[x]) = id
           /\ id \notin 1 .. Len(reqs[x]) /\ id \in Nat
           /\ \A i \in 1 .. id : i \in 1 .. Len(reqs[x]) \/ i = id
           /\ \A y \in Ctx \ {x} : reqs'[y] = reqs[y] /\ c2r'[y] = c2r[y]
           /\ \A f \in Elems(c2r'[x]) :
                 IsRequest(f) => \/ f \in Elems(c2r[x])
                                 \/ f.id = id /\ f.comm = m /\ f.op = op
           /\ \A i : Count(c2r'[x], AskFor(i))
                     = Count(c2r[x], AskFor(i)) + (IF i = id THEN 1 ELSE 0)
<1> DEFINE first == FirstUse(m)
           ev == CommReqEvent(m, op, id)
           q == c2r[x] \o first
<1>1. /\ c2r \in [Ctx -> Seq(ClientEvent)] /\ reqs \in [Ctx -> Seq(Request)]
      /\ Len(reqs[x]) \in Nat /\ c2r[x] \in Seq(ClientEvent) /\ reqs[x] \in Seq(Request)
  BY PlaceTypes
<1>2. /\ c2r' = [c2r EXCEPT ![x] = Append(q, ev)]
      /\ reqs' = [reqs EXCEPT ![x] = Append(@, [comm |-> m, op |-> op])]
  BY DEF Issue, SendRequest
<1>3. /\ ev \in ClientEvent /\ ev.id = id /\ ev.comm = m /\ ev.op = op /\ IsRequest(ev)
      /\ CommCreateEvent(m) \in ClientEvent /\ ~ IsRequest(CommCreateEvent(m))
      /\ [comm |-> m, op |-> op] \in Request
  BY <1>1 DEF CommReqEvent, CommCreateEvent, ClientEvent, Request, IsRequest, EventId
<1>4. first \in Seq(ClientEvent) /\ \A k \in 1 .. Len(first) : ~ IsRequest(first[k])
  BY <1>3 DEF FirstUse
<1>5. \A y \in Ctx \ {x} : reqs'[y] = reqs[y] /\ c2r'[y] = c2r[y]
  BY <1>1, <1>2
<1>6. /\ id \in Nat /\ id \notin 1 .. Len(reqs[x])
      /\ \A i \in 1 .. id : i \in 1 .. Len(reqs[x]) \/ i = id
      /\ \A i \in 1 .. Len(reqs[x]) : i \in 1 .. id
      /\ id \in 1 .. id
  <2>1. PICK n \in Nat : n = Len(reqs[x])
    BY <1>1
  <2>2. id = n + 1
    BY <2>1
  <2>3. /\ n + 1 \in Nat /\ n + 1 \notin 1 .. n
        /\ \A i \in 1 .. n + 1 : i \in 1 .. n \/ i = n + 1
        /\ \A i \in 1 .. n : i \in 1 .. n + 1
        /\ n + 1 \in 1 .. n + 1
    BY <2>1
  <2> QED
    BY <2>1, <2>2, <2>3
<1>7. /\ Len(reqs'[x]) = id /\ reqs'[x][id] = [comm |-> m, op |-> op]
      /\ \A i \in 1 .. Len(reqs[x]) : reqs'[x][i] = reqs[x][i]
  <2>1. reqs'[x] = Append(reqs[x], [comm |-> m, op |-> op])
    BY <1>1, <1>2
  <2> QED
    BY <1>1, <1>3, <2>1, AppendProperties
<1>8. Grows
  BY <1>5, <1>6, <1>7 DEF Grows
<1>9. OfRequest(<<x, id>>, m, op)'
  BY <1>6, <1>7 DEF OfRequest
<1> HIDE DEF ev, first
<1>10. q \in Seq(ClientEvent)
  BY <1>1, <1>4, ConcatProperties
<1>11. \A f \in Elems(q) : IsRequest(f) => f \in Elems(c2r[x])
  <2>1. \A f \in Elems(first) : ~ IsRequest(f)
    BY <1>4 DEF Elems
  <2> QED
    BY <1>1, <1>4, <2>1, ElemsConcat
<1>12. \A i : Count(q, AskFor(i)) = Count(c2r[x], AskFor(i))
  <2>1. \A i : Count(q, AskFor(i)) = Count(c2r[x], AskFor(i)) + Count(first, AskFor(i))
    BY <1>1, <1>4, CountConcat
  <2>2. \A i : Count(first, AskFor(i)) = 0
    BY <1>4, CountType DEF AskFor
  <2> QED
    BY <2>1, <2>2, PlaceCounts
<1> HIDE DEF q
<1>13. c2r'[x] = Append(q, ev)
  BY <1>1, <1>2
<1>14. \A f \in Elems(c2r'[x]) : f \in Elems(q) \/ f = ev
  <2>1. /\ Len(c2r'[x]) = Len(q) + 1 /\ c2r'[x][Len(q) + 1] = ev /\ Len(q) \in Nat
        /\ \A k \in 1 .. Len(q) : c2r'[x][k] = q[k]
    BY <1>3, <1>10, <1>13, AppendProperties, LenProperties
  <2>2. \A k \in 1 .. Len(q) + 1 : k \in 1 .. Len(q) \/ k = Len(q) + 1
    BY <2>1
  <2> QED
    BY <2>1, <2>2 DEF Elems
<1>15. \A f \in Elems(c2r'[x]) :
          IsRequest(f) => \/ f \in Elems(c2r[x])
                          \/ f.id = id /\ f.comm = m /\ f.op = op
  BY <1>3, <1>11, <1>14
<1>16. ASSUME NEW i
       PROVE  Count(c2r'[x], AskFor(i))
              = Count(c2r[x], AskFor(i)) + (IF i = id THEN 1 ELSE 0)
  <2>1. Count(c2r'[x], AskFor(i)) = Count(q, AskFor(i)) + (IF ev \in AskFor(i) THEN 1 ELSE 0)
    BY <1>3, <1>10, <1>13, CountAppend
  <2>2. ev \in AskFor(i) <=> i = id
    BY <1>3 DEF AskFor
  <2> QED
    BY <1>12, <2>1, <2>2
<1> QED
  BY <1>5, <1>6, <1>7, <1>8, <1>9, <1>15, <1>16

\* A request goes to the servers as it was asked.
LEMMA RequestEventsAsked ==
    ASSUME NEW m \in Comm, NEW op, NEW id, NEW s \in Server
    PROVE  \A e \in Elems(RequestEvents(m, op, id)[s]) :
              e.comm = m /\ e.op = op /\ e.id = id
<1>1. Len(Slots[m][s]) \in Nat
  BY SlotsAssumption, LenProperties
<1>2. RequestEvents(m, op, id)[s]
      = [k \in 1 .. Len(Slots[m][s]) |-> SrvrReqEvent(m, op, id, Slots[m][s][k])]
  BY DEF RequestEvents
<1>3. Len(RequestEvents(m, op, id)[s]) = Len(Slots[m][s])
  BY <1>1, <1>2
<1> QED
  BY <1>2, <1>3 DEF Elems, SrvrReqEvent

-----------------------------------------------------------------------------
(* The steps.                                                              *)

\* What is read from a connection or a queue was on it.
LEMMA ReadElems ==
    ASSUME IInv, NEW c \in Ctx, c2r[c] # <<>>, c2r' = Received(c2r, c)
    PROVE  /\ Head(c2r[c]) \in Elems(c2r[c])
           /\ \A x \in Ctx : Elems(c2r'[x]) \subseteq Elems(c2r[x])
<1>1. c2r \in [Ctx -> Seq(ClientEvent)] /\ c2r[c] \in Seq(ClientEvent)
  BY PlaceTypes
<1>2. c2r'[c] = Tail(c2r[c]) /\ \A x \in Ctx \ {c} : c2r'[x] = c2r[x]
  BY <1>1 DEF Received
<1> QED
  BY <1>1, <1>2, ElemsTail

\* The router passes events on.
LEMMA ForwardElems ==
    ASSUME IInv, NonePending, NEW out \in [Server -> Seq(ServerEvent)], Forward(out),
           NEW s \in Server
    PROVE  Elems(Queue(s)') \subseteq Elems(Queue(s)) \cup Elems(out[s])
<1>1. Queue(s)' = Queue(s) \o out[s]
  BY ForwardQueue
<1>2. Queue(s) \in Seq(ServerEvent) /\ out[s] \in Seq(ServerEvent)
  BY QueueTypes
<1>3. Elems(Queue(s) \o out[s]) \subseteq Elems(Queue(s)) \cup Elems(out[s])
  BY <1>2, ElemsConcat
<1> QED
  BY <1>1, <1>3

LEMMA RouterMatches ==
    ASSUME IInv, NonePending, MInv, RouterStep
    PROVE  MInv'
<1>1. reqs' = reqs /\ finiMap' = finiMap
  BY DEF RouterStep, contextVars, serverVars
<1>2. Grows /\ Bounded'
  BY <1>1 DEF Grows, MInv, Bounded
<1>3. ChannelTypeOK /\ clientComms \in [Ctx -> SUBSET Comm]
  BY DEF IInv, TypeOK, RouterTypeOK
<1>4. ASSUME \A x \in Ctx : Elems(c2r'[x]) \subseteq Elems(c2r[x]), reqInfo' = reqInfo,
             \A s \in Server : \A e \in Elems(Queue(s)') :
                 IsRequest(e) => e \in Elems(Queue(s))
      PROVE  MInv'
  BY <1>1, <1>2, <1>4, StepMatches
<1>5. ASSUME NEW c \in Ctx, RtrCommCreate(c)
      PROVE  MInv'
  <2> DEFINE m == Head(c2r[c]).comm
  <2>1. /\ c2r[c] # <<>> /\ c2r' = Received(c2r, c) /\ reqInfo' = reqInfo
        /\ Forward(CreateEvents(m))
    BY <1>5 DEF RtrCommCreate, Arrives
  <2>2. m \in Comm
    BY <1>3, <1>5, ClientEventType DEF RtrCommCreate
  <2>3. CreateEvents(m) \in [Server -> Seq(ServerEvent)]
        /\ \A s \in Server : \A e \in Elems(CreateEvents(m)[s]) : ~ IsRequest(e)
    BY <2>2, CreateEventsType, CreateNoRequest DEF Elems
  <2> HIDE DEF m
  <2>4. \A s \in Server : \A e \in Elems(Queue(s)') : IsRequest(e) => e \in Elems(Queue(s))
    BY <2>1, <2>3, ForwardElems
  <2> QED
    BY <1>4, <2>1, <2>4, ReadElems
<1>6. ASSUME NEW c \in Ctx, RtrClientClosed(c)
      PROVE  MInv'
  <2>1. /\ c2r[c] # <<>> /\ c2r' = Received(c2r, c) /\ reqInfo' = reqInfo
        /\ Forward(DestroyEvents(c))
    BY <1>6 DEF RtrClientClosed, Arrives
  <2>2. DestroyEvents(c) \in [Server -> Seq(ServerEvent)]
        /\ \A s \in Server : \A e \in Elems(DestroyEvents(c)[s]) : ~ IsRequest(e)
    BY <1>3, DestroyEventsType, DestroyNoRequest DEF Elems
  <2>3. \A s \in Server : \A e \in Elems(Queue(s)') : IsRequest(e) => e \in Elems(Queue(s))
    BY <2>1, <2>2, ForwardElems
  <2> QED
    BY <1>4, <2>1, <2>3, ReadElems
<1>7. ASSUME NEW c \in Ctx, RtrCommReq(c)
      PROVE  MInv'
  <2>1. PICK ev, id, m, op : /\ ev = Head(c2r[c]) /\ id = <<c, ev.id>>
                             /\ m = ev.comm /\ op = ev.op
    OBVIOUS
  <2>2. /\ c2r[c] # <<>> /\ IsRequest(ev) /\ c2r' = Received(c2r, c)
        /\ Allocate(id, NewInfo(m, op)) /\ Forward(RequestEvents(m, op, id))
    BY <1>7, <2>1 DEF RtrCommReq, Arrives, IsRequest
  <2>3. m \in Comm /\ op \in Op /\ id \in InfoId
    BY <1>3, <1>7, <2>1, ClientEventType DEF RtrCommReq, InfoId
  <2>4. OfRequest(id, m, op)
    BY <2>1, <2>2, ReadElems DEF MInv, MatchAsked
  <2>5. OfRequest(id, m, op)'
    BY <1>2, <2>4, StaysRequest
  <2>6. \A s \in Server : \A e \in Elems(Queue(s)') :
            e \in Elems(Queue(s)) \/ OfRequest(e.id, e.comm, e.op)'
    <3>1. RequestEvents(m, op, id) \in [Server -> Seq(ServerEvent)]
      BY <2>3, RequestEventsType
    <3>2. \A s \in Server : \A e \in Elems(RequestEvents(m, op, id)[s]) :
              OfRequest(e.id, e.comm, e.op)'
      BY <2>3, <2>5, RequestEventsAsked
    <3>3. \A s \in Server : Elems(Queue(s)')
              \subseteq Elems(Queue(s)) \cup Elems(RequestEvents(m, op, id)[s])
      BY <2>2, <3>1, ForwardElems
    <3> QED
      BY <3>2, <3>3
  <2>7. \A j \in DOMAIN reqInfo' :
            \/ /\ j \in DOMAIN reqInfo
               /\ reqInfo'[j].comm = reqInfo[j].comm /\ reqInfo'[j].op = reqInfo[j].op
            \/ OfRequest(j, reqInfo[j].comm, reqInfo[j].op)'
    <3>1. /\ \A j \in DOMAIN reqInfo' : j \in DOMAIN reqInfo \/ j = id
          /\ \A j \in DOMAIN reqInfo \ {id} : reqInfo'[j] = reqInfo[j]
          /\ reqInfo'[id].comm = m /\ reqInfo'[id].op = op
      BY <2>2 DEF Allocate, NewInfo
    <3>2. OfRequest(id, reqInfo[id].comm, reqInfo[id].op)'
      BY <2>5, <3>1 DEF OfRequest
    <3> QED
      BY <3>1, <3>2
  <2> QED
    BY <1>1, <1>2, <2>2, <2>6, <2>7, ReadElems, StepMatches
<1>8. ASSUME NEW s \in Server, RtrServerConnect(s)
      PROVE  MInv'
  <2>1. c2r' = c2r /\ reqInfo' = reqInfo
    BY <1>8 DEF RtrServerConnect
  <2>2. \A t \in Server : Queue(t)' = Queue(t)
    BY <1>8, ConnectQueue
  <2> QED
    BY <1>4, <2>1, <2>2
<1>9. ASSUME NEW s \in Server, RtrRespQueue(s) \/ RtrRespSend(s)
      PROVE  MInv'
  <2>1. c2r' = c2r /\ r2s' = r2s /\ pendingEvents' = pendingEvents
    BY <1>9 DEF RtrRespQueue, RtrRespSend
  <2>2. \A t \in Server : Queue(t)' = Queue(t)
    BY <2>1 DEF Queue
  <2>3. \A j \in DOMAIN reqInfo' :
            /\ j \in DOMAIN reqInfo
            /\ reqInfo'[j].comm = reqInfo[j].comm /\ reqInfo'[j].op = reqInfo[j].op
    <3> DEFINE ev == Head(s2r[s])
    <3>1. CASE RtrRespQueue(s)
      <4>1. reqInfo' = [reqInfo EXCEPT ![ev.id] = Collected(reqInfo[ev.id], ev)]
        BY <3>1 DEF RtrRespQueue, Update
      <4>2. /\ Collected(reqInfo[ev.id], ev).comm = reqInfo[ev.id].comm
            /\ Collected(reqInfo[ev.id], ev).op = reqInfo[ev.id].op
        BY CollectedFields, Zenon
      <4> QED
        BY <4>1, <4>2
    <3>2. CASE RtrRespSend(s)
      BY <3>2 DEF RtrRespSend, Free
    <3> QED
      BY <1>9, <3>1, <3>2
  <2> QED
    BY <1>1, <1>2, <2>1, <2>2, <2>3, StepMatches
<1> QED
  BY <1>5, <1>6, <1>7, <1>8, <1>9 DEF RouterStep

LEMMA ServerMatches ==
    ASSUME IInv, MInv, NEW s \in Server, ServerStep(s)
    PROVE  MInv'
<1>1. reqInfo' = reqInfo /\ pendingEvents' = pendingEvents /\ s \in Ctx /\ s \notin App
  BY PartiesAssumption DEF ServerStep, routerVars, Ctx
<1>2. ASSUME r2s[s] # <<>>, r2s' = Received(r2s, s)
      PROVE  /\ Head(r2s[s]) \in Elems(Queue(s))
             /\ \A t \in Server : Elems(Queue(t)') \subseteq Elems(Queue(t))
  <2>1. /\ Queue(s) # <<>> /\ Queue(s)' = Tail(Queue(s)) /\ Queue(s) \in Seq(ServerEvent)
        /\ \A t \in Server \ {s} : Queue(t)' = Queue(t)
    BY <1>1, <1>2, ReceivedQueue, QueueTypes
  <2>2. Head(Queue(s)) = Head(r2s[s])
    BY <1>2, QueueHead
  <2> QED
    BY <2>1, <2>2, ElemsTail
<1>3. ASSUME c2r' = c2r, reqs' = reqs,
             \A t \in Server : Elems(Queue(t)') \subseteq Elems(Queue(t)),
             \A t \in Server : finiMap'[t] \subseteq finiMap[t]
      PROVE  MInv'
  <2>1. Grows /\ Bounded'
    BY <1>3 DEF Grows, MInv, Bounded
  <2> QED
    BY <1>1, <1>3, <2>1, StepMatches
<1>4. CASE ServerStart(s) \/ SrvrMakeProgress(s)
  <2>1. c2r' = c2r /\ reqs' = reqs /\ r2s' = r2s
    BY <1>4 DEF ServerStart, SrvrMakeProgress, Consume, contextVars
  <2>2. \A t \in Server : Queue(t)' = Queue(t)
    BY <1>1, <2>1 DEF Queue
  <2>3. \A t \in Server : finiMap'[t] \subseteq finiMap[t]
    <3>1. finiMap \in [Server -> SUBSET FiniEntry]
      BY DEF IInv, TypeOK, ServerTypeOK
    <3>2. CASE ServerStart(s)
      BY <3>2 DEF ServerStart
    <3>3. CASE SrvrMakeProgress(s)
      <4>1. PICK key : finiMap' = [finiMap EXCEPT ![s] = @ \ {key}]
        BY <3>3 DEF SrvrMakeProgress
      <4> QED
        BY <3>1, <4>1
    <3> QED
      BY <1>4, <3>2, <3>3
  <2> QED
    BY <1>3, <2>1, <2>2, <2>3
<1>5. CASE SrvrCommCreate(s) \/ SrvrCommDestroy(s) \/ SrvrReqLocal(s)
  <2>1. /\ c2r' = c2r /\ reqs' = reqs /\ r2s[s] # <<>> /\ r2s' = Received(r2s, s)
        /\ finiMap' = finiMap
    BY <1>5 DEF SrvrCommCreate, SrvrCommDestroy, SrvrReqLocal, Arrives, contextVars
  <2> QED
    BY <1>2, <1>3, <2>1
<1>6. CASE SrvrReqForward(s)
  <2>0. PICK ev, id, key :
          /\ ev = Head(r2s[s]) /\ id = Len(reqs[s]) + 1
          /\ key = [id |-> ev.id, grp |-> ev.grp, op |-> ev.op, req |-> id]
    OBVIOUS
  <2>1. /\ r2s[s] # <<>> /\ IsRequest(ev) /\ r2s' = Received(r2s, s) /\ Forwards(s, ev.op)
        /\ Issue(s, Nested[s], ev.op) /\ finiMap' = [finiMap EXCEPT ![s] = @ \cup {key}]
    BY <1>6, <2>0 DEF SrvrReqForward, Arrives, IsRequest
  <2>2. ev.op \in Op /\ ev.comm \in Comm /\ Nested[s] \in Comm /\ ev.op # "Set"
    <3>1. ChannelTypeOK
      BY DEF IInv, TypeOK
    <3> QED
      BY <1>6, <2>0, <2>1, <3>1, CommAssumption, ServerEventType DEF SrvrReqForward, Forwards
  <2>3. /\ Grows /\ OfRequest(<<s, id>>, Nested[s], ev.op)' /\ Len(reqs'[s]) = id
        /\ \A i \in 1 .. id : i \in 1 .. Len(reqs[s]) \/ i = id
        /\ \A y \in Ctx \ {s} : reqs'[y] = reqs[y] /\ c2r'[y] = c2r[y]
        /\ \A f \in Elems(c2r'[s]) :
              IsRequest(f) => \/ f \in Elems(c2r[s])
                              \/ f.id = id /\ f.comm = Nested[s] /\ f.op = ev.op
    BY <1>1, <2>0, <2>1, <2>2, IssueMatches
  <2>4. Bounded'
    BY <1>1, <2>3 DEF MInv, Bounded, Ctx
  <2>5. OfRequest(ev.id, ev.comm, ev.op)
    BY <1>2, <2>0, <2>1 DEF MInv, MatchQueues
  <2>6. Passed(s, key)'
    <3>1. OfRequest(ev.id, ev.comm, ev.op)'
      BY <2>3, <2>5, StaysRequest
    <3>2. key.id = ev.id /\ key.op = ev.op /\ key.req = id
      BY <2>0
    <3> QED
      BY <2>2, <2>3, <3>1, <3>2 DEF Passed, OfRequest
  <2>7. finiMap'[s] = finiMap[s] \cup {key} /\ \A t \in Server \ {s} : finiMap'[t] = finiMap[t]
    BY <2>1 DEF IInv, TypeOK, ServerTypeOK
  <2>8. \A i \in 1 .. Len(reqs'[s]) : i \in 1 .. Len(reqs[s]) \/ reqs'[s][i].op # "Set"
    BY <2>2, <2>3 DEF OfRequest
  <2>9. \A x \in Ctx : \A f \in Elems(c2r'[x]) :
            IsRequest(f) => f \in Elems(c2r[x]) \/ OfRequest(<<x, f.id>>, f.comm, f.op)'
    BY <1>1, <2>3
  <2>10. \A t \in Server : \A i \in 1 .. Len(reqs'[t]) :
            i \in 1 .. Len(reqs[t]) \/ reqs'[t][i].op # "Set"
    BY <2>3, <2>8 DEF Ctx
  <2>11. \A t \in Server : \A k \in finiMap'[t] : k \in finiMap[t] \/ Passed(t, k)'
    BY <2>6, <2>7
  <2>12. \A t \in Server : Elems(Queue(t)') \subseteq Elems(Queue(t))
    BY <1>2, <2>1
  <2> QED
    BY <1>1, <2>3, <2>4, <2>9, <2>10, <2>11, <2>12, StepMatches
<1> QED
  BY <1>4, <1>5, <1>6 DEF ServerStep

LEMMA AppMatches ==
    ASSUME IInv, MInv, NEW x \in App, AppCall(x) \/ AppRun(x)
    PROVE  MInv'
<1>1. /\ reqInfo' = reqInfo /\ r2s' = r2s /\ pendingEvents' = pendingEvents
      /\ finiMap' = finiMap /\ x \in Ctx /\ x \notin Server
  BY PartiesAssumption DEF AppCall, AppRun, routerVars, serverVars, Ctx
<1>2. \A s \in Server : Queue(s)' = Queue(s)
  BY <1>1 DEF Queue
<1>3. ASSUME NEW m \in Comm, NEW op \in Op, Submit(x, m, op)
      PROVE  MInv'
  <2>1. PICK id : id = Len(reqs[x]) + 1
    OBVIOUS
  <2>2. Issue(x, m, op) /\ Len(reqs[x]) < MaxReq
    BY <1>3 DEF Submit
  <2>3. /\ Grows /\ OfRequest(<<x, id>>, m, op)' /\ Len(reqs'[x]) = id
        /\ \A y \in Ctx \ {x} : reqs'[y] = reqs[y] /\ c2r'[y] = c2r[y]
        /\ \A f \in Elems(c2r'[x]) :
              IsRequest(f) => \/ f \in Elems(c2r[x])
                              \/ f.id = id /\ f.comm = m /\ f.op = op
    BY <1>1, <2>1, <2>2, IssueMatches
  <2>4. Bounded'
    <3>1. Len(reqs[x]) + 1 <= MaxReq
      <4>1. PICK n \in Nat : n = Len(reqs[x])
        BY <1>1, PlaceTypes
      <4>2. n < MaxReq => n + 1 <= MaxReq
        BY UseAssumption
      <4> QED
        BY <2>2, <4>1, <4>2
    <3> QED
      BY <2>1, <2>3, <3>1 DEF MInv, Bounded, Ctx
  <2>5. \A y \in Ctx : \A f \in Elems(c2r'[y]) :
            IsRequest(f) => f \in Elems(c2r[y]) \/ OfRequest(<<y, f.id>>, f.comm, f.op)'
    BY <1>1, <2>3
  <2>6. \A s \in Server : reqs'[s] = reqs[s]
    BY <1>1, <2>3 DEF Ctx
  <2> QED
    BY <1>1, <1>2, <2>3, <2>4, <2>5, <2>6, StepMatches
<1>4. ASSUME reqs' = reqs,
             \A y \in Ctx : \A f \in Elems(c2r'[y]) : IsRequest(f) => f \in Elems(c2r[y])
      PROVE  MInv'
  <2>1. Grows /\ Bounded'
    BY <1>4 DEF Grows, MInv, Bounded
  <2> QED
    BY <1>1, <1>2, <1>4, <2>1, StepMatches
<1>5. CASE Close(x)
  <2>1. /\ c2r \in [Ctx -> Seq(ClientEvent)] /\ c2r[x] \in Seq(ClientEvent)
        /\ Len(c2r[x]) \in Nat
    BY <1>1, PlaceTypes
  <2>2. c2r' = [c2r EXCEPT ![x] = Append(@, Eof)] /\ reqs' = reqs
    BY <1>5 DEF Close, Sent, contextVars
  <2>3. c2r'[x] = Append(c2r[x], Eof) /\ \A y \in Ctx \ {x} : c2r'[y] = c2r[y]
    BY <1>1, <2>1, <2>2
  <2>4. Eof \in ClientEvent /\ ~ IsRequest(Eof)
    BY DEF ClientEvent, Eof, IsRequest
  <2>5. \A f \in Elems(c2r'[x]) : f \in Elems(c2r[x]) \/ f = Eof
    <3>1. /\ Len(c2r'[x]) = Len(c2r[x]) + 1 /\ c2r'[x][Len(c2r[x]) + 1] = Eof
          /\ \A k \in 1 .. Len(c2r[x]) : c2r'[x][k] = c2r[x][k]
      BY <2>1, <2>3, <2>4, AppendProperties
    <3>2. \A k \in 1 .. Len(c2r[x]) + 1 : k \in 1 .. Len(c2r[x]) \/ k = Len(c2r[x]) + 1
      BY <2>1
    <3> QED
      BY <3>1, <3>2 DEF Elems
  <2> QED
    BY <1>4, <2>2, <2>3, <2>4, <2>5
<1>6. CASE WaitEvent(x) \/ WaitReturn(x) \/ MakeProgress(x) \/ \E i \in Ids : Wait(x, i)
  <2>1. c2r' = c2r /\ reqs' = reqs
    BY <1>6 DEF WaitEvent, WaitReturn, MakeProgress, Wait, Consume, contextVars
  <2> QED
    BY <1>4, <2>1
<1> QED
  BY <1>3, <1>5, <1>6 DEF AppCall, AppRun

LEMMA NextMatches == IInv /\ OInv /\ MInv /\ [Next]_vars => MInv'
<1> SUFFICES ASSUME IInv, OInv, MInv, [Next]_vars PROVE MInv'
  OBVIOUS
<1>1. CASE UNCHANGED vars
  <2>1. /\ c2r' = c2r /\ reqs' = reqs /\ reqInfo' = reqInfo /\ finiMap' = finiMap
        /\ r2s' = r2s /\ pendingEvents' = pendingEvents
    BY <1>1 DEF vars, channels, contextVars, serverVars, routerVars
  <2>2. Grows /\ Bounded' /\ \A s \in Server : Queue(s)' = Queue(s)
    BY <2>1 DEF Grows, MInv, Bounded, Queue
  <2> QED
    BY <2>1, <2>2, StepMatches
<1> QED
  BY <1>1, RouterMatches, ServerMatches, AppMatches DEF Next, OInv

LEMMA InitMatches == Init => MInv
<1> SUFFICES ASSUME Init PROVE MInv
  OBVIOUS
<1>1. /\ \A s \in Server : r2s[s] = <<>> /\ pendingEvents[s] = <<>> /\ finiMap[s] = {}
      /\ \A x \in Ctx : c2r[x] = <<>> /\ reqs[x] = <<>>
      /\ DOMAIN reqInfo = {}
  BY DEF Init, ChannelInit, ContextInit, ServerInit, RouterInit
<1>2. Elems(<<>>) = {} /\ <<>> \o <<>> = <<>>
  BY EmptySeq, ConcatEmptySeq DEF Elems
<1>3. \A s \in Server : Elems(Queue(s)) = {}
  BY <1>1, <1>2 DEF Queue
<1>4. Bounded /\ ServersRead
  BY <1>1, UseAssumption DEF Bounded, ServersRead, Ctx
<1> QED
  BY <1>1, <1>2, <1>3, <1>4 DEF MInv, MatchAsked, MatchInfos, MatchQueues, MatchFini

-----------------------------------------------------------------------------
(* Sets of a device: asked for, still on their way, carried out.           *)

OnItsWay(s, x, i, g) ==
    \/ Count(c2r[x], AskFor(i)) # 0
    \/ Count(Queue(s), ReqOf(<<x, i>>, g)) # 0

Due(s) == {t \in SetsAsked(s) : OnItsWay(s, t[1], t[2], t[3])}

Counted(s) ==
    /\ IsFiniteSet(SetsAsked(s))
    /\ applied[s] + Cardinality(Due(s)) <= Asked(s)
    /\ s \notin Flaky => applied[s] + Cardinality(Due(s)) = Asked(s)

VInv == \A s \in Device : Counted(s)

LEMMA SetsAskedIs ==
    ASSUME NEW s, NEW t
    PROVE  t \in SetsAsked(s) <=>
             \E x \in App : \E i \in 1 .. Len(reqs[x]) : \E g \in Lists(reqs[x][i].comm) :
                 /\ t = <<x, i, g>>
                 /\ reqs[x][i].op = "Set" /\ s \in Members[reqs[x][i].comm][g]
  BY DEF SetsAsked, SetsOf

\* The sets asked for are of requests that were made.
LEMMA SetsAskedType ==
    ASSUME IInv, NEW s, NEW t \in SetsAsked(s)
    PROVE  /\ t = <<t[1], t[2], t[3]>>
           /\ t[1] \in App /\ t[1] \in Ctx /\ t[2] \in 1 .. Len(reqs[t[1]])
           /\ <<t[1], t[2]>> \in InfoId /\ t[3] \in Nat
           /\ reqs[t[1]][t[2]].op = "Set" /\ reqs[t[1]][t[2]].comm \in Comm
           /\ t[3] \in Lists(reqs[t[1]][t[2]].comm)
           /\ s \in Members[reqs[t[1]][t[2]].comm][t[3]]
<1>1. PICK x \in App : \E i \in 1 .. Len(reqs[x]) : \E g \in Lists(reqs[x][i].comm) :
        t = <<x, i, g>> /\ reqs[x][i].op = "Set" /\ s \in Members[reqs[x][i].comm][g]
  BY SetsAskedIs
<1>2. PICK i \in 1 .. Len(reqs[x]) : \E g \in Lists(reqs[x][i].comm) :
        t = <<x, i, g>> /\ reqs[x][i].op = "Set" /\ s \in Members[reqs[x][i].comm][g]
  BY <1>1
<1>3. PICK g \in Lists(reqs[x][i].comm) :
        t = <<x, i, g>> /\ reqs[x][i].op = "Set" /\ s \in Members[reqs[x][i].comm][g]
  BY <1>2
<1>4. x \in Ctx
  BY DEF Ctx
<1>5. reqs[x][i] \in Request
  BY <1>4, PlaceTypes, ElementOfSeq
<1>6. g \in Nat /\ i \in Nat
  BY <1>5 DEF Lists, Request
<1> QED
  BY <1>3, <1>4, <1>5, <1>6 DEF InfoId, EventId, Request

LEMMA SameAsked ==
    ASSUME NEW s, \A x \in App : reqs'[x] = reqs[x]
    PROVE  SetsAsked(s)' = SetsAsked(s)
  BY DEF SetsAsked, SetsOf

\* A step that brings no set to the device and asks for none.
LEMMA SameCounted ==
    ASSUME IInv, NEW s, Counted(s), \A x \in App : reqs'[x] = reqs[x],
           applied'[s] = applied[s],
           \A t \in SetsAsked(s) :
               OnItsWay(s, t[1], t[2], t[3])' <=> OnItsWay(s, t[1], t[2], t[3])
    PROVE  Counted(s)'
<1>1. SetsAsked(s)' = SetsAsked(s)
  BY SameAsked
<1>2. Due(s)' = Due(s)
  BY <1>1 DEF Due
<1> QED
  BY <1>1, <1>2 DEF Counted, Asked

\* The router reads an event of a client.
LEMMA ReadAsk ==
    ASSUME IInv, NEW c \in Ctx, c2r[c] # <<>>, c2r' = Received(c2r, c), NEW x \in Ctx, NEW i
    PROVE  /\ Count(c2r[x], AskFor(i)) \in Nat /\ Count(c2r'[x], AskFor(i)) \in Nat
           /\ Count(c2r[x], AskFor(i))
              = Count(c2r'[x], AskFor(i))
                + (IF x = c /\ IsRequest(Head(c2r[c])) /\ Head(c2r[c]).id = i THEN 1 ELSE 0)
<1>1. c2r \in [Ctx -> Seq(ClientEvent)] /\ c2r[c] \in Seq(ClientEvent)
      /\ Count(c2r[x], AskFor(i)) \in Nat
  BY PlaceTypes, PlaceCounts
<1>2. CASE x # c
  <2>1. c2r'[x] = c2r[x]
    BY <1>1, <1>2 DEF Received
  <2> QED
    BY <1>1, <1>2, <2>1
<1>3. CASE x = c
  <2>1. c2r'[c] = Tail(c2r[c])
    BY <1>1 DEF Received
  <2>2. Head(c2r[c]) \in ClientEvent
    BY <1>1, ElemsTail, ElemsType
  <2>3. Head(c2r[c]) \in AskFor(i) <=> IsRequest(Head(c2r[c])) /\ Head(c2r[c]).id = i
    BY <2>2 DEF AskFor
  <2>4. /\ Count(c2r[c], AskFor(i))
           = Count(Tail(c2r[c]), AskFor(i)) + (IF Head(c2r[c]) \in AskFor(i) THEN 1 ELSE 0)
        /\ Count(Tail(c2r[c]), AskFor(i)) \in Nat
    BY <1>1, CountTail
  <2> QED
    BY <1>1, <1>3, <2>1, <2>3, <2>4
<1> QED
  BY <1>2, <1>3

LEMMA ForwardCount ==
    ASSUME IInv, NonePending, NEW out \in [Server -> Seq(ServerEvent)], Forward(out),
           NEW s \in Server, NEW id, NEW g
    PROVE  /\ Count(Queue(s), ReqOf(id, g)) \in Nat
           /\ Count(Queue(s)', ReqOf(id, g))
              = Count(Queue(s), ReqOf(id, g)) + Count(out[s], ReqOf(id, g))
<1>1. Queue(s) \in Seq(ServerEvent) /\ out[s] \in Seq(ServerEvent)
  BY QueueTypes
<1>2. Queue(s)' = Queue(s) \o out[s]
  BY ForwardQueue
<1>3. Count(Queue(s) \o out[s], ReqOf(id, g))
      = Count(Queue(s), ReqOf(id, g)) + Count(out[s], ReqOf(id, g))
  BY <1>1, CountConcat
<1> QED
  BY <1>1, <1>2, <1>3, CountType

\* The router passes on what is no request.
LEMMA PassCounted ==
    ASSUME IInv, NonePending, NEW c \in Ctx, c2r[c] # <<>>, c2r' = Received(c2r, c),
           ~ IsRequest(Head(c2r[c])),
           NEW out \in [Server -> Seq(ServerEvent)], Forward(out),
           \A s \in Server : \A e \in Elems(out[s]) : ~ IsRequest(e),
           NEW s \in Server, Counted(s), reqs' = reqs, applied' = applied
    PROVE  Counted(s)'
<1> SUFFICES ASSUME NEW t \in SetsAsked(s)
             PROVE  OnItsWay(s, t[1], t[2], t[3])' <=> OnItsWay(s, t[1], t[2], t[3])
  BY SameCounted
<1>1. PICK x, i, g : x = t[1] /\ i = t[2] /\ g = t[3]
  OBVIOUS
<1>2. x \in Ctx
  BY <1>1, SetsAskedType
<1>3. Count(c2r'[x], AskFor(i)) = Count(c2r[x], AskFor(i))
  BY <1>2, ReadAsk
<1>4. Count(out[s], ReqOf(<<x, i>>, g)) = 0
  <2>1. \A k \in 1 .. Len(out[s]) : out[s][k] \notin ReqOf(<<x, i>>, g)
    BY DEF ReqOf, Elems
  <2> QED
    BY <2>1, CountType
<1>5. Count(Queue(s)', ReqOf(<<x, i>>, g)) = Count(Queue(s), ReqOf(<<x, i>>, g))
  BY <1>4, ForwardCount
<1>6. OnItsWay(s, x, i, g)' <=> OnItsWay(s, x, i, g)
  BY <1>3, <1>5 DEF OnItsWay
<1> QED
  BY <1>1, <1>6 DEF OnItsWay

\* It sends a request to every device that it is for.
LEMMA RequestCounted ==
    ASSUME IInv, NonePending, MInv, NEW c \in Ctx, RtrCommReq(c),
           NEW s \in Server, Counted(s), reqs' = reqs, applied' = applied
    PROVE  Counted(s)'
<1>1. PICK ev, id, m, op : /\ ev = Head(c2r[c]) /\ id = <<c, ev.id>>
                           /\ m = ev.comm /\ op = ev.op
  OBVIOUS
<1>2. /\ c2r[c] # <<>> /\ IsRequest(ev) /\ c2r' = Received(c2r, c)
      /\ Forward(RequestEvents(m, op, id))
  BY <1>1 DEF RtrCommReq, Arrives, IsRequest
<1>3. m \in Comm /\ op \in Op /\ id \in InfoId
  BY <1>1, ClientEventType DEF RtrCommReq, InfoId, IInv, TypeOK
<1>4. OfRequest(id, m, op)
  BY <1>1, <1>2, ReadElems DEF MInv, MatchAsked
<1> SUFFICES ASSUME NEW t \in SetsAsked(s)
             PROVE  OnItsWay(s, t[1], t[2], t[3])' <=> OnItsWay(s, t[1], t[2], t[3])
  BY SameCounted
<1>5. PICK x, i, g : x = t[1] /\ i = t[2] /\ g = t[3]
  OBVIOUS
<1>6. /\ x \in Ctx /\ <<x, i>> \in InfoId /\ g \in Nat
      /\ g \in Lists(reqs[x][i].comm) /\ s \in Members[reqs[x][i].comm][g]
  BY <1>5, SetsAskedType
<1> DEFINE one == IF x = c /\ ev.id = i THEN 1 ELSE 0
<1>7. /\ Count(c2r[x], AskFor(i)) = Count(c2r'[x], AskFor(i)) + one
      /\ Count(c2r'[x], AskFor(i)) \in Nat
  BY <1>1, <1>2, <1>6, ReadAsk
<1>8. Count(RequestEvents(m, op, id)[s], ReqOf(<<x, i>>, g)) = one
  <2>1. Count(RequestEvents(m, op, id)[s], ReqOf(<<x, i>>, g))
        = IF <<x, i>> = id /\ g \in Lists(m) /\ s \in Members[m][g] THEN 1 ELSE 0
    BY <1>3, <1>6, RequestCount
  <2>2. <<x, i>> = id <=> x = c /\ ev.id = i
    BY <1>1
  <2>3. <<x, i>> = id => m = reqs[x][i].comm
    <3>1. reqs[id[1]][id[2]].comm = m
      BY <1>4 DEF OfRequest
    <3> QED
      BY <3>1
  <2> QED
    BY <1>6, <2>1, <2>2, <2>3
<1>9. /\ Count(Queue(s)', ReqOf(<<x, i>>, g)) = Count(Queue(s), ReqOf(<<x, i>>, g)) + one
      /\ Count(Queue(s), ReqOf(<<x, i>>, g)) \in Nat
  <2>1. RequestEvents(m, op, id) \in [Server -> Seq(ServerEvent)]
    BY <1>3, RequestEventsType
  <2> QED
    BY <1>2, <1>8, <2>1, ForwardCount
<1>10. one \in {0, 1}
  OBVIOUS
<1> HIDE DEF one
<1>11. \/ Count(c2r'[x], AskFor(i)) # 0
       \/ Count(Queue(s)', ReqOf(<<x, i>>, g)) # 0
       <=> \/ Count(c2r[x], AskFor(i)) # 0
           \/ Count(Queue(s), ReqOf(<<x, i>>, g)) # 0
  BY <1>7, <1>9, <1>10
<1> QED
  BY <1>5, <1>11 DEF OnItsWay

\* The server takes a request that is no set, or not one of this device.
LEMMA PlainCounted ==
    ASSUME IInv, MInv, NEW s \in Server, r2s[s] # <<>>, r2s' = Received(r2s, s),
           IsRequest(Head(r2s[s])) => Head(r2s[s]).op # "Set",
           pendingEvents' = pendingEvents, reqs' = reqs, c2r' = c2r, applied' = applied,
           NEW d \in Server, Counted(d)
    PROVE  Counted(d)'
<1> SUFFICES ASSUME NEW t \in SetsAsked(d)
             PROVE  OnItsWay(d, t[1], t[2], t[3])' <=> OnItsWay(d, t[1], t[2], t[3])
  BY SameCounted
<1>1. PICK x, i, g, ev : x = t[1] /\ i = t[2] /\ g = t[3] /\ ev = Head(r2s[s])
  OBVIOUS
<1>2. Count(Queue(d)', ReqOf(<<x, i>>, g)) = Count(Queue(d), ReqOf(<<x, i>>, g))
  <2>1. CASE d # s
    <3>1. Queue(d)' = Queue(d)
      BY <2>1, ReadRequest
    <3> QED
      BY <3>1
  <2>2. CASE d = s
    <3>1. ~ (IsRequest(ev) /\ ev.id = <<x, i>>)
      <4> SUFFICES ASSUME IsRequest(ev), ev.id = <<x, i>> PROVE FALSE
        OBVIOUS
      <4>1. ev \in Elems(Queue(s))
        <5>1. Queue(s) # <<>> /\ Head(Queue(s)) = ev /\ Queue(s) \in Seq(ServerEvent)
          BY <1>1, QueueHead, QueueTypes
        <5> QED
          BY <5>1, ElemsTail
      <4>2. OfRequest(ev.id, ev.comm, ev.op)
        BY <4>1 DEF MInv, MatchQueues
      <4>3. reqs[x][i].op = ev.op
        BY <4>2 DEF OfRequest
      <4>4. reqs[x][i].op = "Set"
        BY <1>1, SetsAskedType
      <4> QED
        BY <1>1, <4>3, <4>4
    <3>2. Count(Queue(s), ReqOf(<<x, i>>, g))
          = Count(Queue(s)', ReqOf(<<x, i>>, g))
            + (IF IsRequest(ev) /\ ev.id = <<x, i>> /\ ev.grp = g THEN 1 ELSE 0)
          /\ Count(Queue(s)', ReqOf(<<x, i>>, g)) \in Nat
      BY <1>1, ReadRequest
    <3> QED
      BY <2>2, <3>1, <3>2
  <2> QED
    BY <2>1, <2>2
<1> QED
  BY <1>1, <1>2 DEF OnItsWay

\* The set a server carries out was the one copy of one that was asked for.
LEMMA SetWasDue ==
    ASSUME IInv, EInv, FInv, MInv, NEW s \in Server, r2s[s] # <<>>, r2s' = Received(r2s, s),
           NEW ev, ev = Head(r2s[s]), IsRequest(ev), ev.op = "Set",
           pendingEvents' = pendingEvents, reqs' = reqs, c2r' = c2r
    PROVE  /\ <<ev.id[1], ev.id[2], ev.grp>> \in Due(s)
           /\ Due(s)' = Due(s) \ {<<ev.id[1], ev.id[2], ev.grp>>}
           /\ \A d \in Server \ {s} : Due(d)' = Due(d)
           /\ \A d \in Server : SetsAsked(d)' = SetsAsked(d)
<1>1. Queue(s) # <<>> /\ Head(Queue(s)) = ev /\ Queue(s) \in Seq(ServerEvent)
      /\ ev \in ServerEvent
  BY QueueHead, QueueTypes
<1>2. PICK id, g, m : id = ev.id /\ g = ev.grp /\ m = ev.comm
  OBVIOUS
<1>3. id \in InfoId /\ g \in Nat
  BY <1>1, <1>2 DEF ServerEvent, IsRequest
<1>4. PICK x, i : x = id[1] /\ i = id[2]
  OBVIOUS
<1>5. id = <<x, i>> /\ x \in Ctx /\ i \in Nat
  BY <1>3, <1>4 DEF InfoId, EventId
<1>6. OfRequest(id, m, "Set")
  <2>1. ev \in Elems(Queue(s))
    BY <1>1, ElemsTail
  <2> QED
    BY <1>2, <2>1 DEF MInv, MatchQueues
<1>7. i \in 1 .. Len(reqs[x]) /\ reqs[x][i].comm = m /\ reqs[x][i].op = "Set"
  BY <1>4, <1>6 DEF OfRequest
<1>8. x \in App
  BY <1>5, <1>7 DEF MInv, ServersRead, Ctx
<1>9. /\ Count(Queue(s), ReqOf(id, g)) = Count(Queue(s)', ReqOf(id, g)) + 1
      /\ Count(Queue(s)', ReqOf(id, g)) \in Nat /\ Count(Queue(s), ReqOf(id, g)) # 0
  <2>1. /\ Count(Queue(s), ReqOf(id, g))
           = Count(Queue(s)', ReqOf(id, g))
             + (IF IsRequest(ev) /\ ev.id = id /\ ev.grp = g THEN 1 ELSE 0)
        /\ Count(Queue(s)', ReqOf(id, g)) \in Nat
    BY ReadRequest
  <2> QED
    BY <1>2, <2>1
<1>10. Addressed(s, id, g) /\ Count(Queue(s)', ReqOf(id, g)) = 0
  <2>1. /\ Cardinality(Kept(s, id, g)) \in Nat /\ Count(s2r[s], RespOf(id, g)) \in Nat
    BY TotalTypes DEF FInv
  <2>2. Total(s, id, g) # 0 /\ Total(s, id, g) >= Count(Queue(s), ReqOf(id, g))
    BY <1>9, <2>1 DEF Total
  <2>3. Addressed(s, id, g)
    BY <1>3, <2>2, LiveCopy
  <2>4. Total(s, id, g) <= 1 /\ Total(s, id, g) \in Nat
    BY <1>3, <2>3, TotalTypes DEF FInv, Accounted
  <2> QED
    BY <1>9, <2>2, <2>3, <2>4
<1>11. id \in DOMAIN reqInfo /\ reqInfo[id].comm = m
       /\ g \in Lists(m) /\ s \in Members[m][g]
  <2>1. OfRequest(id, reqInfo[id].comm, reqInfo[id].op)
    BY <1>10 DEF Addressed, MInv, MatchInfos
  <2>2. reqInfo[id].comm = m
    BY <1>4, <1>7, <2>1 DEF OfRequest
  <2> QED
    BY <1>10, <2>2 DEF Addressed
<1>12. <<x, i, g>> \in SetsAsked(s)
  BY <1>7, <1>8, <1>11, SetsAskedIs
<1>13. Count(c2r[x], AskFor(i)) = 0
  <2>1. Count(c2r[x], AskFor(i)) + Held(x, i) + Count(r2c[x], AnswerTo(i)) = Wanted(x, i)
    BY <1>5, <1>7 DEF EInv, InOnePlace
  <2>2. Held(x, i) = 1 /\ Wanted(x, i) \in {0, 1}
    BY <1>5, <1>11 DEF Held, Wanted
  <2>3. Count(c2r[x], AskFor(i)) \in Nat /\ Count(r2c[x], AnswerTo(i)) \in Nat
    BY <1>5, PlaceCounts
  <2> QED
    BY <2>1, <2>2, <2>3
<1>14. \A d \in Server : SetsAsked(d)' = SetsAsked(d)
  BY SameAsked
<1>15. ASSUME NEW t \in SetsAsked(s)
       PROVE  OnItsWay(s, t[1], t[2], t[3])' <=>
                OnItsWay(s, t[1], t[2], t[3]) /\ t # <<x, i, g>>
  <2>1. PICK y, j, h : y = t[1] /\ j = t[2] /\ h = t[3]
    OBVIOUS
  <2>2. t = <<y, j, h>> /\ <<y, j>> \in InfoId
    BY <2>1, SetsAskedType
  <2>3. CASE t = <<x, i, g>>
    <3>1. y = x /\ j = i /\ h = g
      BY <2>2, <2>3
    <3> QED
      BY <1>5, <1>10, <1>13, <2>1, <2>3, <3>1 DEF OnItsWay
  <2>4. CASE t # <<x, i, g>>
    <3>1. ~ (id = <<y, j>> /\ g = h)
      BY <1>5, <2>2, <2>4
    <3>2. /\ Count(Queue(s), ReqOf(<<y, j>>, h))
             = Count(Queue(s)', ReqOf(<<y, j>>, h))
               + (IF IsRequest(ev) /\ ev.id = <<y, j>> /\ ev.grp = h THEN 1 ELSE 0)
          /\ Count(Queue(s)', ReqOf(<<y, j>>, h)) \in Nat
      BY ReadRequest
    <3>3. Count(Queue(s), ReqOf(<<y, j>>, h)) = Count(Queue(s)', ReqOf(<<y, j>>, h))
      BY <1>2, <3>1, <3>2
    <3> QED
      BY <2>1, <2>4, <3>3 DEF OnItsWay
  <2> QED
    BY <2>3, <2>4
<1>16. Due(s)' = Due(s) \ {<<x, i, g>>}
  BY <1>14, <1>15 DEF Due
<1>17. <<x, i, g>> \in Due(s)
  BY <1>5, <1>9, <1>12 DEF Due, OnItsWay
<1>18. ASSUME NEW d \in Server \ {s}
       PROVE  Due(d)' = Due(d)
  <2>1. Queue(d)' = Queue(d)
    BY ReadRequest
  <2> QED
    BY <1>14, <2>1 DEF Due, OnItsWay
<1> QED
  BY <1>2, <1>4, <1>14, <1>16, <1>17, <1>18

LEMMA LocalCounted ==
    ASSUME IInv, EInv, FInv, MInv, NEW s \in Server, SrvrReqLocal(s),
           pendingEvents' = pendingEvents, VInv
    PROVE  VInv'
<1>1. PICK ev : ev = Head(r2s[s])
  OBVIOUS
<1>2. PICK ok \in Outcomes(s) : ApplySet(s, ev.op, ok)
  BY <1>1 DEF SrvrReqLocal
<1>3. /\ r2s[s] # <<>> /\ r2s' = Received(r2s, s) /\ IsRequest(ev)
      /\ c2r' = c2r /\ reqs' = reqs
  BY <1>1 DEF SrvrReqLocal, Arrives, IsRequest, contextVars
<1>4. applied \in [Server -> Nat]
  BY DEF IInv, TypeOK, ServerTypeOK
<1>5. CASE ev.op # "Set"
  <2>1. applied' = applied
    BY <1>2, <1>5 DEF ApplySet
  <2> QED
    BY <1>1, <1>3, <1>5, <2>1, PlainCounted, PartiesAssumption DEF VInv
<1>6. CASE ev.op = "Set"
  <2>1. PICK t : t = <<ev.id[1], ev.id[2], ev.grp>>
    OBVIOUS
  <2>2. /\ t \in Due(s) /\ Due(s)' = Due(s) \ {t}
        /\ \A d \in Server \ {s} : Due(d)' = Due(d)
        /\ \A d \in Server : SetsAsked(d)' = SetsAsked(d)
    BY <1>1, <1>3, <1>6, <2>1, SetWasDue
  <2>3. /\ \A d \in Server \ {s} : applied'[d] = applied[d]
        /\ applied'[s] = applied[s] + 1 \/ applied'[s] = applied[s]
        /\ ok => applied'[s] = applied[s] + 1
    BY <1>2, <1>4, <1>6 DEF ApplySet
  <2> SUFFICES ASSUME NEW d \in Device PROVE Counted(d)'
    BY DEF VInv
  <2>4. d \in Server /\ Counted(d)
    BY PartiesAssumption DEF VInv
  <2>5. CASE d # s
    BY <2>2, <2>3, <2>4, <2>5 DEF Counted, Asked
  <2>6. CASE d = s
    <3>1. IsFiniteSet(SetsAsked(s)) /\ Due(s) \subseteq SetsAsked(s)
      BY <2>4, <2>6 DEF Counted, Due
    <3>2. IsFiniteSet(Due(s))
      BY <3>1, FS_Subset
    <3>3. Cardinality(Due(s) \ {t}) = Cardinality(Due(s)) - 1
          /\ Cardinality(Due(s) \ {t}) \in Nat /\ Cardinality(Due(s)) \in Nat
      BY <2>2, <3>2, FS_RemoveElement, FS_CardinalityType
    <3>4. PICK n \in Nat : n = Cardinality(Due(s))
      BY <3>3
    <3>5. PICK a \in Nat : a = applied[s]
      BY <1>4
    <3>6. PICK k \in Nat : k = Asked(s)
      BY <3>1, FS_CardinalityType DEF Asked
    <3>7. PICK b \in Nat : b = applied'[s] /\ (b = a \/ b = a + 1) /\ (ok => b = a + 1)
      BY <2>3, <3>5
    <3>8. Cardinality(Due(s))' = n - 1
      BY <2>2, <3>3, <3>4
    <3>9. Asked(s)' = k /\ IsFiniteSet(SetsAsked(s))'
      BY <2>2, <3>1, <3>6 DEF Asked
    <3>10. a + n <= k /\ (s \notin Flaky => a + n = k)
      BY <2>4, <2>6, <3>4, <3>5, <3>6 DEF Counted
    <3>11. s \notin Flaky => ok
      BY <2>6 DEF Outcomes
    <3>12. b + (n - 1) <= k /\ (s \notin Flaky => b + (n - 1) = k)
      BY <3>7, <3>10, <3>11
    <3> QED
      BY <2>6, <3>7, <3>8, <3>9, <3>12 DEF Counted
  <2> QED
    BY <2>5, <2>6
<1> QED
  BY <1>5, <1>6

\* Nothing happens to the requests, and none is carried out.
LEMMA QuietCounted ==
    ASSUME IInv, VInv, c2r' = c2r, reqs' = reqs, applied' = applied,
           \A s \in Server : Queue(s)' = Queue(s)
    PROVE  VInv'
<1> SUFFICES ASSUME NEW s \in Device, NEW t \in SetsAsked(s)
             PROVE  OnItsWay(s, t[1], t[2], t[3])' <=> OnItsWay(s, t[1], t[2], t[3])
  BY SameCounted DEF VInv
<1>1. s \in Server
  BY PartiesAssumption
<1> QED
  BY <1>1 DEF OnItsWay

\* A server with remote sources has no device.
LEMMA ForwardCounted ==
    ASSUME IInv, VInv, NEW s \in Server, SrvrReqForward(s), pendingEvents' = pendingEvents
    PROVE  VInv'
<1>1. r2s[s] # <<>> /\ r2s' = Received(r2s, s) /\ applied' = applied
  BY DEF SrvrReqForward, Arrives
<1>2. Nested[s] \in Comm /\ s \notin Device /\ s \in Ctx
  BY CommAssumption DEF SrvrReqForward, Forwards, Ctx
<1>3. PICK op \in Op : Issue(s, Nested[s], op)
  <2>1. Head(r2s[s]).op \in Op
    BY ServerEventType DEF IInv, TypeOK, SrvrReqForward
  <2> QED
    BY <2>1 DEF SrvrReqForward
<1>4. \A y \in Ctx \ {s} : reqs'[y] = reqs[y] /\ c2r'[y] = c2r[y]
  BY <1>2, <1>3, IssueMatches
<1>5. \A x \in App : x \in Ctx \ {s}
  BY PartiesAssumption DEF Ctx
<1>6. \A d \in Server \ {s} : Queue(d)' = Queue(d)
  BY <1>1, ReceivedQueue
<1> SUFFICES ASSUME NEW d \in Device, NEW t \in SetsAsked(d)
             PROVE  OnItsWay(d, t[1], t[2], t[3])' <=> OnItsWay(d, t[1], t[2], t[3])
  BY <1>1, <1>4, <1>5, SameCounted DEF VInv
<1>7. Queue(d)' = Queue(d)
  BY <1>2, <1>6, PartiesAssumption
<1>8. c2r'[t[1]] = c2r[t[1]]
  BY <1>4, <1>5, SetsAskedType
<1> QED
  BY <1>7, <1>8 DEF OnItsWay

\* A set that is asked for is on its way to every device it is for.
LEMMA SubmitCounted ==
    ASSUME IInv, VInv, NEW x \in App, NEW m \in Comm, NEW op \in Op, Submit(x, m, op),
           applied' = applied, \A s \in Server : Queue(s)' = Queue(s)
    PROVE  VInv'
<1>1. PICK id : id = Len(reqs[x]) + 1
  OBVIOUS
<1>2. x \in Ctx /\ Issue(x, m, op)
  BY DEF Ctx, Submit
<1>3. /\ Grows /\ OfRequest(<<x, id>>, m, op)' /\ Len(reqs'[x]) = id
      /\ id \notin 1 .. Len(reqs[x]) /\ id \in Nat
      /\ \A i \in 1 .. id : i \in 1 .. Len(reqs[x]) \/ i = id
      /\ \A y \in Ctx \ {x} : reqs'[y] = reqs[y] /\ c2r'[y] = c2r[y]
      /\ \A i : Count(c2r'[x], AskFor(i))
                = Count(c2r[x], AskFor(i)) + (IF i = id THEN 1 ELSE 0)
  BY <1>1, <1>2, IssueMatches
<1>4. /\ reqs'[x][id].comm = m /\ reqs'[x][id].op = op /\ id \in 1 .. Len(reqs'[x])
      /\ \A i \in 1 .. Len(reqs[x]) : i \in 1 .. Len(reqs'[x]) /\ reqs'[x][i] = reqs[x][i]
  BY <1>2, <1>3 DEF OfRequest, Grows
<1> SUFFICES ASSUME NEW s \in Device PROVE Counted(s)'
  BY DEF VInv
<1>5. s \in Server /\ Counted(s)
  BY PartiesAssumption DEF VInv
<1>6. PICK new : new = {<<x, id, g>> : g \in {h \in Lists(m) : op = "Set" /\ s \in Members[m][h]}}
  OBVIOUS
<1>7. IsFiniteSet(new)
  <2> DEFINE G == {h \in Lists(m) : op = "Set" /\ s \in Members[m][h]}
  <2>1. Len(Members[m]) \in Nat
    BY CommAssumption
  <2>2. IsFiniteSet(Lists(m))
    BY <2>1, FS_Interval DEF Lists
  <2>3. IsFiniteSet(G)
    BY <2>2, FS_Subset
  <2> DEFINE f == [h \in G |-> <<x, id, h>>]
  <2>4. f \in Surjection(G, new)
    BY <1>6 DEF Surjection
  <2> QED
    BY <2>3, <2>4, FS_Surjection, Zenon
<1>8. SetsAsked(s)' = SetsAsked(s) \cup new
  <2>1. ASSUME NEW t \in SetsAsked(s)
        PROVE  t \in SetsAsked(s)'
    <3>1. PICK y \in App : \E i \in 1 .. Len(reqs[y]) : \E g \in Lists(reqs[y][i].comm) :
             t = <<y, i, g>> /\ reqs[y][i].op = "Set" /\ s \in Members[reqs[y][i].comm][g]
      BY <2>1, SetsAskedIs
    <3>2. PICK i \in 1 .. Len(reqs[y]) : \E g \in Lists(reqs[y][i].comm) :
             t = <<y, i, g>> /\ reqs[y][i].op = "Set" /\ s \in Members[reqs[y][i].comm][g]
      BY <3>1
    <3>3. i \in 1 .. Len(reqs'[y]) /\ reqs'[y][i] = reqs[y][i]
      BY <1>3 DEF Grows, Ctx
    <3> QED
      BY <3>2, <3>3 DEF SetsAsked, SetsOf
  <2>2. ASSUME NEW t \in new
        PROVE  t \in SetsAsked(s)'
    BY <1>4, <1>6, <2>2 DEF SetsAsked, SetsOf
  <2>3. ASSUME NEW t \in SetsAsked(s)'
        PROVE  t \in SetsAsked(s) \/ t \in new
    <3>1. PICK y \in App : \E i \in 1 .. Len(reqs'[y]) : \E g \in Lists(reqs'[y][i].comm) :
             t = <<y, i, g>> /\ reqs'[y][i].op = "Set" /\ s \in Members[reqs'[y][i].comm][g]
      BY <2>3 DEF SetsAsked, SetsOf
    <3>2. PICK i \in 1 .. Len(reqs'[y]) : \E g \in Lists(reqs'[y][i].comm) :
             t = <<y, i, g>> /\ reqs'[y][i].op = "Set" /\ s \in Members[reqs'[y][i].comm][g]
      BY <3>1
    <3>3. y \in Ctx
      BY DEF Ctx
    <3>4. CASE y = x /\ i = id
      BY <1>4, <1>6, <3>2, <3>4
    <3>5. CASE ~ (y = x /\ i = id)
      <4>1. i \in 1 .. Len(reqs[y]) /\ reqs'[y][i] = reqs[y][i]
        BY <1>3, <1>4, <3>3, <3>5
      <4> QED
        BY <3>2, <4>1, SetsAskedIs
    <3> QED
      BY <3>4, <3>5
  <2> QED
    BY <2>1, <2>2, <2>3
<1>9. \A t \in SetsAsked(s) : t \notin new
  BY <1>3, <1>6, SetsAskedType
<1>10. Due(s)' = Due(s) \cup new
  <2>1. ASSUME NEW t \in SetsAsked(s)
        PROVE  OnItsWay(s, t[1], t[2], t[3])' <=> OnItsWay(s, t[1], t[2], t[3])
    <3>1. PICK y, i, g : y = t[1] /\ i = t[2] /\ g = t[3]
      OBVIOUS
    <3>2. y \in Ctx /\ i \in 1 .. Len(reqs[y])
      BY <3>1, SetsAskedType
    <3>3. Count(c2r'[y], AskFor(i)) = Count(c2r[y], AskFor(i))
      <4>1. CASE y # x
        BY <1>3, <3>2, <4>1
      <4>2. CASE y = x
        <5>1. i # id
          BY <1>3, <3>2, <4>2
        <5>2. Count(c2r[x], AskFor(i)) \in Nat
          BY <1>2, PlaceCounts
        <5> QED
          BY <1>3, <4>2, <5>1, <5>2
      <4> QED
        BY <4>1, <4>2
    <3> QED
      BY <1>5, <3>1, <3>3 DEF OnItsWay
  <2>2. ASSUME NEW t \in new
        PROVE  OnItsWay(s, t[1], t[2], t[3])'
    <3>1. t[1] = x /\ t[2] = id
      BY <1>6
    <3>2. Count(c2r'[x], AskFor(id)) # 0
      <4>1. PICK n \in Nat : n = Count(c2r[x], AskFor(id))
        BY <1>2, PlaceCounts
      <4>2. n + 1 # 0
        OBVIOUS
      <4> QED
        BY <1>3, <4>1, <4>2
    <3> QED
      BY <3>1, <3>2 DEF OnItsWay
  <2> QED
    BY <1>8, <2>1, <2>2 DEF Due
<1>11. PICK a, n, k, j \in Nat :
         /\ a = applied[s] /\ n = Cardinality(Due(s)) /\ k = Asked(s) /\ j = Cardinality(new)
         /\ Cardinality(Due(s) \cup new) = n + j
         /\ Cardinality(SetsAsked(s) \cup new) = k + j
         /\ IsFiniteSet(SetsAsked(s) \cup new)
  <2>1. IsFiniteSet(SetsAsked(s)) /\ Due(s) \subseteq SetsAsked(s)
    BY <1>5 DEF Counted, Due
  <2>2. IsFiniteSet(Due(s))
    BY <2>1, FS_Subset
  <2>3. SetsAsked(s) \cap new = {} /\ Due(s) \cap new = {}
    BY <1>9, <2>1
  <2>4. Cardinality({}) = 0
    BY FS_EmptySet
  <2>5. /\ IsFiniteSet(SetsAsked(s) \cup new)
        /\ Cardinality(SetsAsked(s) \cup new)
           = Cardinality(SetsAsked(s)) + Cardinality(new) - Cardinality(SetsAsked(s) \cap new)
    BY <1>7, <2>1, FS_Union, Zenon
  <2>6. Cardinality(Due(s) \cup new)
        = Cardinality(Due(s)) + Cardinality(new) - Cardinality(Due(s) \cap new)
    BY <1>7, <2>2, FS_Union, Zenon
  <2>7. /\ Cardinality(SetsAsked(s)) \in Nat /\ Cardinality(Due(s)) \in Nat
        /\ Cardinality(new) \in Nat
    BY <1>7, <2>1, <2>2, FS_CardinalityType
  <2>8. applied[s] \in Nat
    BY <1>5 DEF IInv, TypeOK, ServerTypeOK
  <2>9. \A u, v \in Nat : u + v - 0 = u + v
    OBVIOUS
  <2>10. PICK a, n, k, j \in Nat :
           a = applied[s] /\ n = Cardinality(Due(s)) /\ k = Asked(s) /\ j = Cardinality(new)
    BY <2>7, <2>8 DEF Asked
  <2>11. Cardinality(Due(s) \cup new) = n + j
    <3>1. Cardinality(Due(s) \cup new) = n + j - 0
      BY <2>3, <2>4, <2>6, <2>10
    <3> QED
      BY <2>9, <3>1
  <2>12. Cardinality(SetsAsked(s) \cup new) = k + j
    <3>1. Cardinality(SetsAsked(s) \cup new) = k + j - 0
      BY <2>3, <2>4, <2>5, <2>10 DEF Asked
    <3> QED
      BY <2>9, <3>1
  <2> QED
    BY <2>5, <2>10, <2>11, <2>12
<1>12. a + n <= k /\ (s \notin Flaky => a + n = k)
  BY <1>5, <1>11 DEF Counted
<1>13. a + (n + j) <= k + j /\ (s \notin Flaky => a + (n + j) = k + j)
  BY <1>12
<1> QED
  BY <1>8, <1>10, <1>11, <1>13 DEF Counted, Asked

LEMMA AppCounted ==
    ASSUME IInv, VInv, NEW x \in App, AppCall(x) \/ AppRun(x)
    PROVE  VInv'
<1>1. /\ applied' = applied /\ r2s' = r2s /\ pendingEvents' = pendingEvents /\ x \in Ctx
  BY DEF AppCall, AppRun, routerVars, serverVars, Ctx
<1>2. \A s \in Server : Queue(s)' = Queue(s)
  BY <1>1 DEF Queue
<1>3. CASE \E m \in Comm, op \in Op : Submit(x, m, op)
  BY <1>1, <1>2, <1>3, SubmitCounted
<1>4. CASE Close(x)
  <2>1. c2r' = [c2r EXCEPT ![x] = Append(@, Eof)] /\ reqs' = reqs
    BY <1>4 DEF Close, Sent, contextVars
  <2>2. c2r \in [Ctx -> Seq(ClientEvent)] /\ c2r[x] \in Seq(ClientEvent)
    BY <1>1, PlaceTypes
  <2>3. c2r'[x] = Append(c2r[x], Eof) /\ \A y \in Ctx \ {x} : c2r'[y] = c2r[y]
    BY <1>1, <2>1, <2>2
  <2>4. Eof \in ClientEvent /\ \A i : Eof \notin AskFor(i)
    BY DEF ClientEvent, Eof, IsRequest, AskFor
  <2>5. \A i : Count(c2r'[x], AskFor(i)) = Count(c2r[x], AskFor(i))
    <3>1. \A i : Count(Append(c2r[x], Eof), AskFor(i)) = Count(c2r[x], AskFor(i)) + 0
      BY <2>2, <2>4, CountAppend
    <3> QED
      BY <1>1, <2>3, <3>1, PlaceCounts
  <2> SUFFICES ASSUME NEW s \in Device, NEW t \in SetsAsked(s)
               PROVE  OnItsWay(s, t[1], t[2], t[3])' <=> OnItsWay(s, t[1], t[2], t[3])
    BY <1>1, <2>1, SameCounted DEF VInv
  <2>6. t[1] \in Ctx /\ s \in Server
    BY SetsAskedType, PartiesAssumption
  <2>7. Count(c2r'[t[1]], AskFor(t[2])) = Count(c2r[t[1]], AskFor(t[2]))
    BY <2>3, <2>5, <2>6
  <2> QED
    BY <1>2, <2>6, <2>7 DEF OnItsWay
<1>5. CASE WaitEvent(x) \/ WaitReturn(x) \/ MakeProgress(x) \/ \E i \in Ids : Wait(x, i)
  <2>1. c2r' = c2r /\ reqs' = reqs
    BY <1>5 DEF WaitEvent, WaitReturn, MakeProgress, Wait, Consume, contextVars
  <2> QED
    BY <1>1, <1>2, <2>1, QuietCounted
<1> QED
  BY <1>3, <1>4, <1>5 DEF AppCall, AppRun

LEMMA ServerCounted ==
    ASSUME IInv, EInv, FInv, MInv, VInv, NEW s \in Server, ServerStep(s)
    PROVE  VInv'
<1>1. pendingEvents' = pendingEvents
  BY DEF ServerStep, routerVars
<1>2. CASE ServerStart(s) \/ SrvrMakeProgress(s)
  <2>1. c2r' = c2r /\ reqs' = reqs /\ r2s' = r2s /\ applied' = applied
    BY <1>2 DEF ServerStart, SrvrMakeProgress, Consume, contextVars
  <2>2. \A t \in Server : Queue(t)' = Queue(t)
    BY <1>1, <2>1 DEF Queue
  <2> QED
    BY <2>1, <2>2, QuietCounted
<1>3. CASE SrvrCommCreate(s) \/ SrvrCommDestroy(s)
  <2>1. /\ c2r' = c2r /\ reqs' = reqs /\ r2s[s] # <<>> /\ r2s' = Received(r2s, s)
        /\ applied' = applied /\ ~ IsRequest(Head(r2s[s]))
    BY <1>3 DEF SrvrCommCreate, SrvrCommDestroy, Arrives, contextVars, IsRequest
  <2> QED
    BY <1>1, <2>1, PlainCounted, PartiesAssumption DEF VInv
<1> QED
  BY <1>1, <1>2, <1>3, LocalCounted, ForwardCounted DEF ServerStep

LEMMA RouterCounted ==
    ASSUME IInv, NonePending, MInv, VInv, RouterStep
    PROVE  VInv'
<1>1. reqs' = reqs /\ applied' = applied
  BY DEF RouterStep, contextVars, serverVars
<1>2. ChannelTypeOK /\ clientComms \in [Ctx -> SUBSET Comm]
  BY DEF IInv, TypeOK, RouterTypeOK
<1>3. ASSUME NEW c \in Ctx, RtrCommCreate(c)
      PROVE  VInv'
  <2>1. PICK m : m = Head(c2r[c]).comm
    OBVIOUS
  <2>2. /\ c2r[c] # <<>> /\ c2r' = Received(c2r, c) /\ Forward(CreateEvents(m))
        /\ ~ IsRequest(Head(c2r[c]))
    BY <1>3, <2>1 DEF RtrCommCreate, Arrives, IsRequest
  <2>3. m \in Comm
    BY <1>2, <1>3, <2>1, ClientEventType DEF RtrCommCreate
  <2>4. CreateEvents(m) \in [Server -> Seq(ServerEvent)]
        /\ \A s \in Server : \A e \in Elems(CreateEvents(m)[s]) : ~ IsRequest(e)
    BY <2>3, CreateEventsType, CreateNoRequest DEF Elems
  <2> QED
    BY <1>1, <2>2, <2>4, PassCounted, PartiesAssumption DEF VInv
<1>4. ASSUME NEW c \in Ctx, RtrClientClosed(c)
      PROVE  VInv'
  <2>1. /\ c2r[c] # <<>> /\ c2r' = Received(c2r, c) /\ Forward(DestroyEvents(c))
        /\ ~ IsRequest(Head(c2r[c]))
    BY <1>4 DEF RtrClientClosed, Arrives, IsRequest
  <2>2. DestroyEvents(c) \in [Server -> Seq(ServerEvent)]
        /\ \A s \in Server : \A e \in Elems(DestroyEvents(c)[s]) : ~ IsRequest(e)
    BY <1>2, DestroyEventsType, DestroyNoRequest DEF Elems
  <2> QED
    BY <1>1, <2>1, <2>2, PassCounted, PartiesAssumption DEF VInv
<1>5. ASSUME NEW c \in Ctx, RtrCommReq(c)
      PROVE  VInv'
  BY <1>1, <1>5, RequestCounted, PartiesAssumption DEF VInv
<1>6. ASSUME NEW s \in Server,
             RtrServerConnect(s) \/ RtrRespQueue(s) \/ RtrRespSend(s)
      PROVE  VInv'
  <2>1. c2r' = c2r
    BY <1>6 DEF RtrServerConnect, RtrRespQueue, RtrRespSend
  <2>2. \A t \in Server : Queue(t)' = Queue(t)
    <3>1. CASE RtrServerConnect(s)
      BY <3>1, ConnectQueue
    <3>2. CASE RtrRespQueue(s) \/ RtrRespSend(s)
      BY <3>2 DEF RtrRespQueue, RtrRespSend, Queue
    <3> QED
      BY <1>6, <3>1, <3>2
  <2> QED
    BY <1>1, <2>1, <2>2, QuietCounted
<1> QED
  BY <1>3, <1>4, <1>5, <1>6 DEF RouterStep

LEMMA NextCounted == IInv /\ OInv /\ EInv /\ FInv /\ MInv /\ VInv /\ [Next]_vars => VInv'
<1> SUFFICES ASSUME IInv, OInv, EInv, FInv, MInv, VInv, [Next]_vars PROVE VInv'
  OBVIOUS
<1>1. CASE UNCHANGED vars
  <2>1. /\ c2r' = c2r /\ reqs' = reqs /\ applied' = applied
        /\ r2s' = r2s /\ pendingEvents' = pendingEvents
    BY <1>1 DEF vars, channels, contextVars, serverVars, routerVars
  <2>2. \A s \in Server : Queue(s)' = Queue(s)
    BY <2>1 DEF Queue
  <2> QED
    BY <2>1, <2>2, QuietCounted
<1> QED
  BY <1>1, RouterCounted, ServerCounted, AppCounted DEF Next, OInv

LEMMA InitCounted == Init => VInv
<1> SUFFICES ASSUME Init, NEW s \in Device PROVE Counted(s)
  BY DEF VInv
<1>1. applied[s] = 0 /\ \A x \in App : reqs[x] = <<>>
  BY PartiesAssumption DEF Init, ContextInit, ServerInit, Ctx
<1>2. SetsAsked(s) = {}
  BY <1>1, EmptySeq DEF SetsAsked, SetsOf
<1>3. Due(s) = {}
  BY <1>2 DEF Due
<1> QED
  BY <1>1, <1>2, <1>3, FS_EmptySet DEF Counted, Asked

-----------------------------------------------------------------------------
\* Each device is set once for every request to set it that was made, and not
\* before (distObject.cc, attrSetValues; commReqEvent.h; server.cc, commReq).
THEOREM SetOnceOnDevices == Spec => []SetExactlyOnce
<1>1. IInv /\ EInv /\ FInv /\ VInv => SetExactlyOnce
  <2> SUFFICES ASSUME IInv, EInv, FInv, VInv, NEW s \in Device
               PROVE  /\ applied[s] <= Asked(s)
                      /\ (s \notin Flaky /\ \A x \in App : commReqs[x] = {})
                           => applied[s] = Asked(s)
    BY DEF SetExactlyOnce
  <2>1. Counted(s) /\ s \in Server
    BY PartiesAssumption DEF VInv
  <2>2. IsFiniteSet(Due(s)) /\ IsFiniteSet(SetsAsked(s))
    BY <2>1, FS_Subset DEF Counted, Due
  <2>3. PICK a, n, k \in Nat : a = applied[s] /\ n = Cardinality(Due(s)) /\ k = Asked(s)
    BY <2>1, <2>2, FS_CardinalityType DEF Asked, IInv, TypeOK, ServerTypeOK
  <2>4. a + n <= k /\ (s \notin Flaky => a + n = k)
    BY <2>1, <2>3 DEF Counted
  <2>5. a <= k /\ (s \notin Flaky /\ n = 0 => a = k)
    BY <2>4
  <2>6. ASSUME \A x \in App : commReqs[x] = {}
        PROVE  Due(s) = {}
    <3> SUFFICES ASSUME NEW t \in Due(s) PROVE FALSE
      OBVIOUS
    <3>1. PICK x, i, g : x = t[1] /\ i = t[2] /\ g = t[3]
      OBVIOUS
    <3>2. x \in App /\ x \in Ctx /\ i \in 1 .. Len(reqs[x]) /\ <<x, i>> \in InfoId /\ g \in Nat
      BY <3>1, SetsAskedType DEF Due
    <3>3. commReqs[x] = {}
      BY <2>6, <3>2
    <3>4. Count(c2r[x], AskFor(i)) = 0
      <4>1. Count(c2r[x], AskFor(i)) + Held(x, i) + Count(r2c[x], AnswerTo(i)) = 0
        BY <3>2, <3>3 DEF EInv, InOnePlace, Wanted
      <4>2. /\ Count(c2r[x], AskFor(i)) \in Nat /\ Count(r2c[x], AnswerTo(i)) \in Nat
            /\ Held(x, i) \in Nat
        BY <3>2, PlaceCounts DEF Held
      <4> QED
        BY <4>1, <4>2
    <3>5. Count(Queue(s), ReqOf(<<x, i>>, g)) # 0
      BY <3>1, <3>4 DEF Due, OnItsWay
    <3>6. Total(s, <<x, i>>, g) # 0
      BY <2>1, <3>5, TotalTypes DEF FInv, Total
    <3>7. commReqs[x] # {}
      BY <2>1, <3>2, <3>6, LiveCopy
    <3> QED
      BY <3>3, <3>7
  <2>7. (\A x \in App : commReqs[x] = {}) => n = 0
    BY <2>3, <2>6, FS_EmptySet
  <2> QED
    BY <2>3, <2>5, <2>7
<1> QED
  BY <1>1, InitIInv, NextIInv, InitOrder, NextOrder, InitPlaces, NextPlaces,
     InitFanOut, NextFanOut, InitMatches, NextMatches, InitCounted, NextCounted,
     PTL DEF Spec

-----------------------------------------------------------------------------
(***************************************************************************)
(* What an application reads, for every topology: the values on their way  *)
(* up are those of the devices they come from, the router's sums those of  *)
(* the objects that have answered, and so an answer is the sum over the    *)
(* devices its object stands for.                                          *)
(*                                                                         *)
(* Contribution is defined by recursion over the nesting of the servers,   *)
(* and its sums by a fold.  Both are shown here to be what they look like. *)
(***************************************************************************)

\* The sum over a set, as Daemon writes it.
Sum(C, d, S) == MapThenSumSet(LAMBDA t : C[t][d], S)

\* It is a number of elements: each member has as many as it adds.
Units(C, d, S) == {u \in S \X Nat : 1 <= u[2] /\ u[2] <= C[u[1]][d]}
Size(C, d, S) == Cardinality(Units(C, d, S))

\* Another member brings its own elements.
LEMMA UnitsStep ==
    ASSUME NEW C, NEW d, NEW S, NEW x, x \notin S, C[x][d] \in Nat,
           IsFiniteSet(Units(C, d, S))
    PROVE  /\ IsFiniteSet(Units(C, d, S \cup {x}))
           /\ Size(C, d, S \cup {x}) = Size(C, d, S) + C[x][d]
           /\ Size(C, d, S) \in Nat
<1>1. PICK n \in Nat : n = C[x][d]
  OBVIOUS
<1>2. PICK N : N = {x} \X (1 .. n)
  OBVIOUS
<1>3. Units(C, d, S \cup {x}) = Units(C, d, S) \cup N
  BY <1>1, <1>2 DEF Units
<1>4. Units(C, d, S) \cap N = {}
  BY <1>2 DEF Units
<1>5. IsFiniteSet(N) /\ Cardinality(N) = n
  <2>1. IsFiniteSet({x}) /\ Cardinality({x}) = 1
    BY FS_Singleton
  <2>2. IsFiniteSet(1 .. n) /\ Cardinality(1 .. n) = n
    <3>1. IsFiniteSet(1 .. n) /\ Cardinality(1 .. n) = IF 1 > n THEN 0 ELSE n - 1 + 1
      BY FS_Interval
    <3> QED
      BY <3>1
  <2>3. IsFiniteSet(N) /\ Cardinality(N) = Cardinality({x}) * Cardinality(1 .. n)
    BY <1>2, <2>1, <2>2, FS_Product, Zenon
  <2> QED
    BY <2>1, <2>2, <2>3
<1>6. PICK U : U = Units(C, d, S)
  OBVIOUS
<1>7. IsFiniteSet(U) /\ Cardinality(U) \in Nat
  BY <1>6, FS_CardinalityType
<1>8. /\ IsFiniteSet(U \cup N)
      /\ Cardinality(U \cup N) = Cardinality(U) + Cardinality(N) - Cardinality(U \cap N)
  BY <1>5, <1>7, FS_Union, Zenon
<1>9. Cardinality(U \cap N) = 0
  BY <1>4, <1>6, FS_EmptySet
<1>10. Cardinality(U \cup N) = Cardinality(U) + n
  BY <1>5, <1>7, <1>8, <1>9
<1>11. Size(C, d, S \cup {x}) = Cardinality(U) + n /\ Size(C, d, S) = Cardinality(U)
  BY <1>3, <1>6, <1>10 DEF Size
<1> QED
  BY <1>1, <1>3, <1>6, <1>7, <1>8, <1>11

\* Induction over a finite set: of the subsets with some property one has it and
\* loses it with any element that is taken out.
LEMMA SmallestSet ==
    ASSUME NEW S, IsFiniteSet(S), NEW T, T \subseteq SUBSET S, T # {}
    PROVE  \E s \in T : \A x \in s : s \ {x} \notin T
<1>1. IsWellFoundedOn(StrictSubsetOrdering(S), SUBSET S)
  BY FS_StrictSubsetOrderingWellFounded, FS_FiniteSubsetsOfFinite
<1>2. PICK s \in T : \A t \in T : ~ (<<t, s>> \in StrictSubsetOrdering(S))
  BY <1>1, WFMin, Zenon
<1>3. ASSUME NEW x \in s, s \ {x} \in T
      PROVE  FALSE
  <2>1. <<s \ {x}, s>> \in StrictSubsetOrdering(S)
    BY <1>3 DEF StrictSubsetOrdering
  <2> QED
    BY <1>2, <1>3, <2>1
<1> QED
  BY <1>2, <1>3

\* So a sum over a finite set is a number ...
LEMMA UnitsFinite ==
    ASSUME NEW C, NEW d, NEW S, IsFiniteSet(S), \A t \in S : C[t][d] \in Nat
    PROVE  IsFiniteSet(Units(C, d, S))
<1> DEFINE T == {s \in SUBSET S : ~ IsFiniteSet(Units(C, d, s))}
<1>1. T \subseteq SUBSET S /\ \A s \in SUBSET S : s \in T <=> ~ IsFiniteSet(Units(C, d, s))
  OBVIOUS
<1> HIDE DEF T
<1>2. ASSUME T # {}
      PROVE  FALSE
  <2>1. PICK s \in T : \A x \in s : s \ {x} \notin T
    BY <1>1, <1>2, SmallestSet, Zenon
  <2>2. s # {}
    <3>1. Units(C, d, {}) = {}
      BY DEF Units
    <3> QED
      BY <1>1, <2>1, <3>1, FS_EmptySet
  <2>3. PICK x \in s : TRUE
    BY <2>2
  <2>4. PICK r : r = s \ {x}
    OBVIOUS
  <2>5. IsFiniteSet(Units(C, d, r)) /\ s = r \cup {x} /\ x \notin r /\ C[x][d] \in Nat
    BY <1>1, <2>1, <2>3, <2>4
  <2>6. IsFiniteSet(Units(C, d, r \cup {x}))
    BY <2>5, UnitsStep, Zenon
  <2> QED
    BY <1>1, <2>1, <2>5, <2>6
<1> QED
  BY <1>1, <1>2

\* ... which is what the fold counts: both satisfy its equation, and one
\* function does.
LEMMA SumIsSize ==
    ASSUME NEW C, NEW d, NEW S, IsFiniteSet(S), \A t \in S : C[t][d] \in Nat
    PROVE  Sum(C, d, S) = Size(C, d, S)
<1> DEFINE Rhs(f) == [s \in SUBSET S |->
                        IF s = {} THEN 0
                        ELSE C[CHOOSE x \in s : TRUE][d] + f[s \ {CHOOSE x \in s : TRUE}]]
           size == [s \in SUBSET S |-> Size(C, d, s)]
           iter == CHOOSE f : f = Rhs(f)
<1>1. Sum(C, d, S) = iter[S]
  BY DEF Sum, MapThenSumSet, MapThenFoldSet
<1>2. size = Rhs(size)
  <2> SUFFICES ASSUME NEW s \in SUBSET S
               PROVE  Size(C, d, s) =
                        IF s = {} THEN 0
                        ELSE C[CHOOSE x \in s : TRUE][d] + size[s \ {CHOOSE x \in s : TRUE}]
    OBVIOUS
  <2>1. CASE s = {}
    <3>1. Units(C, d, {}) = {}
      BY DEF Units
    <3> QED
      BY <2>1, <3>1, FS_EmptySet DEF Size
  <2>2. CASE s # {}
    <3> DEFINE y == CHOOSE x \in s : TRUE
    <3>1. y \in s
      BY <2>2
    <3> HIDE DEF y
    <3>2. PICK r : r = s \ {y}
      OBVIOUS
    <3>3. /\ r \in SUBSET S /\ IsFiniteSet(r) /\ s = r \cup {y} /\ y \notin r
          /\ C[y][d] \in Nat /\ \A t \in r : C[t][d] \in Nat
      BY <3>1, <3>2, FS_Subset
    <3>4. IsFiniteSet(Units(C, d, r))
      BY <3>3, UnitsFinite
    <3>5. Size(C, d, r \cup {y}) = Size(C, d, r) + C[y][d] /\ Size(C, d, r) \in Nat
      BY <3>3, <3>4, UnitsStep, Zenon
    <3>6. Size(C, d, s) = C[y][d] + size[s \ {y}]
      <4>1. size[s \ {y}] = Size(C, d, r)
        BY <3>2, <3>3
      <4>2. Size(C, d, s) = Size(C, d, r) + C[y][d]
        BY <3>3, <3>5
      <4> QED
        BY <3>3, <3>5, <4>1, <4>2
    <3> QED
      BY <2>2, <3>6 DEF y
  <2> QED
    BY <2>1, <2>2
<1>3. iter = Rhs(iter)
  <2>1. \E f : f = Rhs(f)
    BY <1>2
  <2> QED
    BY <2>1
<1>4. ASSUME NEW f, f = Rhs(f)
      PROVE  f = size
  <2> DEFINE T == {s \in SUBSET S : f[s] # size[s]}
  <2>0. T \subseteq SUBSET S /\ \A s \in SUBSET S : s \in T <=> f[s] # size[s]
    OBVIOUS
  <2> HIDE DEF T
  <2>1. ASSUME T # {}
        PROVE FALSE
    <3>1. PICK s \in T : \A x \in s : s \ {x} \notin T
      BY <2>0, <2>1, SmallestSet, Zenon
    <3>2. f[s] = IF s = {} THEN 0
                        ELSE C[CHOOSE x \in s : TRUE][d] + f[s \ {CHOOSE x \in s : TRUE}]
      BY <1>4, <2>0, <3>1
    <3>3. size[s] = IF s = {} THEN 0
                        ELSE C[CHOOSE x \in s : TRUE][d] + size[s \ {CHOOSE x \in s : TRUE}]
      BY <1>2, <2>0, <3>1
    <3>4. s # {} /\ s \in SUBSET S
      BY <2>0, <3>1, <3>2, <3>3
    <3> DEFINE y == CHOOSE x \in s : TRUE
    <3>5. y \in s
      BY <3>4
    <3> HIDE DEF y, size
    <3>6. f[s \ {y}] = size[s \ {y}]
      BY <2>0, <3>1, <3>4, <3>5
    <3> QED
      BY <2>0, <3>1, <3>2, <3>3, <3>4, <3>6 DEF y
  <2>2. f = [s \in SUBSET S |-> f[s]]
    BY <1>4
  <2>3. \A s \in SUBSET S : f[s] = size[s]
    BY <2>0, <2>1
  <2> QED
    BY <2>2, <2>3
<1>5. iter = size
  BY <1>3, <1>4
<1> QED
  BY <1>1, <1>5

-----------------------------------------------------------------------------
(* What a server contributes.                                              *)
SumOver(T) == [d \in Server |-> Sum(Contribution, d, T)]

\* The equation of Contribution.
Share(f, s) ==
    IF Nested[s] = NoComm
    THEN IF s \in Device THEN Reading(s) ELSE Zero
    ELSE [d \in Server |-> Sum(f, d, Members[Nested[s]][1])]

LEMMA SumType ==
    ASSUME NEW C, NEW d, NEW S, IsFiniteSet(S), \A t \in S : C[t][d] \in Nat
    PROVE  Sum(C, d, S) \in Nat
  BY SumIsSize, UnitsFinite, FS_CardinalityType DEF Size

\* A sum is of what is summed.
LEMMA SumSame ==
    ASSUME NEW f, NEW g, NEW d, NEW S, IsFiniteSet(S),
           \A t \in S : f[t] = g[t] /\ f[t][d] \in Nat
    PROVE  Sum(f, d, S) = Sum(g, d, S)
<1>1. Units(f, d, S) = Units(g, d, S)
  BY DEF Units
<1>2. \A t \in S : g[t][d] \in Nat
  OBVIOUS
<1> QED
  BY <1>1, <1>2, SumIsSize DEF Size

\* A server with remote sources has one list of them and no device.
LEMMA SourcesOf ==
    ASSUME NEW s \in Server, Nested[s] # NoComm
    PROVE  /\ Nested[s] \in Comm /\ Lists(Nested[s]) = {1} /\ s \notin Device
           /\ Members[Nested[s]][1] \subseteq Server /\ IsFiniteSet(Members[Nested[s]][1])
<1>1. Nested[s] \in Comm /\ Len(Members[Nested[s]]) = 1 /\ s \notin Device
  BY CommAssumption
<1>2. Lists(Nested[s]) = {1}
  BY <1>1 DEF Lists
<1> QED
  BY <1>1, <1>2, ListSize

\* What a device contributes, and what nothing does.
LEMMA LeafType ==
    ASSUME NEW s \in Server
    PROVE  Zero \in Value /\ Reading(s) \in Value
           /\ \A d \in Server : Zero[d] = 0 /\ Reading(s)[d] = IF d = s THEN 1 ELSE 0
  BY DEF Zero, Reading, Value

\* The share of a server is a value if those of its sources are.
LEMMA ShareType ==
    ASSUME NEW f, NEW s \in Server,
           Nested[s] # NoComm => \A t \in Members[Nested[s]][1] : f[t] \in Value
    PROVE  Share(f, s) \in Value
<1>1. CASE Nested[s] = NoComm
  BY <1>1, LeafType DEF Share
<1>2. CASE Nested[s] # NoComm
  <2>1. \A d \in Server : \A t \in Members[Nested[s]][1] : f[t][d] \in Nat
    BY <1>2 DEF Value
  <2>2. \A d \in Server : Sum(f, d, Members[Nested[s]][1]) \in Nat
    BY <1>2, <2>1, SourcesOf, SumType
  <2> QED
    BY <1>2, <2>2 DEF Share, Value
<1> QED
  BY <1>1, <1>2

\* It depends on those of its sources only.
LEMMA ShareSame ==
    ASSUME NEW f, NEW g, NEW s \in Server,
           Nested[s] # NoComm =>
               \A t \in Members[Nested[s]][1] : f[t] = g[t] /\ f[t] \in Value
    PROVE  Share(f, s) = Share(g, s)
<1>1. CASE Nested[s] = NoComm
  BY <1>1 DEF Share
<1>2. CASE Nested[s] # NoComm
  <2>1. \A d \in Server : \A t \in Members[Nested[s]][1] : f[t] = g[t] /\ f[t][d] \in Nat
    BY <1>2 DEF Value
  <2>2. \A d \in Server :
            Sum(f, d, Members[Nested[s]][1]) = Sum(g, d, Members[Nested[s]][1])
    BY <1>2, <2>1, SourcesOf, SumSame
  <2> QED
    BY <1>2, <2>2 DEF Share
<1> QED
  BY <1>1, <1>2

\* What is left when as many servers as possible have their share: of a set of
\* servers that all wait for others one waits for none of the set.
Solved(f, R) ==
    \A s \in Server \ R :
        /\ f[s] = Share(f, s)
        /\ Nested[s] # NoComm => Members[Nested[s]][1] \cap R = {}

\* There are shares that satisfy the equation.
LEMMA SharesExist == \E f \in [Server -> Value] : \A s \in Server : f[s] = Share(f, s)
<1> DEFINE T == {R \in SUBSET Server : \E f \in [Server -> Value] : Solved(f, R)}
<1>1. T \subseteq SUBSET Server
      /\ \A R \in SUBSET Server : R \in T <=> \E f \in [Server -> Value] : Solved(f, R)
  OBVIOUS
<1> HIDE DEF T
<1>2. Server \in T
  <2>1. [s \in Server |-> Zero] \in [Server -> Value]
    BY DEF Zero, Value
  <2> QED
    BY <1>1, <2>1 DEF Solved
<1>3. PICK R \in T : \A s \in R : R \ {s} \notin T
  BY <1>1, <1>2, SmallestSet, PartiesAssumption, Zenon
<1>4. PICK f \in [Server -> Value] : Solved(f, R)
  BY <1>1, <1>3
<1>5. ASSUME R # {}
      PROVE  FALSE
  <2>1. R \in SUBSET Server
    BY <1>1, <1>3
  <2>2. PICK s \in R : Nested[s] # NoComm => Members[Nested[s]][1] \cap R = {}
    BY <1>5, <2>1, NestingAssumption
  <2>3. s \in Server
    BY <2>1
  <2>4. PICK g : g = [f EXCEPT ![s] = Share(f, s)]
    OBVIOUS
  <2>5. \A t \in Server :
            Nested[t] # NoComm => \A u \in Members[Nested[t]][1] : f[u] \in Value
    BY SourcesOf
  <2>6. Share(f, s) \in Value
    BY <2>3, <2>5, ShareType
  <2>7. /\ g \in [Server -> Value] /\ g[s] = Share(f, s)
        /\ \A t \in Server \ {s} : g[t] = f[t]
    BY <2>3, <2>4, <2>6
  <2>8. ASSUME NEW t \in Server \ (R \ {s})
        PROVE  /\ g[t] = Share(g, t)
               /\ Nested[t] # NoComm => Members[Nested[t]][1] \cap (R \ {s}) = {}
    <3>1. Nested[t] # NoComm => Members[Nested[t]][1] \cap R = {}
      BY <1>4, <2>2 DEF Solved
    <3>2. Nested[t] # NoComm =>
              \A u \in Members[Nested[t]][1] : f[u] = g[u] /\ f[u] \in Value
      BY <2>2, <2>5, <2>7, <3>1, SourcesOf
    <3>3. Share(f, t) = Share(g, t)
      BY <3>2, ShareSame
    <3>4. g[t] = Share(f, t)
      BY <1>4, <2>7 DEF Solved
    <3> QED
      BY <3>1, <3>3, <3>4
  <2>9. Solved(g, R \ {s})
    BY <2>8 DEF Solved
  <2> QED
    BY <1>1, <1>3, <2>1, <2>2, <2>7, <2>9
<1> QED
  BY <1>4, <1>5 DEF Solved

\* Contribution satisfies its equation: no server is among its own sources.
LEMMA ContributionIs ==
    /\ Contribution \in [Server -> Value]
    /\ \A s \in Server : Contribution[s] = Share(Contribution, s)
<1>1. Contribution = CHOOSE f : f = [s \in Server |-> Share(f, s)]
  BY DEF Contribution, Share, Sum, MapThenSumSet, MapThenFoldSet
<1>2. PICK h \in [Server -> Value] : \A s \in Server : h[s] = Share(h, s)
  BY SharesExist
<1>3. h = [s \in Server |-> Share(h, s)]
  BY <1>2
<1>4. Contribution = [s \in Server |-> Share(Contribution, s)]
  BY <1>1, <1>3
<1>5. \A s \in Server : Contribution[s] = Share(Contribution, s)
  BY <1>4
<1>6. PICK W : W = {s \in Server : Contribution[s] # h[s]}
  OBVIOUS
<1>7. ASSUME W # {}
      PROVE  FALSE
  <2>1. PICK s \in W : Nested[s] # NoComm => Members[Nested[s]][1] \cap W = {}
    BY <1>6, <1>7, NestingAssumption
  <2>2. s \in Server
    BY <1>6
  <2>3. Nested[s] # NoComm =>
            \A t \in Members[Nested[s]][1] : h[t] = Contribution[t] /\ h[t] \in Value
    BY <1>6, <2>1, <2>2, SourcesOf
  <2>4. Share(h, s) = Share(Contribution, s)
    BY <2>2, <2>3, ShareSame
  <2> QED
    BY <1>2, <1>5, <1>6, <2>2, <2>4
<1>8. \A s \in Server : Contribution[s] = h[s]
  BY <1>6, <1>7
<1> QED
  BY <1>4, <1>5, <1>8

-----------------------------------------------------------------------------
(* What a sum over the devices that have answered should be.               *)
LEMMA ContributionType ==
    ASSUME NEW s \in Server
    PROVE  Contribution[s] \in Value /\ \A d \in Server : Contribution[s][d] \in Nat
<1>1. Contribution[s] \in Value
  BY ContributionIs
<1> QED
  BY <1>1 DEF Value

\* Sums of contributions are values.
LEMMA SumOverType ==
    ASSUME NEW T \in SUBSET Server
    PROVE  SumOver(T) \in Value
<1>1. IsFiniteSet(T)
  BY PartiesAssumption, FS_Subset
<1>2. \A d \in Server : Sum(Contribution, d, T) \in Nat
  BY <1>1, ContributionType, SumType
<1> QED
  BY <1>2 DEF SumOver, Value

\* Nothing has been added up of no server, and of one what it contributes.
LEMMA SumOverNone == SumOver({}) = Zero
<1>1. ASSUME NEW d \in Server
      PROVE  Sum(Contribution, d, {}) = 0
  <2>1. Units(Contribution, d, {}) = {}
    BY DEF Units
  <2>2. Sum(Contribution, d, {}) = Size(Contribution, d, {})
    BY FS_EmptySet, SumIsSize
  <2> QED
    BY <2>1, <2>2, FS_EmptySet DEF Size
<1> QED
  BY <1>1 DEF SumOver, Zero

\* Another device adds what it contributes.
LEMMA SumOverMore ==
    ASSUME NEW T \in SUBSET Server, NEW s \in Server, s \notin T
    PROVE  SumOver(T \cup {s}) = fpAdd(SumOver(T), Contribution[s])
<1>1. IsFiniteSet(T) /\ IsFiniteSet(T \cup {s})
  BY PartiesAssumption, FS_Subset
<1>2. ASSUME NEW d \in Server
      PROVE  Sum(Contribution, d, T \cup {s}) = Sum(Contribution, d, T) + Contribution[s][d]
  <2>1. \A t \in T \cup {s} : Contribution[t][d] \in Nat
    BY ContributionType
  <2>2. /\ Sum(Contribution, d, T \cup {s}) = Size(Contribution, d, T \cup {s})
        /\ Sum(Contribution, d, T) = Size(Contribution, d, T)
    BY <1>1, <2>1, SumIsSize
  <2>3. s \notin T /\ Contribution[s][d] \in Nat /\ IsFiniteSet(Units(Contribution, d, T))
    BY <1>1, <2>1, UnitsFinite
  <2>4. Size(Contribution, d, T \cup {s}) = Size(Contribution, d, T) + Contribution[s][d]
    BY <2>3, UnitsStep, Zenon
  <2> QED
    BY <2>2, <2>4
<1> QED
  BY <1>2 DEF SumOver, fpAdd

LEMMA SumOverOne ==
    ASSUME NEW s \in Server
    PROVE  SumOver({s}) = Contribution[s]
<1>1. SumOver({} \cup {s}) = fpAdd(SumOver({}), Contribution[s])
  BY SumOverMore, Zenon
<1>2. PICK c : c = Contribution[s]
  OBVIOUS
<1>3. \A d \in Server : c[d] \in Nat /\ Zero[d] = 0
  BY <1>2, ContributionType DEF Zero
<1>4. c = [d \in Server |-> c[d]]
  BY <1>2, ContributionType DEF Value
<1>5. fpAdd(Zero, c) = c
  BY <1>3, <1>4 DEF fpAdd
<1> QED
  BY <1>1, <1>2, <1>5, SumOverNone

-----------------------------------------------------------------------------
\* A value as it should be but for what devices that fail leave out.
Within(v, c) ==
    /\ v \in Value
    /\ \A d \in Server : IF d \in Flaky THEN v[d] <= c[d] ELSE v[d] = c[d]

\* Sums of values as they should be are as they should be.
LEMMA WithinAdd ==
    ASSUME NEW u, NEW v, NEW a \in Value, NEW b \in Value, Within(u, a), Within(v, b)
    PROVE  Within(fpAdd(u, v), fpAdd(a, b))
<1>1. u \in Value /\ v \in Value
  BY DEF Within
<1>2. ASSUME NEW d \in Server
      PROVE  /\ fpAdd(u, v)[d] \in Nat
             /\ IF d \in Flaky THEN fpAdd(u, v)[d] <= fpAdd(a, b)[d]
                               ELSE fpAdd(u, v)[d] = fpAdd(a, b)[d]
  <2>1. PICK i \in Nat, j \in Nat, k \in Nat, l \in Nat :
            i = u[d] /\ j = v[d] /\ k = a[d] /\ l = b[d]
    BY <1>1 DEF Value
  <2>2. fpAdd(u, v)[d] = i + j /\ fpAdd(a, b)[d] = k + l
    BY <2>1 DEF fpAdd
  <2>3. /\ IF d \in Flaky THEN i <= k ELSE i = k
        /\ IF d \in Flaky THEN j <= l ELSE j = l
    BY <2>1 DEF Within
  <2> QED
    BY <2>2, <2>3
<1>3. fpAdd(u, v) \in Value
  BY <1>2 DEF fpAdd, Value
<1> QED
  BY <1>2, <1>3 DEF Within

LEMMA WithinZero == Within(Zero, Zero)
<1>1. Zero \in Value /\ \A d \in Server : Zero[d] = 0
  BY DEF Zero, Value
<1> QED
  BY <1>1 DEF Within

\* What a server answers of its own device.
LEMMA LocalWithin ==
    ASSUME NEW s \in Server, NEW op \in {"Get", "Samples"}, ~ Forwards(s, op),
           NEW ok \in Outcomes(s)
    PROVE  Within(LocalValue(s, op, ok), Contribution[s])
<1>1. Nested[s] = NoComm
  BY DEF Forwards
<1>2. Contribution[s] = IF s \in Device THEN Reading(s) ELSE Zero
  BY <1>1, ContributionIs DEF Share
<1>3. LocalValue(s, op, ok) = IF ok THEN Reading(s) ELSE Zero
  BY DEF LocalValue
<1>4. /\ Zero \in Value /\ Reading(s) \in Value
      /\ \A d \in Server : Zero[d] = 0 /\ Reading(s)[d] = IF d = s THEN 1 ELSE 0
  BY LeafType
<1>5. CASE s \in Flaky
  <2>1. Contribution[s] = Reading(s)
    BY <1>2, <1>5, PartiesAssumption
  <2> QED
    BY <1>3, <1>4, <1>5, <2>1 DEF Within
<1>6. CASE s \notin Flaky
  <2>1. ok = (s \in Device)
    BY <1>6 DEF Outcomes
  <2>2. LocalValue(s, op, ok) = Contribution[s]
    BY <1>2, <1>3, <2>1
  <2> QED
    BY <1>2, <1>3, <1>4, <2>2 DEF Within
<1> QED
  BY <1>5, <1>6

-----------------------------------------------------------------------------
Reads == {"Get", "Samples"}

\* An answer that fits, in these terms.
LEMMA FitsIs ==
    ASSUME NEW m \in Comm, NEW op, NEW value \in Seq(Value), NEW err
    PROVE  Fits([comm |-> m, op |-> op], [value |-> value, err |-> err]) <=>
             /\ err = {}
             /\ op \in Reads =>
                   /\ DOMAIN value = Lists(m)
                   /\ \A g \in Lists(m) : Within(value[g], SumOver(Members[m][g]))
             /\ op \notin Reads => value = <<>>
<1>1. PICK req, ans, exp : /\ req = [comm |-> m, op |-> op]
                           /\ ans = [value |-> value, err |-> err]
                           /\ exp = Expected(req).value
  OBVIOUS
<1>2. Fits(req, ans) <=>
         /\ err = {} /\ DOMAIN value = DOMAIN exp
         /\ \A g \in DOMAIN value, d \in Server :
               IF d \in Flaky THEN value[g][d] \in 0 .. exp[g][d]
                             ELSE value[g][d] = exp[g][d]
  BY <1>1 DEF Fits
<1>3. exp = IF op \in Reads THEN ListSum(m) ELSE <<>>
  BY <1>1 DEF Expected, Reads
<1>4. \A g \in DOMAIN value : value[g] \in Value
  BY ElementOfSeq
<1>5. CASE op \in Reads
  <2>1. DOMAIN exp = Lists(m) /\ \A g \in Lists(m) : exp[g] = SumOver(Members[m][g])
    BY <1>3, <1>5 DEF ListSum, SumOver, Sum
  <2>2. ASSUME DOMAIN value = Lists(m), NEW g \in Lists(m)
        PROVE  Within(value[g], SumOver(Members[m][g])) <=>
                 \A d \in Server : IF d \in Flaky THEN value[g][d] \in 0 .. exp[g][d]
                                                ELSE value[g][d] = exp[g][d]
    <3>1. PICK u, v : u = value[g] /\ v = exp[g]
      OBVIOUS
    <3>2. u \in Value /\ v \in Value
      BY <1>4, <2>1, <2>2, <3>1, ListSize, SumOverType
    <3>3. \A d \in Server : u[d] \in Nat /\ v[d] \in Nat
      BY <3>2 DEF Value
    <3>4. \A d \in Server : u[d] <= v[d] <=> u[d] \in 0 .. v[d]
      BY <3>3
    <3> QED
      BY <2>1, <3>1, <3>2, <3>4 DEF Within
  <2> QED
    BY <1>1, <1>2, <1>5, <2>1, <2>2
<1>6. CASE op \notin Reads
  <2>1. DOMAIN exp = {}
    BY <1>3, <1>6
  <2>2. DOMAIN value = {} <=> value = <<>>
    OBVIOUS
  <2> QED
    BY <1>1, <1>2, <1>6, <2>1, <2>2
<1> QED
  BY <1>5, <1>6

-----------------------------------------------------------------------------
(* What the answers on their way should say.                               *)
AnswerRight(s, e) ==
    /\ e.err = {}
    /\ \E m \in Comm, op \in Op :
          /\ OfRequest(e.id, m, op)
          /\ op \in Reads => Within(e.value, Contribution[s])
\* What has been collected is of the objects that are through.
InfoRight(id) ==
    /\ reqInfo[id].err = {}
    /\ reqInfo[id].op = "Get" =>
          \A g \in Lists(reqInfo[id].comm) :
              Within(reqInfo[id].value[g], SumOver(Through(reqInfo[id].comm, id, g)))
ReplyRight(x, f) ==
    \E m \in Comm, op \in Op :
        /\ OfRequest(<<x, f.id>>, m, op)
        /\ Fits([comm |-> m, op |-> op], [value |-> f.value, err |-> f.err])

UpRight ==
    \A s \in Server : \A e \in Elems(s2r[s]) : e.type = "CommResp" => AnswerRight(s, e)
InfosRight == \A id \in DOMAIN reqInfo : InfoRight(id)
DownRight == \A x \in Ctx : \A f \in Elems(r2c[x]) : ReplyRight(x, f)
AInv == UpRight /\ InfosRight /\ DownRight

-----------------------------------------------------------------------------
\* What was right stays right.
LEMMA StaysRight ==
    ASSUME Grows
    PROVE  /\ \A s \in Server : \A e : AnswerRight(s, e) => AnswerRight(s, e)'
           /\ \A x \in Ctx : \A f : ReplyRight(x, f) => ReplyRight(x, f)'
<1>1. ASSUME NEW s \in Server, NEW e, AnswerRight(s, e)
      PROVE  AnswerRight(s, e)'
  <2>1. PICK m \in Comm, op \in Op :
            OfRequest(e.id, m, op) /\ (op \in Reads => Within(e.value, Contribution[s]))
    BY <1>1 DEF AnswerRight
  <2>2. OfRequest(e.id, m, op)'
    BY <2>1, StaysRequest
  <2> QED
    BY <1>1, <2>1, <2>2 DEF AnswerRight
<1>2. ASSUME NEW x \in Ctx, NEW f, ReplyRight(x, f)
      PROVE  ReplyRight(x, f)'
  <2>1. PICK m \in Comm, op \in Op :
            /\ OfRequest(<<x, f.id>>, m, op)
            /\ Fits([comm |-> m, op |-> op], [value |-> f.value, err |-> f.err])
    BY <1>2 DEF ReplyRight
  <2>2. OfRequest(<<x, f.id>>, m, op)'
    BY <2>1, StaysRequest
  <2> QED
    BY <2>1, <2>2 DEF ReplyRight
<1> QED
  BY <1>1, <1>2

\* What a step adds to the answers is right, and so is what stays.
LEMMA StepRight ==
    ASSUME AInv, Grows, InfosRight',
           \A s \in Server : \A e \in Elems(s2r'[s]) :
               e.type = "CommResp" => e \in Elems(s2r[s]) \/ AnswerRight(s, e)',
           \A x \in Ctx : \A f \in Elems(r2c'[x]) : f \in Elems(r2c[x]) \/ ReplyRight(x, f)'
    PROVE  AInv'
<1>1. ASSUME NEW s \in Server, NEW e \in Elems(s2r'[s]), e.type = "CommResp"
      PROVE  AnswerRight(s, e)'
  BY <1>1, StaysRight DEF AInv, UpRight
<1>2. ASSUME NEW x \in Ctx, NEW f \in Elems(r2c'[x])
      PROVE  ReplyRight(x, f)'
  BY StaysRight DEF AInv, DownRight
<1>3. UpRight'
  BY <1>1 DEF UpRight, Elems
<1>4. DownRight'
  BY <1>2 DEF DownRight, Elems
<1> QED
  BY <1>3, <1>4 DEF AInv

\* What is on a connection after an event was sent, or read.
LEMMA AppendElems ==
    ASSUME NEW E, NEW q \in Seq(E), NEW ev
    PROVE  Elems(Append(q, ev)) \subseteq Elems(q) \cup {ev}
<1>1. /\ Len(q) \in Nat /\ Len(Append(q, ev)) = Len(q) + 1
      /\ Append(q, ev)[Len(q) + 1] = ev
      /\ \A k \in 1 .. Len(q) : Append(q, ev)[k] = q[k]
  OBVIOUS
<1> QED
  BY <1>1 DEF Elems

\* An answer that is sent, up or down, is the one thing that is new.
LEMMA UpSent ==
    ASSUME IInv, NEW s \in Server, NEW e \in UpEvent, s2r' = Sent(s2r, s, e)
    PROVE  /\ Elems(s2r'[s]) \subseteq Elems(s2r[s]) \cup {e}
           /\ \A t \in Server \ {s} : s2r'[t] = s2r[t]
<1>1. s2r \in [Server -> Seq(UpEvent)]
  BY DEF IInv, TypeOK, ChannelTypeOK
<1>2. s2r'[s] = Append(s2r[s], e) /\ \A t \in Server \ {s} : s2r'[t] = s2r[t]
  BY <1>1 DEF Sent
<1> QED
  BY <1>1, <1>2, AppendElems

LEMMA DownSent ==
    ASSUME IInv, NEW x \in Ctx, NEW f \in DownEvent, r2c' = Sent(r2c, x, f)
    PROVE  /\ Elems(r2c'[x]) \subseteq Elems(r2c[x]) \cup {f}
           /\ \A y \in Ctx \ {x} : r2c'[y] = r2c[y]
<1>1. r2c \in [Ctx -> Seq(DownEvent)]
  BY DEF IInv, TypeOK, ChannelTypeOK
<1>2. r2c'[x] = Append(r2c[x], f) /\ \A y \in Ctx \ {x} : r2c'[y] = r2c[y]
  BY <1>1 DEF Sent
<1> QED
  BY <1>1, <1>2, AppendElems

\* What is read was there, and what is left was.
LEMMA ReceivedElems ==
    ASSUME NEW X, NEW E, NEW q \in [X -> Seq(E)], NEW x \in X, q[x] # <<>>
    PROVE  /\ Head(q[x]) \in Elems(q[x])
           /\ \A y \in X : Elems(Received(q, x)[y]) \subseteq Elems(q[y])
<1>1. /\ Received(q, x)[x] = Tail(q[x])
      /\ \A y \in X \ {x} : Received(q, x)[y] = q[y]
  BY DEF Received
<1>2. Head(q[x]) \in Elems(q[x]) /\ Elems(Tail(q[x])) \subseteq Elems(q[x])
  BY ElemsTail
<1> QED
  BY <1>1, <1>2

\* A step that makes no copy and takes none out leaves the same objects through.
LEMMA ThroughSame ==
    ASSUME NEW m \in Comm, NEW id \in InfoId, NEW g \in Lists(m),
           \A s \in Members[m][g] : Total(s, id, g)' = Total(s, id, g)
    PROVE  Through(m, id, g)' = Through(m, id, g)
  BY DEF Through

\* So what has been added up is still right if it is the same.
LEMMA InfosSame ==
    ASSUME IInv, InfosRight, SameCopies, reqInfo' = reqInfo
    PROVE  InfosRight'
<1>1. ASSUME NEW id \in DOMAIN reqInfo
      PROVE  InfoRight(id)'
  <2>1. PICK m : m = reqInfo[id].comm
    OBVIOUS
  <2>2. m \in Comm /\ id \in InfoId /\ Lists(m) \subseteq Nat
    BY <2>1, InfoType
  <2>3. \A g \in Lists(m) : Through(m, id, g)' = Through(m, id, g)
    <3> TAKE g \in Lists(m)
    <3>1. Members[m][g] \subseteq Server
      BY <2>2, ListSize
    <3>2. \A s \in Members[m][g] : Total(s, id, g)' = Total(s, id, g)
      BY <2>2, <3>1 DEF SameCopies
    <3> QED
      BY <2>2, <3>2, ThroughSame
  <2>4. InfoRight(id)
    BY DEF InfosRight
  <2>5. reqInfo[id].op = "Get" =>
            \A g \in Lists(m) : Within(reqInfo[id].value[g], SumOver(Through(m, id, g)))
    BY <2>1, <2>4 DEF InfoRight
  <2>6. reqInfo[id].op = "Get" =>
            \A g \in Lists(m) : Within(reqInfo'[id].value[g], SumOver(Through(m, id, g)'))
    BY <2>3, <2>5
  <2> QED
    BY <2>1, <2>4, <2>6 DEF InfoRight
<1> QED
  BY <1>1 DEF InfosRight

-----------------------------------------------------------------------------
(* The servers answer what they are asked.                                 *)
LEMMA SameGrows ==
    ASSUME IInv, reqs' = reqs
    PROVE  Grows
  BY DEF Grows

\* One answer is sent up and none down.
LEMMA AnswerSent ==
    ASSUME IInv, AInv, SameCopies, Grows, NEW s \in Server, NEW e \in UpEvent,
           s2r' = Sent(s2r, s, e), AnswerRight(s, e)', reqInfo' = reqInfo,
           \A x \in Ctx : Elems(r2c'[x]) \subseteq Elems(r2c[x])
    PROVE  AInv'
<1>2. /\ Elems(s2r'[s]) \subseteq Elems(s2r[s]) \cup {e}
      /\ \A t \in Server \ {s} : s2r'[t] = s2r[t]
  BY UpSent
<1>3. InfosRight'
  BY InfosSame DEF AInv
<1>4. \A t \in Server : \A f \in Elems(s2r'[t]) : f \in Elems(s2r[t]) \/ AnswerRight(t, f)'
  BY <1>2
<1> QED
  BY <1>3, <1>4, StepRight

\* Nothing is sent but what is no answer.
LEMMA NothingSent ==
    ASSUME IInv, AInv, SameCopies, Grows, reqInfo' = reqInfo,
           \A s \in Server : \A e \in Elems(s2r'[s]) :
               e \in Elems(s2r[s]) \/ e.type # "CommResp",
           \A x \in Ctx : Elems(r2c'[x]) \subseteq Elems(r2c[x])
    PROVE  AInv'
<1>1. InfosRight'
  BY InfosSame DEF AInv
<1> QED
  BY <1>1, StepRight

\* The request a server reads was made.
LEMMA ReadsAsked ==
    ASSUME IInv, MInv, NEW s \in Server, Arrives(r2s[s], "CommReq"), NEW ev,
           ev = Head(r2s[s])
    PROVE  /\ ev.comm \in Comm /\ ev.op \in Op /\ ev.id \in InfoId /\ ev.grp \in Nat
           /\ OfRequest(ev.id, ev.comm, ev.op)
<1>1. r2s[s] # <<>> /\ IsRequest(ev)
  BY DEF Arrives, IsRequest
<1>2. Queue(s) # <<>> /\ Head(Queue(s)) = ev /\ Queue(s) \in Seq(ServerEvent)
  BY <1>1, QueueHead, QueueTypes
<1>3. ev \in Elems(Queue(s))
  BY <1>2, ElemsTail
<1>4. OfRequest(ev.id, ev.comm, ev.op)
  BY <1>1, <1>3 DEF MInv, MatchQueues
<1> QED
  BY <1>4, ServerEventType DEF IInv, TypeOK

\* A server answers for its own device ...
LEMMA LocalRight ==
    ASSUME IInv, FInv, MInv, AInv, NEW s \in Server, SrvrReqLocal(s),
           pendingEvents' = pendingEvents, reqInfo' = reqInfo
    PROVE  AInv'
<1>1. PICK ev : ev = Head(r2s[s])
  OBVIOUS
<1>2. /\ Arrives(r2s[s], "CommReq") /\ ~ Forwards(s, ev.op) /\ reqs' = reqs /\ r2c' = r2c
      /\ \E ok \in Outcomes(s) :
            s2r' = Sent(s2r, s, CommRespEvent(ev.id, ev.grp, LocalValue(s, ev.op, ok), {}))
  BY <1>1 DEF SrvrReqLocal, contextVars
<1>3. PICK ok \in Outcomes(s) :
            s2r' = Sent(s2r, s, CommRespEvent(ev.id, ev.grp, LocalValue(s, ev.op, ok), {}))
  BY <1>2
<1>4. PICK v, e : v = LocalValue(s, ev.op, ok) /\ e = CommRespEvent(ev.id, ev.grp, v, {})
  OBVIOUS
<1>5. /\ ev.comm \in Comm /\ ev.op \in Op /\ ev.id \in InfoId /\ ev.grp \in Nat
      /\ OfRequest(ev.id, ev.comm, ev.op)
  BY <1>1, <1>2, ReadsAsked
<1>6. v \in Value
  BY <1>4, LeafType DEF LocalValue
<1>7. e \in UpEvent
  BY <1>4, <1>5, <1>6, CommRespEventType
<1>8. ev.op \in Reads => Within(v, Contribution[s])
  BY <1>2, <1>4, LocalWithin DEF Reads
<1>9. AnswerRight(s, e)
  BY <1>4, <1>5, <1>8 DEF AnswerRight, CommRespEvent
<1>10. Grows
  BY <1>2, SameGrows
<1>11. AnswerRight(s, e)'
  BY <1>9, <1>10, StaysRight
<1>12. SameCopies
  BY LocalFanOut
<1> QED
  BY <1>2, <1>3, <1>4, <1>7, <1>10, <1>11, <1>12, AnswerSent

\* The answer of the sources is the answer of the server.
LEMMA ProgressWithin ==
    ASSUME IInv, MInv, AInv, NEW s \in Server, r2c[s] # <<>>, NEW ev, ev = Head(r2c[s]),
           NEW key \in finiMap[s], key.req = ev.id
    PROVE  /\ ev.err = {} /\ Overwrite(ev) \in Value
           /\ \E m \in Comm : OfRequest(key.id, m, key.op)
           /\ key.op \in Reads => Within(Overwrite(ev), Contribution[s])
<1>1. s \in Ctx /\ r2c \in [Ctx -> Seq(DownEvent)]
  BY DEF IInv, TypeOK, ChannelTypeOK, Ctx
<1>2. ev \in Elems(r2c[s]) /\ ev \in DownEvent
  BY <1>1, ReceivedElems
<1>3. PICK m \in Comm, op \in Op :
        /\ OfRequest(<<s, ev.id>>, m, op)
        /\ Fits([comm |-> m, op |-> op], [value |-> ev.value, err |-> ev.err])
  BY <1>1, <1>2 DEF AInv, DownRight, ReplyRight
<1>4. /\ OfRequest(<<s, key.req>>, Nested[s], key.op)
      /\ \E n \in Comm : OfRequest(key.id, n, key.op)
  BY DEF MInv, MatchFini, Passed
<1>5. m = Nested[s] /\ op = key.op
  BY <1>3, <1>4 DEF OfRequest
<1>6. Nested[s] # NoComm
  BY <1>3, <1>5, CommAssumption
<1>7. ev.value \in Seq(Value)
  BY <1>2 DEF DownEvent
<1>8. /\ ev.err = {}
      /\ op \in Reads =>
            /\ DOMAIN ev.value = Lists(m)
            /\ \A g \in Lists(m) : Within(ev.value[g], SumOver(Members[m][g]))
      /\ op \notin Reads => ev.value = <<>>
  BY <1>3, <1>7, FitsIs
<1>9. CASE op \in Reads
  <2>1. Lists(m) = {1}
    BY <1>5, <1>6, SourcesOf
  <2>2. ev.value # <<>> /\ Within(ev.value[1], SumOver(Members[m][1]))
    BY <1>8, <1>9, <2>1
  <2>3. Contribution[s] = SumOver(Members[m][1])
    BY <1>5, <1>6, ContributionIs DEF Share, SumOver
  <2>4. Overwrite(ev) = ev.value[1]
    BY <2>2 DEF Overwrite
  <2> QED
    BY <1>4, <1>5, <1>8, <2>2, <2>3, <2>4 DEF Within
<1>10. CASE op \notin Reads
  <2>1. Overwrite(ev) = Zero
    BY <1>8, <1>10 DEF Overwrite
  <2> QED
    BY <1>4, <1>5, <1>8, <1>10, <2>1, LeafType
<1> QED
  BY <1>9, <1>10

\* ... or for its sources.
LEMMA ProgressRight ==
    ASSUME IInv, FInv, MInv, AInv, NEW s \in Server, SrvrMakeProgress(s),
           pendingEvents' = pendingEvents, reqInfo' = reqInfo
    PROVE  AInv'
<1>1. PICK ev : ev = Head(r2c[s])
  OBVIOUS
<1>2. r2c[s] # <<>> /\ reqs' = reqs /\ r2c' = Received(r2c, s)
  BY DEF SrvrMakeProgress, Consume
<1>3. PICK key \in finiMap[s] :
        /\ key.req = ev.id
        /\ s2r' = Sent(s2r, s, CommRespEvent(key.id, key.grp, Overwrite(ev), ev.err))
  BY <1>1 DEF SrvrMakeProgress
<1>4. PICK v, e : v = Overwrite(ev) /\ e = CommRespEvent(key.id, key.grp, v, ev.err)
  OBVIOUS
<1>5. /\ ev.err = {} /\ v \in Value
      /\ \E m \in Comm : OfRequest(key.id, m, key.op)
      /\ key.op \in Reads => Within(v, Contribution[s])
  BY <1>1, <1>2, <1>3, <1>4, ProgressWithin
<1>6. key.id \in InfoId /\ key.grp \in Nat /\ key.op \in Op
  BY <1>3 DEF IInv, TypeOK, ServerTypeOK, FiniEntry
<1>7. e \in UpEvent
  BY <1>4, <1>5, <1>6, CommRespEventType
<1>8. AnswerRight(s, e)
  BY <1>4, <1>5, <1>6 DEF AnswerRight, CommRespEvent
<1>9. Grows
  BY <1>2, SameGrows
<1>10. AnswerRight(s, e)'
  BY <1>8, <1>9, StaysRight
<1>11. SameCopies
  BY ProgressFanOut
<1>12. \A x \in Ctx : Elems(r2c'[x]) \subseteq Elems(r2c[x])
  <2>1. s \in Ctx /\ r2c \in [Ctx -> Seq(DownEvent)]
    BY DEF IInv, TypeOK, ChannelTypeOK, Ctx
  <2> QED
    BY <1>2, <2>1, ReceivedElems
<1> QED
  BY <1>3, <1>4, <1>7, <1>9, <1>10, <1>11, <1>12, AnswerSent

\* Nothing else a server does brings an answer.
LEMMA ServerRight ==
    ASSUME IInv, FInv, MInv, AInv, NEW s \in Server, ServerStep(s)
    PROVE  AInv'
<1>1. pendingEvents' = pendingEvents /\ reqInfo' = reqInfo
  BY DEF ServerStep, routerVars
<1>2. CASE ServerStart(s)
  <2>1. s2r' = Sent(s2r, s, ServerConnectEvent) /\ reqs' = reqs /\ r2c' = r2c
    BY <1>2 DEF ServerStart, contextVars
  <2>2. ServerConnectEvent \in UpEvent
    BY DEF UpEvent
  <2>3. /\ Elems(s2r'[s]) \subseteq Elems(s2r[s]) \cup {ServerConnectEvent}
        /\ \A t \in Server \ {s} : s2r'[t] = s2r[t]
    BY <2>1, <2>2, UpSent
  <2>4. \A t \in Server : \A e \in Elems(s2r'[t]) :
            e \in Elems(s2r[t]) \/ e.type # "CommResp"
    BY <2>3 DEF ServerConnectEvent
  <2>5. SameCopies
    BY <1>1, <1>2, ServerQuietFanOut
  <2>6. Grows
    BY <2>1, SameGrows
  <2> QED
    BY <1>1, <2>1, <2>4, <2>5, <2>6, NothingSent
<1>3. CASE SrvrCommCreate(s) \/ SrvrCommDestroy(s)
  <2>1. s2r' = s2r /\ reqs' = reqs /\ r2c' = r2c
    BY <1>3 DEF SrvrCommCreate, SrvrCommDestroy, contextVars
  <2>2. SameCopies
    BY <1>1, <1>3, ServerQuietFanOut
  <2>3. Grows
    BY <2>1, SameGrows
  <2> QED
    BY <1>1, <2>1, <2>2, <2>3, NothingSent
<1>4. CASE SrvrReqLocal(s)
  BY <1>1, <1>4, LocalRight
<1>5. CASE SrvrReqForward(s)
  <2>1. PICK ev : ev = Head(r2s[s])
    OBVIOUS
  <2>2. /\ Arrives(r2s[s], "CommReq") /\ Forwards(s, ev.op) /\ Issue(s, Nested[s], ev.op)
        /\ s2r' = s2r /\ r2c' = r2c
    BY <1>5, <2>1 DEF SrvrReqForward
  <2>3. s \in Ctx /\ Nested[s] \in Comm /\ ev.op \in Op
    BY <2>1, <2>2, ReadsAsked, SourcesOf DEF Forwards, Ctx
  <2>4. Grows
    BY <2>2, <2>3, IssueMatches
  <2>5. SameCopies
    BY <1>1, <1>5, ForwardFanOut
  <2> QED
    BY <1>1, <2>2, <2>4, <2>5, NothingSent
<1>6. CASE SrvrMakeProgress(s)
  BY <1>1, <1>6, ProgressRight
<1> QED
  BY <1>2, <1>3, <1>4, <1>5, <1>6 DEF ServerStep

\* An application sends no answer; it takes them.
LEMMA AppRight ==
    ASSUME IInv, FInv, AInv, NEW x \in App, AppCall(x) \/ AppRun(x)
    PROVE  AInv'
<1>1. /\ r2s' = r2s /\ s2r' = s2r /\ pendingEvents' = pendingEvents
      /\ finiMap' = finiMap /\ reqInfo' = reqInfo
  BY DEF AppCall, AppRun, serverVars, routerVars
<1>2. SameCopies
  BY <1>1, UntouchedFanOut
<1>3. x \in Ctx /\ r2c \in [Ctx -> Seq(DownEvent)]
  BY DEF IInv, TypeOK, ChannelTypeOK, Ctx
<1>4. CASE \E m \in Comm, op \in Op : Submit(x, m, op)
  <2>1. PICK m \in Comm, op \in Op : Issue(x, m, op) /\ r2c' = r2c
    BY <1>4 DEF Submit
  <2>2. Grows
    BY <1>3, <2>1, IssueMatches
  <2> QED
    BY <1>1, <1>2, <2>1, <2>2, NothingSent
<1>5. CASE (\E i \in Ids : Wait(x, i)) \/ Close(x) \/ WaitReturn(x)
  <2>1. reqs' = reqs /\ r2c' = r2c
    BY <1>5 DEF Wait, Close, WaitReturn, contextVars
  <2>2. Grows
    BY <2>1, SameGrows
  <2> QED
    BY <1>1, <1>2, <2>1, <2>2, NothingSent
<1>6. CASE WaitEvent(x) \/ MakeProgress(x)
  <2>1. reqs' = reqs /\ r2c[x] # <<>> /\ r2c' = Received(r2c, x)
    BY <1>6 DEF WaitEvent, MakeProgress, Consume
  <2>2. Grows
    BY <2>1, SameGrows
  <2>3. \A y \in Ctx : Elems(r2c'[y]) \subseteq Elems(r2c[y])
    BY <1>3, <2>1, ReceivedElems
  <2> QED
    BY <1>1, <1>2, <2>2, <2>3, NothingSent
<1> QED
  BY <1>4, <1>5, <1>6 DEF AppCall, AppRun

-----------------------------------------------------------------------------
(* The router adds up what comes.                                          *)
\* Nothing is through of a new request, and nothing has been added up.
LEMMA AllocateRight ==
    ASSUME IInv, NonePending, EInv, FInv, AInv, NEW c \in Ctx, RtrCommReq(c),
           reqs' = reqs, commReqs' = commReqs, finiMap' = finiMap
    PROVE  AInv'
<1>1. PICK ev, id, m, op :
        ev = Head(c2r[c]) /\ id = <<c, ev.id>> /\ m = ev.comm /\ op = ev.op
  OBVIOUS
<1>2. s2r' = s2r /\ r2c' = r2c
  BY DEF RtrCommReq
<1>3. /\ m \in Comm /\ op \in Op /\ id \in InfoId /\ id \notin DOMAIN reqInfo
      /\ DOMAIN reqInfo' = DOMAIN reqInfo \cup {id}
      /\ reqInfo'[id] = NewInfo(m, op)
      /\ \A j \in DOMAIN reqInfo : reqInfo'[j] = reqInfo[j]
      /\ \A s \in Server, j \in InfoId, g \in Nat :
            Total(s, j, g)' = IF j = id /\ g \in Lists(m) /\ s \in Members[m][g]
                              THEN 1 ELSE Total(s, j, g)
  BY <1>1, AllocateTotals
<1>4. /\ reqInfo'[id].comm = m /\ reqInfo'[id].err = {} /\ Lists(m) \subseteq Nat
      /\ \A g \in Lists(m) : reqInfo'[id].value[g] = Zero
  BY <1>3 DEF NewInfo, Lists
<1>5. \A g \in Lists(m) : Through(m, id, g)' = {}
  <2> TAKE g \in Lists(m)
  <2>1. \A s \in Members[m][g] : Total(s, id, g)' = 1
    BY <1>3, <1>4, ListSize
  <2> QED
    BY <2>1 DEF Through
<1>6. InfoRight(id)'
  <2>1. \A g \in Lists(m) : Within(reqInfo'[id].value[g], SumOver(Through(m, id, g)'))
    BY <1>4, <1>5, SumOverNone, WithinZero
  <2> QED
    BY <1>4, <2>1 DEF InfoRight
<1>7. ASSUME NEW j \in DOMAIN reqInfo
      PROVE  InfoRight(j)'
  <2>1. PICK n : n = reqInfo[j].comm
    OBVIOUS
  <2>2. n \in Comm /\ j \in InfoId /\ Lists(n) \subseteq Nat /\ j # id
    BY <1>3, <2>1, InfoType
  <2>3. \A g \in Lists(n) : Through(n, j, g)' = Through(n, j, g)
    <3> TAKE g \in Lists(n)
    <3>1. Members[n][g] \subseteq Server
      BY <2>2, ListSize
    <3>2. \A s \in Members[n][g] : Total(s, j, g)' = Total(s, j, g)
      BY <1>3, <2>2, <3>1
    <3> QED
      BY <2>2, <3>2, ThroughSame
  <2>4. InfoRight(j) /\ reqInfo'[j] = reqInfo[j]
    BY <1>3 DEF AInv, InfosRight
  <2>5. reqInfo[j].op = "Get" =>
            \A g \in Lists(n) : Within(reqInfo[j].value[g], SumOver(Through(n, j, g)'))
    BY <2>1, <2>3, <2>4 DEF InfoRight
  <2> QED
    BY <2>1, <2>4, <2>5 DEF InfoRight
<1>8. InfosRight'
  <2>1. \A j \in DOMAIN reqInfo' : InfoRight(j)'
    BY <1>3, <1>6, <1>7
  <2> QED
    BY <2>1 DEF InfosRight
<1>9. Grows
  BY SameGrows
<1> QED
  BY <1>2, <1>8, <1>9, StepRight

\* An answer that is read is right, and so was what had been collected.
LEMMA AnswerRead ==
    ASSUME IInv, FInv, MInv, AInv, NEW s \in Server, Arrives(s2r[s], "CommResp"),
           InfoLive(s), NEW ev, NEW id, ev = Head(s2r[s]), id = ev.id
    PROVE  /\ id \in DOMAIN reqInfo /\ id \in InfoId /\ reqInfo[id].comm \in Comm
           /\ reqInfo[id].op \in Op /\ OfRequest(id, reqInfo[id].comm, reqInfo[id].op)
           /\ reqInfo[id].err = {} /\ ev.err = {} /\ ev.value \in Value
           /\ reqInfo[id].op \in Reads => Within(ev.value, Contribution[s])
<1>1. id \in DOMAIN reqInfo
  BY DEF InfoLive
<1>2. /\ id \in InfoId /\ reqInfo[id].comm \in Comm /\ reqInfo[id].op \in Op
  BY <1>1, InfoType DEF CommReqInfo
<1>3. /\ ev \in UpEvent /\ ev.type = "CommResp" /\ ev.value \in Value
  BY UpEventType DEF IInv, TypeOK
<1>4. OfRequest(id, reqInfo[id].comm, reqInfo[id].op) /\ reqInfo[id].err = {}
  BY <1>1 DEF MInv, MatchInfos, AInv, InfosRight, InfoRight
<1>5. AnswerRight(s, ev)
  <2>1. s2r \in [Server -> Seq(UpEvent)] /\ s2r[s] # <<>>
    BY DEF IInv, TypeOK, ChannelTypeOK, Arrives
  <2>2. ev \in Elems(s2r[s])
    BY <2>1, ReceivedElems
  <2> QED
    BY <1>3, <2>2 DEF AInv, UpRight
<1>6. PICK n \in Comm, op \in Op :
          OfRequest(id, n, op) /\ (op \in Reads => Within(ev.value, Contribution[s]))
  BY <1>5 DEF AnswerRight
<1>7. op = reqInfo[id].op
  BY <1>4, <1>6 DEF OfRequest
<1>8. ev.err = {}
  BY <1>5 DEF AnswerRight
<1> QED
  BY <1>1, <1>2, <1>3, <1>4, <1>6, <1>7, <1>8

\* What it adds is what its server contributes.
LEMMA CollectedRight ==
    ASSUME IInv, FInv, MInv, AInv, NEW s \in Server, Arrives(s2r[s], "CommResp"),
           InfoLive(s), s2r' = Received(s2r, s), r2s' = r2s,
           pendingEvents' = pendingEvents, finiMap' = finiMap,
           NEW ev, NEW id, NEW m, ev = Head(s2r[s]), id = ev.id, m = reqInfo[id].comm,
           reqInfo[id].op = "Get", NEW g \in Lists(m)
    PROVE  Within(Collected(reqInfo[id], ev).value[g], SumOver(Through(m, id, g)'))
<1>1. PICK h, info, sums : /\ h = ev.grp /\ info = reqInfo[id]
                           /\ sums = Collected(info, ev).value
  OBVIOUS
<1>2. /\ id \in DOMAIN reqInfo /\ id \in InfoId /\ m \in Comm
      /\ h \in Lists(m) /\ s \in Members[m][h]
      /\ Through(m, id, h)' = Through(m, id, h) \cup {s}
      /\ Cardinality(Through(m, id, h)') = Cardinality(Through(m, id, h)) + 1
      /\ g # h => Through(m, id, g)' = Through(m, id, g)
  BY <1>1, AnswerTotals
<1>3. info.value \in [Lists(m) -> Value]
  BY <1>1, <1>2, InfoType DEF CommReqInfo
<1>4. sums = [info.value EXCEPT ![h] = fpAdd(@, ev.value)]
  BY <1>1 DEF Collected
<1>5. Within(info.value[g], SumOver(Through(m, id, g)))
  BY <1>1, <1>2 DEF AInv, InfosRight, InfoRight
<1>6. CASE g # h
  <2>1. sums[g] = info.value[g]
    BY <1>3, <1>4, <1>6
  <2>2. Through(m, id, g)' = Through(m, id, g)
    BY <1>2, <1>6
  <2> QED
    BY <1>1, <1>5, <2>1, <2>2
<1>7. CASE g = h
  <2>1. sums[g] = fpAdd(info.value[g], ev.value)
    BY <1>2, <1>3, <1>4, <1>7
  <2>2. PICK T : T = Through(m, id, h)
    OBVIOUS
  <2>3. T \in SUBSET Server /\ IsFiniteSet(T)
    BY <1>2, <2>2, ListSize, FS_Subset DEF Through
  <2>4. s \notin T
    <3>1. PICK k \in Nat : k = Cardinality(T)
      BY <2>3, FS_CardinalityType
    <3>2. Cardinality(T \cup {s}) = Cardinality(T) + 1
      BY <1>2, <2>2
    <3>3. Cardinality(T \cup {s}) = k + 1
      BY <3>1, <3>2
    <3>4. s \in T => T \cup {s} = T
      OBVIOUS
    <3>5. s \in T => k = k + 1
      BY <3>1, <3>3, <3>4
    <3> QED
      BY <3>5
  <2>5. SumOver(T \cup {s}) = fpAdd(SumOver(T), Contribution[s])
    BY <2>3, <2>4, SumOverMore
  <2>6. Within(ev.value, Contribution[s])
    BY AnswerRead DEF Reads
  <2>7. SumOver(T) \in Value /\ Contribution[s] \in Value
    BY <2>3, SumOverType, ContributionType
  <2>8. Within(fpAdd(info.value[g], ev.value), fpAdd(SumOver(T), Contribution[s]))
    BY <1>5, <1>7, <2>2, <2>6, <2>7, WithinAdd
  <2> QED
    BY <1>1, <1>2, <1>7, <2>1, <2>2, <2>5, <2>8
<1> QED
  BY <1>6, <1>7

\* No other info sees it.
LEMMA OthersRight ==
    ASSUME IInv, FInv, MInv, AInv, NEW s \in Server, Arrives(s2r[s], "CommResp"),
           InfoLive(s), s2r' = Received(s2r, s), r2s' = r2s,
           pendingEvents' = pendingEvents, finiMap' = finiMap,
           NEW j \in DOMAIN reqInfo, j # Head(s2r[s]).id, reqInfo'[j] = reqInfo[j]
    PROVE  InfoRight(j)'
<1>1. PICK n, id, h, m : /\ n = reqInfo[j].comm /\ id = Head(s2r[s]).id
                         /\ h = Head(s2r[s]).grp /\ m = reqInfo[id].comm
  OBVIOUS
<1>2. n \in Comm /\ j \in InfoId /\ j # id
  BY <1>1, InfoType
<1>3. \A g \in Lists(n) : Through(n, j, g)' = Through(n, j, g)
  BY <1>1, <1>2, AnswerTotals
<1>4. InfoRight(j)
  BY DEF AInv, InfosRight
<1>5. reqInfo[j].op = "Get" =>
          \A g \in Lists(n) : Within(reqInfo[j].value[g], SumOver(Through(n, j, g)'))
  BY <1>1, <1>3, <1>4 DEF InfoRight
<1> QED
  BY <1>1, <1>4, <1>5 DEF InfoRight

\* An answer that leaves some list pending is added to its list.
LEMMA QueueRight ==
    ASSUME IInv, FInv, MInv, AInv, NEW s \in Server, RtrRespQueue(s),
           reqs' = reqs, finiMap' = finiMap
    PROVE  AInv'
<1>1. PICK ev, id, info, new, m :
        /\ ev = Head(s2r[s]) /\ id = ev.id /\ info = reqInfo[id]
        /\ new = Collected(info, ev) /\ m = info.comm
  OBVIOUS
<1>2. /\ Arrives(s2r[s], "CommResp") /\ InfoLive(s) /\ s2r' = Received(s2r, s)
      /\ r2s' = r2s /\ pendingEvents' = pendingEvents /\ r2c' = r2c
      /\ Update(id, new)
  BY <1>1 DEF RtrRespQueue
<1>3. /\ id \in DOMAIN reqInfo /\ new.comm = m /\ new.op = info.op /\ new.err = {}
      /\ info.op = "Get" => \A g \in Lists(m) :
             Within(new.value[g], SumOver(Through(m, id, g)'))
      /\ \A j \in DOMAIN reqInfo \ {id} : reqInfo'[j] = reqInfo[j] => InfoRight(j)'
  <2>1. id \in DOMAIN reqInfo /\ info.err = {} /\ ev.err = {}
    BY <1>1, <1>2, AnswerRead
  <2>2. new.comm = m /\ new.op = info.op /\ new.err = {}
    BY <1>1, <2>1 DEF Collected
  <2>3. ASSUME info.op = "Get", NEW g \in Lists(m)
        PROVE  Within(new.value[g], SumOver(Through(m, id, g)'))
    BY <1>1, <1>2, <2>3, CollectedRight
  <2>4. \A j \in DOMAIN reqInfo \ {id} : reqInfo'[j] = reqInfo[j] => InfoRight(j)'
    BY <1>1, <1>2, OthersRight
  <2> QED
    BY <2>1, <2>2, <2>3, <2>4
<1>4. /\ DOMAIN reqInfo' = DOMAIN reqInfo /\ reqInfo'[id] = new
      /\ \A j \in DOMAIN reqInfo \ {id} : reqInfo'[j] = reqInfo[j]
  BY <1>2, <1>3 DEF Update
<1>5. InfoRight(id)'
  BY <1>3, <1>4 DEF InfoRight
<1>6. \A j \in DOMAIN reqInfo' : InfoRight(j)'
  BY <1>3, <1>4, <1>5
<1>7. InfosRight'
  BY <1>6 DEF InfosRight
<1>8. \A t \in Server : Elems(s2r'[t]) \subseteq Elems(s2r[t])
  <2>1. s2r \in [Server -> Seq(UpEvent)] /\ s2r[s] # <<>>
    BY <1>2 DEF IInv, TypeOK, ChannelTypeOK, Arrives
  <2> QED
    BY <1>2, <2>1, ReceivedElems
<1>9. Grows
  BY SameGrows
<1> QED
  BY <1>2, <1>7, <1>8, <1>9, StepRight

\* The client is sent the sum over all the objects of each list.
LEMMA SendRight ==
    ASSUME IInv, FInv, MInv, AInv, NEW s \in Server, RtrRespSend(s),
           reqs' = reqs, finiMap' = finiMap
    PROVE  AInv'
<1>1. PICK ev, id, info, new, m :
        /\ ev = Head(s2r[s]) /\ id = ev.id /\ info = reqInfo[id]
        /\ new = Collected(info, ev) /\ m = info.comm
  OBVIOUS
<1>2. /\ Arrives(s2r[s], "CommResp") /\ InfoLive(s) /\ s2r' = Received(s2r, s)
      /\ r2s' = r2s /\ pendingEvents' = pendingEvents
      /\ Free(id) /\ r2c' = Sent(r2c, id[1], ReplyEvent(id, info, ev))
  BY <1>1 DEF RtrRespSend
<1>3. /\ id \in DOMAIN reqInfo /\ id \in InfoId /\ m \in Comm /\ info.op \in Op
      /\ OfRequest(id, m, info.op) /\ info.err \cup ev.err = {} /\ ev.value \in Value
      /\ info.op \in Reads => Within(ev.value, Contribution[s])
      /\ info.op = "Get" => \A g \in Lists(m) :
             Within(new.value[g], SumOver(Through(m, id, g)'))
      /\ \A j \in DOMAIN reqInfo \ {id} : reqInfo'[j] = reqInfo[j] => InfoRight(j)'
  <2>1. /\ id \in DOMAIN reqInfo /\ id \in InfoId /\ m \in Comm /\ info.op \in Op
        /\ OfRequest(id, m, info.op) /\ info.err = {} /\ ev.err = {} /\ ev.value \in Value
        /\ info.op \in Reads => Within(ev.value, Contribution[s])
    BY <1>1, <1>2, AnswerRead
  <2>2. ASSUME info.op = "Get", NEW g \in Lists(m)
        PROVE  Within(new.value[g], SumOver(Through(m, id, g)'))
    BY <1>1, <1>2, <2>2, CollectedRight
  <2>3. \A j \in DOMAIN reqInfo \ {id} : reqInfo'[j] = reqInfo[j] => InfoRight(j)'
    BY <1>1, <1>2, OthersRight
  <2> QED
    BY <2>1, <2>2, <2>3
<1>4. \A g \in Lists(m) : Through(m, id, g)' = Members[m][g]
  BY <1>1, SendThrough
<1>5. PICK v, f : v = ReplyValue(info, ev) /\ f = ReplyEvent(id, info, ev)
  OBVIOUS
<1>6. f = [id |-> id[2], value |-> v, err |-> {}]
  BY <1>3, <1>5 DEF ReplyEvent, ClientRespEvent
<1>7. /\ v \in Seq(Value)
      /\ info.op \in Reads =>
            /\ DOMAIN v = Lists(m)
            /\ \A g \in Lists(m) : Within(v[g], SumOver(Members[m][g]))
      /\ info.op \notin Reads => v = <<>>
  <2>1. CASE info.op = "Get"
    <3>1. v = new.value
      BY <1>1, <1>5, <2>1 DEF ReplyValue
    <3>2. \A g \in Lists(m) : Within(v[g], SumOver(Members[m][g]))
      BY <1>3, <1>4, <2>1, <3>1
    <3>3. DOMAIN v = Lists(m) /\ v = [g \in Lists(m) |-> v[g]]
      <4>1. info.value \in [Lists(m) -> Value]
        BY <1>1, <1>3, InfoType DEF CommReqInfo
      <4>2. v = [info.value EXCEPT ![ev.grp] = fpAdd(@, ev.value)]
        BY <1>1, <2>1, <3>1 DEF Collected
      <4> QED
        BY <4>1, <4>2
    <3>4. \A g \in Lists(m) : v[g] \in Value
      BY <3>2 DEF Within
    <3>5. v \in Seq(Value)
      <4>1. PICK k \in Nat : k = Len(Members[m])
        BY <1>3, CommAssumption
      <4>2. v \in [1 .. k -> Value]
        BY <3>3, <3>4, <4>1 DEF Lists
      <4> QED
        BY <4>1, <4>2
    <3> QED
      BY <2>1, <3>2, <3>3, <3>5 DEF Reads
  <2>2. CASE info.op = "Samples"
    <3>1. v = <<ev.value>>
      BY <1>5, <2>2 DEF ReplyValue
    <3>2. Len(Members[m]) = 1 /\ Cardinality(Members[m][1]) = 1
      BY <1>1, <1>3, <2>2 DEF FInv, LogsOfOne, OneObject, Aggregated
    <3>3. Lists(m) = {1}
      BY <3>2 DEF Lists
    <3>4. Members[m][1] = {s}
      <4>1. PICK h : h = ev.grp
        OBVIOUS
      <4>2. h \in Lists(m) /\ s \in Members[m][h]
        BY <1>1, <1>2, <4>1, AnswerTotals
      <4>3. IsFiniteSet(Members[m][1])
        BY <1>3, <3>3, ListSize
      <4>4. \E x : Members[m][1] = {x}
        BY <3>2, <4>3, FS_Singleton
      <4> QED
        BY <3>3, <4>2, <4>4
    <3>5. SumOver(Members[m][1]) = Contribution[s]
      BY <3>4, SumOverOne
    <3>6. Within(ev.value, Contribution[s])
      BY <1>3, <2>2 DEF Reads
    <3>7. v \in Seq(Value) /\ DOMAIN v = {1} /\ v[1] = ev.value
      BY <1>3, <3>1
    <3> QED
      BY <2>2, <3>3, <3>5, <3>6, <3>7 DEF Reads
  <2>3. CASE info.op \notin Reads
    <3>1. v = <<>>
      BY <1>5, <2>3 DEF ReplyValue, Reads
    <3> QED
      BY <2>3, <3>1
  <2> QED
    BY <2>1, <2>2, <2>3 DEF Reads
<1>8. Fits([comm |-> m, op |-> info.op], [value |-> f.value, err |-> f.err])
  BY <1>3, <1>6, <1>7, FitsIs
<1>9. id[1] \in Ctx /\ id[2] \in Nat /\ id = <<id[1], id[2]>>
  BY <1>3 DEF InfoId, EventId
<1>10. f \in DownEvent
  BY <1>6, <1>7, <1>9 DEF DownEvent, EventId
<1>11. Grows
  BY SameGrows
<1>12. ReplyRight(id[1], f)'
  <2>1. ReplyRight(id[1], f)
    <3>1. f.id = id[2]
      BY <1>6
    <3> QED
      BY <1>3, <1>8, <1>9, <3>1 DEF ReplyRight
  <2> QED
    BY <1>9, <1>11, <2>1, StaysRight
<1>13. \A x \in Ctx : \A e \in Elems(r2c'[x]) : e \in Elems(r2c[x]) \/ ReplyRight(x, e)'
  <2>1. PICK x \in Ctx : x = id[1]
    BY <1>9
  <2>2. r2c' = Sent(r2c, x, f)
    BY <1>2, <1>5, <2>1
  <2>3. /\ Elems(r2c'[x]) \subseteq Elems(r2c[x]) \cup {f}
        /\ \A y \in Ctx \ {x} : r2c'[y] = r2c[y]
    BY <1>10, <2>2, DownSent
  <2>4. ReplyRight(x, f)'
    BY <1>12, <2>1
  <2> QED
    BY <2>3, <2>4
<1>14. InfosRight'
  <2>1. /\ DOMAIN reqInfo' = DOMAIN reqInfo \ {id}
        /\ \A j \in DOMAIN reqInfo \ {id} : reqInfo'[j] = reqInfo[j]
    BY <1>2 DEF Free
  <2>2. \A j \in DOMAIN reqInfo' : InfoRight(j)'
    BY <1>3, <2>1
  <2> QED
    BY <2>2 DEF InfosRight
<1>15. \A t \in Server : Elems(s2r'[t]) \subseteq Elems(s2r[t])
  <2>1. s2r \in [Server -> Seq(UpEvent)] /\ s2r[s] # <<>>
    BY <1>2 DEF IInv, TypeOK, ChannelTypeOK, Arrives
  <2> QED
    BY <1>2, <2>1, ReceivedElems
<1> QED
  BY <1>11, <1>13, <1>14, <1>15, StepRight

\* Nothing else the router does brings an answer.
LEMMA RouterRight ==
    ASSUME IInv, NonePending, EInv, FInv, MInv, AInv, RouterStep
    PROVE  AInv'
<1>1. reqs' = reqs /\ commReqs' = commReqs /\ finiMap' = finiMap
  BY DEF RouterStep, contextVars, serverVars
<1>2. ChannelTypeOK /\ clientComms \in [Ctx -> SUBSET Comm]
  BY DEF IInv, TypeOK, RouterTypeOK
<1>3. Grows
  BY <1>1, SameGrows
<1>4. ASSUME NEW c \in Ctx, RtrCommCreate(c)
      PROVE  AInv'
  <2> DEFINE m == Head(c2r[c]).comm
  <2>1. m \in Comm
    BY <1>2, <1>4, ClientEventType DEF RtrCommCreate
  <2>2. CreateEvents(m) \in [Server -> Seq(ServerEvent)]
    BY <2>1, CreateEventsType
  <2>3. Forward(CreateEvents(m)) /\ s2r' = s2r /\ r2c' = r2c /\ reqInfo' = reqInfo
    BY <1>4 DEF RtrCommCreate
  <2>4. SameCopies
    BY <1>1, <2>1, <2>2, <2>3, CreateNoRequest, PassFanOut
  <2> QED
    BY <1>3, <2>3, <2>4, NothingSent
<1>5. ASSUME NEW c \in Ctx, RtrCommReq(c)
      PROVE  AInv'
  BY <1>1, <1>5, AllocateRight
<1>6. ASSUME NEW c \in Ctx, RtrClientClosed(c)
      PROVE  AInv'
  <2>1. DestroyEvents(c) \in [Server -> Seq(ServerEvent)]
    BY <1>2, DestroyEventsType
  <2>2. Forward(DestroyEvents(c)) /\ s2r' = s2r /\ r2c' = r2c /\ reqInfo' = reqInfo
    BY <1>6 DEF RtrClientClosed
  <2>3. SameCopies
    BY <1>1, <1>2, <2>1, <2>2, DestroyNoRequest, PassFanOut
  <2> QED
    BY <1>3, <2>2, <2>3, NothingSent
<1>7. ASSUME NEW s \in Server, RtrServerConnect(s)
      PROVE  AInv'
  <2>1. /\ s2r' = Received(s2r, s) /\ r2c' = r2c /\ reqInfo' = reqInfo /\ s2r[s] # <<>>
    BY <1>7 DEF RtrServerConnect, Arrives
  <2>2. s2r \in [Server -> Seq(UpEvent)]
    BY <1>2 DEF ChannelTypeOK
  <2>3. \A t \in Server : Elems(s2r'[t]) \subseteq Elems(s2r[t])
    BY <2>1, <2>2, ReceivedElems
  <2>4. SameCopies
    BY <1>1, <1>7, ConnectFanOut
  <2> QED
    BY <1>3, <2>1, <2>3, <2>4, NothingSent
<1>8. ASSUME NEW s \in Server, RtrRespQueue(s)
      PROVE  AInv'
  BY <1>1, <1>8, QueueRight
<1>9. ASSUME NEW s \in Server, RtrRespSend(s)
      PROVE  AInv'
  BY <1>1, <1>9, SendRight
<1> QED
  BY <1>4, <1>5, <1>6, <1>7, <1>8, <1>9 DEF RouterStep

LEMMA NextRight ==
    IInv /\ OInv /\ EInv /\ FInv /\ MInv /\ AInv /\ [Next]_vars => AInv'
<1> SUFFICES ASSUME IInv, OInv, EInv, FInv, MInv, AInv, [Next]_vars PROVE AInv'
  OBVIOUS
<1>1. CASE UNCHANGED vars
  <2>1. /\ r2s' = r2s /\ s2r' = s2r /\ pendingEvents' = pendingEvents /\ r2c' = r2c
        /\ finiMap' = finiMap /\ reqInfo' = reqInfo /\ reqs' = reqs
    BY <1>1 DEF vars, channels, contextVars, serverVars, routerVars
  <2>2. SameCopies
    BY <2>1, UntouchedFanOut
  <2>3. Grows
    BY <2>1, SameGrows
  <2> QED
    BY <2>1, <2>2, <2>3, NothingSent
<1> QED
  BY <1>1, RouterRight, ServerRight, AppRight DEF Next, OInv

LEMMA InitRight == Init => AInv
<1> SUFFICES ASSUME Init PROVE AInv
  OBVIOUS
<1>1. /\ \A s \in Server : Elems(s2r[s]) = {}
      /\ \A x \in Ctx : Elems(r2c[x]) = {}
      /\ DOMAIN reqInfo = {}
  BY DEF Init, ChannelInit, RouterInit, Elems
<1> QED
  BY <1>1 DEF AInv, UpRight, InfosRight, DownRight

-----------------------------------------------------------------------------
(* What an application has read.                                           *)
AllFit == \A x \in App : \A i \in Answered(x) : Fits(reqs[x][i], answer[x][i])

\* The answer an application takes is the first of its request, and fits it.
LEMMA TakesAnswer ==
    ASSUME IInv, MInv, AInv, NEW x \in App, WaitEvent(x) \/ MakeProgress(x),
           NEW i, i = Head(r2c[x]).id
    PROVE  /\ i \in commReqs[x] /\ i \in Ids /\ i \in 1 .. Len(reqs[x])
           /\ reqs' = reqs /\ commReqs' = [commReqs EXCEPT ![x] = @ \ {i}]
           /\ Fits(reqs[x][i], answer'[x][i])
           /\ \A y \in App, j \in Ids :
                 <<y, j>> # <<x, i>> => answer'[y][j] = answer[y][j]
<1>1. PICK ev : ev = Head(r2c[x])
  OBVIOUS
<1>2. /\ r2c[x] # <<>> /\ AnswerExpected(x) /\ Store(x, ev) /\ reqs' = reqs
      /\ commReqs' = [commReqs EXCEPT ![x] = @ \ {i}]
  BY <1>1 DEF WaitEvent, MakeProgress, Consume
<1>3. x \in Ctx /\ r2c \in [Ctx -> Seq(DownEvent)] /\ answer \in [App -> [Ids -> Answer]]
  BY DEF IInv, TypeOK, ChannelTypeOK, AppTypeOK, Ctx
<1>4. i \in commReqs[x]
  BY <1>2, <1>3, HeadExpected
<1>5. ev \in Elems(r2c[x])
  BY <1>1, <1>2, <1>3, ReceivedElems
<1>6. PICK m \in Comm, op \in Op :
        /\ OfRequest(<<x, i>>, m, op)
        /\ Fits([comm |-> m, op |-> op], [value |-> ev.value, err |-> ev.err])
  BY <1>1, <1>3, <1>5 DEF AInv, DownRight, ReplyRight
<1>7. i \in 1 .. Len(reqs[x]) /\ reqs[x][i] = [comm |-> m, op |-> op]
  BY <1>6 DEF OfRequest
<1>8. i \in Ids
  <2>1. Len(reqs[x]) \in Nat /\ Len(reqs[x]) <= MaxReq
    BY <1>3, QueueTypes DEF MInv, Bounded
  <2> QED
    BY <1>7, <2>1, UseAssumption DEF Ids
<1>9. /\ answer'[x][i] = [value |-> ev.value, err |-> ev.err]
      /\ \A y \in App, j \in Ids :
            <<y, j>> # <<x, i>> => answer'[y][j] = answer[y][j]
  BY <1>1, <1>2, <1>3, <1>8 DEF Store
<1> QED
  BY <1>2, <1>4, <1>6, <1>7, <1>8, <1>9

\* A step that leaves requests and buffers alone.
LEMMA SameFit ==
    ASSUME AllFit, \A x \in App : reqs'[x] = reqs[x] /\ commReqs'[x] = commReqs[x],
           answer' = answer
    PROVE  AllFit'
  BY DEF AllFit, Answered

\* A request that is made has no answer yet, and the answer to any other stays.
LEMMA AppFit ==
    ASSUME IInv, MInv, AInv, AllFit, NEW x \in App, AppCall(x) \/ AppRun(x)
    PROVE  AllFit'
<1>1. CASE \E m \in Comm, op \in Op : Submit(x, m, op)
  <2>1. PICK m \in Comm, op \in Op : Issue(x, m, op) /\ answer' = answer
    BY <1>1 DEF Submit, appVars
  <2>2. /\ reqs \in [Ctx -> Seq(Request)] /\ commReqs \in [Ctx -> SUBSET Nat]
        /\ x \in Ctx /\ Len(reqs[x]) \in Nat
    BY PlaceTypes DEF Ctx
  <2>3. PICK n \in Nat : n = Len(reqs[x])
    BY <2>2
  <2>4. /\ reqs'[x] = Append(reqs[x], [comm |-> m, op |-> op])
        /\ commReqs'[x] = commReqs[x] \cup {n + 1}
        /\ \A y \in Ctx \ {x} : reqs'[y] = reqs[y] /\ commReqs'[y] = commReqs[y]
    BY <2>1, <2>2, <2>3 DEF Issue
  <2>5. Len(reqs'[x]) = n + 1 /\ \A i \in 1 .. n : reqs'[x][i] = reqs[x][i]
    BY <2>2, <2>3, <2>4
  <2>6. ASSUME NEW y \in App, NEW i \in Answered(y)'
        PROVE  Fits(reqs[y][i], answer[y][i])'
    <3>1. CASE y = x
      <4>1. i \in 1 .. n + 1 /\ i \notin commReqs[x] /\ i # n + 1
        BY <2>4, <2>5, <2>6, <3>1 DEF Answered
      <4>2. i \in 1 .. n
        BY <4>1
      <4>3. i \in Answered(x)
        BY <2>3, <4>1, <4>2 DEF Answered
      <4> QED
        BY <2>1, <2>5, <3>1, <4>2, <4>3 DEF AllFit
    <3>2. CASE y # x
      <4>1. reqs'[y] = reqs[y] /\ commReqs'[y] = commReqs[y]
        BY <2>4, <3>2 DEF Ctx
      <4>2. i \in Answered(y)
        BY <2>6, <4>1 DEF Answered
      <4> QED
        BY <2>1, <4>1, <4>2 DEF AllFit
    <3> QED
      BY <3>1, <3>2
  <2> QED
    BY <2>6 DEF AllFit
<1>2. CASE (\E i \in Ids : Wait(x, i)) \/ Close(x) \/ WaitReturn(x)
  <2>1. reqs' = reqs /\ commReqs' = commReqs /\ answer' = answer
    BY <1>2 DEF Wait, Close, WaitReturn, contextVars
  <2> QED
    BY <2>1, SameFit
<1>3. CASE WaitEvent(x) \/ MakeProgress(x)
  <2>1. PICK i : i = Head(r2c[x]).id
    OBVIOUS
  <2>2. /\ i \in commReqs[x] /\ i \in Ids /\ i \in 1 .. Len(reqs[x])
        /\ reqs' = reqs /\ commReqs' = [commReqs EXCEPT ![x] = @ \ {i}]
        /\ Fits(reqs[x][i], answer'[x][i])
        /\ \A y \in App, j \in Ids :
              <<y, j>> # <<x, i>> => answer'[y][j] = answer[y][j]
    BY <1>3, <2>1, TakesAnswer
  <2>3. commReqs \in [Ctx -> SUBSET Nat] /\ x \in Ctx
    BY PlaceTypes DEF Ctx
  <2>4. ASSUME NEW y \in App, NEW j \in Answered(y)'
        PROVE  Fits(reqs[y][j], answer[y][j])'
    <3>1. CASE <<y, j>> = <<x, i>>
      BY <2>2, <3>1
    <3>2. CASE <<y, j>> # <<x, i>>
      <4>1. j \in 1 .. Len(reqs[y]) /\ j \notin commReqs[y]
        BY <2>2, <2>3, <2>4, <3>2 DEF Answered, Ctx
      <4>2. j \in Ids
        <5>1. Len(reqs[y]) \in Nat /\ Len(reqs[y]) <= MaxReq
          BY QueueTypes DEF MInv, Bounded, Ctx
        <5> QED
          BY <4>1, <5>1, UseAssumption DEF Ids
      <4>3. answer'[y][j] = answer[y][j]
        BY <2>2, <3>2, <4>2
      <4> QED
        BY <2>2, <4>1, <4>3 DEF AllFit, Answered
    <3> QED
      BY <3>1, <3>2
  <2> QED
    BY <2>4 DEF AllFit
<1> QED
  BY <1>1, <1>2, <1>3 DEF AppCall, AppRun

\* Router and servers touch no application.
LEMMA OthersAlone ==
    ASSUME IInv, RouterStep \/ (\E s \in Server : ServerStep(s)) \/ UNCHANGED vars
    PROVE  /\ \A x \in App : reqs'[x] = reqs[x] /\ commReqs'[x] = commReqs[x]
           /\ answer' = answer
<1>1. reqs \in [Ctx -> Seq(Request)] /\ commReqs \in [Ctx -> SUBSET Nat]
  BY DEF IInv, TypeOK, ContextTypeOK, EventId
<1>2. CASE RouterStep \/ UNCHANGED vars
  BY <1>2 DEF RouterStep, vars, contextVars, appVars
<1>3. CASE \E s \in Server : ServerStep(s)
  <2>1. PICK s \in Server : ServerStep(s)
    BY <1>3
  <2>2. answer' = answer
    BY <2>1 DEF ServerStep, appVars
  <2>3. \A x \in App : x # s /\ x \in Ctx
    BY PartiesAssumption DEF Ctx
  <2>4. \A x \in Ctx \ {s} : reqs'[x] = reqs[x] /\ commReqs'[x] = commReqs[x]
    BY <1>1, <2>1 DEF ServerStep, ServerStart, SrvrCommCreate, SrvrCommDestroy,
       SrvrReqLocal, SrvrReqForward, SrvrMakeProgress, Issue, Consume, contextVars
  <2> QED
    BY <2>2, <2>3, <2>4
<1> QED
  BY <1>2, <1>3

LEMMA NextFit == IInv /\ MInv /\ AInv /\ AllFit /\ [Next]_vars => AllFit'
<1> SUFFICES ASSUME IInv, MInv, AInv, AllFit, [Next]_vars PROVE AllFit'
  OBVIOUS
<1>1. CASE RouterStep \/ (\E s \in Server : ServerStep(s)) \/ UNCHANGED vars
  <2>1. /\ \A x \in App : reqs'[x] = reqs[x] /\ commReqs'[x] = commReqs[x]
        /\ answer' = answer
    BY <1>1, OthersAlone
  <2> QED
    BY <2>1, SameFit
<1> QED
  BY <1>1, AppFit DEF Next

LEMMA InitFit == Init => AllFit
<1> SUFFICES ASSUME Init, NEW x \in App PROVE Answered(x) = {}
  BY DEF AllFit
<1>1. reqs[x] = <<>>
  BY DEF Init, ContextInit, Ctx
<1> QED
  BY <1>1 DEF Answered

-----------------------------------------------------------------------------
\* Whatever failed, an application reads for each list of its object, in order,
\* the sum over the devices it stands for, in which a device that fails may be
\* missing and nothing else (commRespEvent.h, process; distRequest.cc, getValue).
THEOREM AnswersFit == Spec => []AllFit
  BY InitIInv, NextIInv, InitOrder, NextOrder, InitPlaces, NextPlaces,
     InitFanOut, NextFanOut, InitMatches, NextMatches, InitRight, NextRight,
     InitFit, NextFit, PTL DEF Spec

\* If no device fails, it reads exactly that sum.
THEOREM AnswersExactCorrect ==
    ASSUME Flaky = {}
    PROVE  Spec => []AnswersExact
<1>1. IInv /\ MInv /\ AllFit => AnswersExact
  <2> SUFFICES ASSUME IInv, MInv, AllFit, NEW x \in App, NEW i \in Answered(x)
               PROVE  answer[x][i] = Expected(reqs[x][i])
    BY DEF AnswersExact
  <2>1. i \in 1 .. Len(reqs[x]) /\ x \in Ctx
    BY DEF Answered, Ctx
  <2>2. reqs[x] \in Seq(Request) /\ Len(reqs[x]) \in Nat /\ Len(reqs[x]) <= MaxReq
    BY <2>1, QueueTypes DEF MInv, Bounded
  <2>3. i \in Ids
    BY <2>1, <2>2, UseAssumption DEF Ids
  <2>4. reqs[x][i] \in Request
    BY <2>1, <2>2, ElementOfSeq
  <2>5. PICK m \in Comm, op \in Op : reqs[x][i] = [comm |-> m, op |-> op]
    BY <2>4 DEF Request
  <2>6. answer[x][i] \in Answer
    BY <2>3 DEF IInv, TypeOK, AppTypeOK
  <2>7. PICK value \in Seq(Value), err \in SUBSET Server :
            answer[x][i] = [value |-> value, err |-> err]
    BY <2>6 DEF Answer
  <2>8. Fits([comm |-> m, op |-> op], [value |-> value, err |-> err])
    BY <2>5, <2>7 DEF AllFit
  <2>9. /\ err = {}
        /\ op \in Reads =>
              /\ DOMAIN value = Lists(m)
              /\ \A g \in Lists(m) : Within(value[g], SumOver(Members[m][g]))
        /\ op \notin Reads => value = <<>>
    BY <2>8, FitsIs
  <2>10. Expected(reqs[x][i]) = [value |-> IF op \in Reads THEN ListSum(m) ELSE <<>>,
                                 err |-> {}]
    BY <2>5 DEF Expected, Reads
  <2>11. ASSUME op \in Reads
         PROVE  value = ListSum(m)
    <3>1. ASSUME NEW g \in Lists(m)
          PROVE  value[g] = SumOver(Members[m][g])
      <4>1. PICK u, v : u = value[g] /\ v = SumOver(Members[m][g])
        OBVIOUS
      <4>2. u \in Value /\ v \in Value
        BY <2>9, <2>11, <4>1, ListSize, SumOverType DEF Within
      <4>3. \A d \in Server : u[d] = v[d]
        BY <2>9, <2>11, <4>1 DEF Within
      <4> QED
        BY <4>1, <4>2, <4>3 DEF Value
    <3>2. ListSum(m) = [g \in Lists(m) |-> SumOver(Members[m][g])]
      BY DEF ListSum, SumOver, Sum
    <3>3. value = [g \in Lists(m) |-> value[g]]
      BY <2>9, <2>11
    <3> QED
      BY <3>1, <3>2, <3>3
  <2> QED
    BY <2>7, <2>9, <2>10, <2>11
<1> QED
  BY <1>1, AnswersFit, InitIInv, NextIInv, InitOrder, NextOrder, InitMatches,
     NextMatches, PTL DEF Spec

\* Router, servers and connections are nothing to an application but a place
\* that answers each of its requests once, in any order, with an answer that fits.
THEOREM RemoteCorrect == Spec => RemoteSpec
<1>1. Init => Remote!Init
  <2> SUFFICES ASSUME Init PROVE Remote!Init
    OBVIOUS
  <2>1. \A x \in App : reqs[x] = <<>> /\ commReqs[x] = {}
    BY DEF Init, ContextInit, Ctx
  <2>2. answer = [x \in App |-> [i \in Ids |-> NoAnswer]]
    BY DEF Init, AppInit
  <2> QED
    BY <2>1, <2>2 DEF Remote!Init
<1>2. IInv /\ MInv /\ AInv /\ [Next]_vars => [Remote!Next]_(Remote!vars)
  <2> SUFFICES ASSUME IInv, MInv, AInv, [Next]_vars
               PROVE  Remote!Next \/ UNCHANGED Remote!vars
    OBVIOUS
  <2>1. reqs \in [Ctx -> Seq(Request)] /\ commReqs \in [Ctx -> SUBSET Nat]
    BY DEF IInv, TypeOK, ContextTypeOK, EventId
  <2>2. ASSUME /\ \A x \in App : reqs'[x] = reqs[x] /\ commReqs'[x] = commReqs[x]
               /\ answer' = answer
        PROVE  UNCHANGED Remote!vars
    BY <2>2 DEF Remote!vars
  <2>3. CASE RouterStep \/ (\E s \in Server : ServerStep(s)) \/ UNCHANGED vars
    BY <2>2, <2>3, OthersAlone
  <2>4. ASSUME NEW x \in App, AppCall(x) \/ AppRun(x)
        PROVE  Remote!Next \/ UNCHANGED Remote!vars
    <3>1. CASE \E m \in Comm, op \in Op : Submit(x, m, op)
      <4>1. PICK m \in Comm, op \in Op : Issue(x, m, op) /\ answer' = answer
        BY <3>1 DEF Submit, appVars
      <4>2. PICK r : r = [comm |-> m, op |-> op]
        OBVIOUS
      <4>3. /\ r \in Request /\ reqs' = [reqs EXCEPT ![x] = Append(@, r)]
            /\ commReqs' = [commReqs EXCEPT ![x] = @ \cup {Len(reqs[x]) + 1}]
        BY <4>1, <4>2 DEF Issue, Request
      <4>4. /\ [y \in App |-> reqs'[y]]
               = [[y \in App |-> reqs[y]] EXCEPT ![x] = Append(@, r)]
            /\ [y \in App |-> commReqs'[y]]
               = [[y \in App |-> commReqs[y]] EXCEPT
                     ![x] = @ \cup {Len([y \in App |-> reqs[y]][x]) + 1}]
        BY <2>1, <4>3 DEF Ctx
      <4>5. Remote!Make(x)
        BY <4>1, <4>3, <4>4 DEF Remote!Make
      <4> QED
        BY <4>5 DEF Remote!Next
    <3>2. CASE (\E i \in Ids : Wait(x, i)) \/ Close(x) \/ WaitReturn(x)
      <4>1. reqs' = reqs /\ commReqs' = commReqs /\ answer' = answer
        BY <3>2 DEF Wait, Close, WaitReturn, contextVars
      <4> QED
        BY <2>2, <4>1
    <3>3. CASE WaitEvent(x) \/ MakeProgress(x)
      <4>1. PICK i : i = Head(r2c[x]).id
        OBVIOUS
      <4>2. /\ i \in commReqs[x] /\ i \in Ids /\ i \in 1 .. Len(reqs[x])
            /\ reqs' = reqs /\ commReqs' = [commReqs EXCEPT ![x] = @ \ {i}]
            /\ Fits(reqs[x][i], answer'[x][i])
            /\ \A y \in App, j \in Ids :
                  <<y, j>> # <<x, i>> => answer'[y][j] = answer[y][j]
        BY <3>3, <4>1, TakesAnswer
      <4>3. /\ [y \in App |-> commReqs'[y]]
               = [[y \in App |-> commReqs[y]] EXCEPT ![x] = @ \ {i}]
            /\ [y \in App |-> reqs'[y]] = [y \in App |-> reqs[y]]
            /\ [y \in App |-> reqs[y]][x] = reqs[x]
            /\ [y \in App |-> commReqs[y]][x] = commReqs[x]
        BY <2>1, <4>2 DEF Ctx
      <4>4. Remote!Complete(x, i)
        BY <4>2, <4>3 DEF Remote!Complete
      <4> QED
        BY <4>2, <4>4 DEF Remote!Next
    <3> QED
      BY <3>1, <3>2, <3>3, <2>4 DEF AppCall, AppRun
  <2> QED
    BY <2>3, <2>4 DEF Next
<1> QED
  BY <1>1, <1>2, InitIInv, NextIInv, InitOrder, NextOrder, InitPlaces, NextPlaces,
     InitFanOut, NextFanOut, InitMatches, NextMatches, InitRight, NextRight,
     PTL DEF Spec, RemoteSpec, Remote!Spec
=============================================================================
