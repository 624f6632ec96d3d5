---------------------------- MODULE DaemonProofs ----------------------------
(***************************************************************************)
(* Theorems about Daemon, for every topology: types, pending and           *)
(* callbacks; the order of requests and where a request is; where the      *)
(* copies of a request are, and that no lookup fails.                      *)
(***************************************************************************)
EXTENDS Daemon, FiniteSetTheorems, SequenceTheorems, TLAPS

-----------------------------------------------------------------------------
(* Queues of events.                                                       *)

\* An event that is read was an event of its connection, and so are the rest.
LEMMA ReceivedType ==
    ASSUME NEW X, NEW E, NEW q \in [X -> Seq(E)], NEW x \in X, q[x] # <<>>
    PROVE  /\ Received(q, x) \in [X -> Seq(E)]
           /\ Head(q[x]) \in E
  BY HeadTailProperties DEF Received

\* Sending an event of the right kind leaves a queue of that kind.
LEMMA SentType ==
    ASSUME NEW X, NEW E, NEW q \in [X -> Seq(E)], NEW x, NEW ev \in E
    PROVE  Sent(q, x, ev) \in [X -> Seq(E)]
  BY AppendProperties DEF Sent

\* A list of servers has a finite number of members, and at least one.
LEMMA ListSize ==
    ASSUME NEW m \in Comm, NEW g \in Lists(m)
    PROVE  /\ Members[m][g] \in SUBSET Server
           /\ IsFiniteSet(Members[m][g])
           /\ Cardinality(Members[m][g]) \in Nat \ {0}
  <1>1. Members[m][g] \in (SUBSET Server) \ {{}}
    BY CommAssumption, ElementOfSeq DEF Lists
  <1>2. IsFiniteSet(Members[m][g])
    BY <1>1, PartiesAssumption, FS_Subset
  <1> QED
    BY <1>1, <1>2, FS_CardinalityType, FS_EmptySet

\* What SetToSeq makes of a finite set is a sequence over it.
LEMMA SetToSeqType ==
    ASSUME NEW S, IsFiniteSet(S)
    PROVE  SetToSeq(S) \in Seq(S)
  <1>1. Cardinality(S) \in Nat /\ ExistsBijection(1 .. Cardinality(S), S)
    BY FS_CardinalityType
  <1>2. PICK f \in [1 .. Cardinality(S) -> S] : IsInjective(f)
    BY <1>1 DEF ExistsBijection, Bijection, Injection
  <1>3. SetToSeq(S) \in [1 .. Cardinality(S) -> S]
    BY <1>2 DEF SetToSeq
  <1> QED
    BY <1>1, <1>3, SeqDef

\* The events a CommCreateEvent, a request and a closed client turn into are
\* events for servers.
LEMMA CreateEventsType ==
    ASSUME NEW m \in Comm
    PROVE  CreateEvents(m) \in [Server -> Seq(ServerEvent)]
  <1>1. \A s \in Server : Len(Slots[m][s]) \in Nat
    BY SlotsAssumption
  <1>2. CommCreateEvent(m) \in ServerEvent
    BY DEF CommCreateEvent, ServerEvent
  <1> QED
    BY <1>1, <1>2, IsASeq DEF CreateEvents

LEMMA RequestEventsType ==
    ASSUME NEW m \in Comm, NEW op \in Op, NEW id \in InfoId
    PROVE  RequestEvents(m, op, id) \in [Server -> Seq(ServerEvent)]
  <1> SUFFICES ASSUME NEW s \in Server
               PROVE  [k \in 1 .. Len(Slots[m][s]) |->
                          SrvrReqEvent(m, op, id, Slots[m][s][k])] \in Seq(ServerEvent)
    BY DEF RequestEvents
  <1>1. Slots[m][s] \in Seq(Nat)
    BY SlotsAssumption
  <1>2. \A k \in 1 .. Len(Slots[m][s]) :
            SrvrReqEvent(m, op, id, Slots[m][s][k]) \in ServerEvent
    BY <1>1, ElementOfSeq DEF SrvrReqEvent, ServerEvent
  <1> QED
    BY <1>1, <1>2, IsASeq

LEMMA DestroyEventsType ==
    ASSUME NEW c \in Ctx, clientComms \in [Ctx -> SUBSET Comm]
    PROVE  DestroyEvents(c) \in [Server -> Seq(ServerEvent)]
  <1> SUFFICES ASSUME NEW s \in Server
               PROVE  LET ms == SetToSeq({m \in clientComms[c] : s \in Members[m][1]})
                      IN  [k \in 1 .. Len(ms) |-> CommDestroyEvent(ms[k])]
                              \in Seq(ServerEvent)
    BY DEF DestroyEvents
  <1> DEFINE S == {m \in clientComms[c] : s \in Members[m][1]}
             ms == SetToSeq(S)
  <1>1. S \subseteq Comm /\ IsFiniteSet(S)
    BY PartiesAssumption, FS_Subset
  <1>2. ms \in Seq(Comm)
    BY <1>1, SetToSeqType, SeqMonotonic
  <1> HIDE DEF ms
  <1>3. \A k \in 1 .. Len(ms) : CommDestroyEvent(ms[k]) \in ServerEvent
    BY <1>2, ElementOfSeq DEF CommDestroyEvent, ServerEvent
  <1>4. [k \in 1 .. Len(ms) |-> CommDestroyEvent(ms[k])] \in Seq(ServerEvent)
    BY <1>2, <1>3, IsASeq
  <1> QED
    BY <1>4 DEF ms

\* Router::sendEvent keeps the kinds of the queues it appends to.
LEMMA ForwardType ==
    ASSUME NEW out \in [Server -> Seq(ServerEvent)],
           r2s \in [Server -> Seq(ServerEvent)],
           pendingEvents \in [Server -> Seq(ServerEvent)],
           Forward(out)
    PROVE  /\ r2s' \in [Server -> Seq(ServerEvent)]
           /\ pendingEvents' \in [Server -> Seq(ServerEvent)]
  BY ConcatProperties DEF Forward

-----------------------------------------------------------------------------
(* The request accounting of the router.                                   *)

\* The lists of a communicator that have not been answered by all their objects
\* are a finite set.
LEMMA IncompleteFinite ==
    ASSUME NEW m \in Comm, NEW info \in CommReqInfo(m)
    PROVE  /\ IsFiniteSet(Incomplete(info))
           /\ Cardinality(Incomplete(info)) \in Nat
  <1>1. Len(Members[m]) \in Nat /\ info.comm = m
    BY CommAssumption DEF CommReqInfo
  <1>2. IsFiniteSet(Lists(m))
    BY <1>1, FS_Interval DEF Lists
  <1> QED
    BY <1>1, <1>2, FS_Subset, FS_CardinalityType DEF Incomplete

\* A new info has every list pending.
LEMMA NewInfoType ==
    ASSUME NEW m \in Comm, NEW op \in Op
    PROVE  /\ NewInfo(m, op) \in CommReqInfo(m)
           /\ NewInfo(m, op).pending = Cardinality(Incomplete(NewInfo(m, op)))
  <1>1. Len(Members[m]) \in Nat
    BY CommAssumption
  <1>2. Zero \in Value
    BY DEF Zero, Value
  <1>3. NewInfo(m, op) \in CommReqInfo(m)
    BY <1>1, <1>2 DEF NewInfo, CommReqInfo, Lists
  <1>4. Incomplete(NewInfo(m, op)) = 1 .. Len(Members[m])
    BY ListSize DEF Incomplete, NewInfo, Lists
  <1>5. Cardinality(1 .. Len(Members[m])) = Len(Members[m])
    BY <1>1, FS_Interval
  <1> QED
    BY <1>3, <1>4, <1>5 DEF NewInfo

\* An answer that completes its list takes the list out of the pending ones,
\* and any other answer leaves them as they are.
LEMMA CollectedType ==
    ASSUME NEW m \in Comm, NEW info \in CommReqInfo(m), NEW ev \in UpEvent,
           ev.type = "CommResp", ev.grp \in Lists(m),
           info.pending = Cardinality(Incomplete(info))
    PROVE  /\ Collected(info, ev) \in CommReqInfo(m)
           /\ Collected(info, ev).pending = Cardinality(Incomplete(Collected(info, ev)))
  <1> DEFINE g == ev.grp
             new == Collected(info, ev)
             size == Cardinality(Members[m][g])
  <1>1. info.comm = m /\ new.comm = m
    BY DEF CommReqInfo, Collected
  <1>2. ev.value \in Value /\ ev.err \in SUBSET Server
    BY DEF UpEvent, ServerConnectEvent
  <1>3. size \in Nat \ {0} /\ info.got[g] \in Nat
    BY ListSize DEF CommReqInfo
  <1>4. /\ new.got \in [Lists(m) -> Nat]
        /\ new.got[g] = info.got[g] + 1
        /\ \A h \in Lists(m) : h # g => new.got[h] = info.got[h]
    BY <1>3 DEF CommReqInfo, Collected
  <1>5. new.value \in [Lists(m) -> Value]
    <2>1. \A v \in Value : fpAdd(v, ev.value) \in Value
      BY <1>2 DEF Value, fpAdd
    <2> QED
      BY <2>1 DEF CommReqInfo, Collected
  <1>6. new.op \in Op /\ new.err \in SUBSET Server
    BY <1>2 DEF CommReqInfo, Collected
  <1>7. info.pending \in Nat /\ IsFiniteSet(Incomplete(info))
    BY IncompleteFinite
  <1>8. new.pending = Cardinality(Incomplete(new))
    <2>1. CASE ListComplete(info, ev)
      <3>1. new.got[g] = size /\ new.pending = info.pending - 1
        BY <2>1, <1>1, <1>4 DEF ListComplete, Collected
      <3>2. g \in Incomplete(info)
        <4>1. info.got[g] < size
          BY <3>1, <1>3, <1>4
        <4> QED
          BY <4>1, <1>1 DEF Incomplete
      <3>3. Incomplete(new) = Incomplete(info) \ {g}
        <4>1. ~ (new.got[g] < size)
          BY <3>1, <1>3
        <4>2. \A h \in Lists(m) : h # g =>
                (h \in Incomplete(new) <=> h \in Incomplete(info))
          BY <1>1, <1>4 DEF Incomplete
        <4>3. Incomplete(new) \subseteq Lists(m) /\ Incomplete(info) \subseteq Lists(m)
          BY <1>1 DEF Incomplete
        <4>4. g \notin Incomplete(new)
          BY <4>1, <1>1 DEF Incomplete
        <4> QED
          BY <4>2, <4>3, <4>4
      <3>4. Cardinality(Incomplete(info) \ {g}) = Cardinality(Incomplete(info)) - 1
        <4> HIDE DEF new, size
        <4> QED
          BY <3>2, <1>7, FS_RemoveElement
      <3> QED
        BY <3>1, <3>3, <3>4
    <2>2. CASE ~ ListComplete(info, ev)
      <3>1. new.got[g] # size /\ new.pending = info.pending
        BY <2>2, <1>1, <1>4 DEF ListComplete, Collected
      <3>2. g \in Incomplete(new) <=> g \in Incomplete(info)
        BY <3>1, <1>1, <1>3, <1>4 DEF Incomplete
      <3>3. Incomplete(new) = Incomplete(info)
        BY <3>2, <1>1, <1>4 DEF Incomplete
      <3> QED
        BY <3>1, <3>3
    <2> QED
      BY <2>1, <2>2
  <1>9. new.pending \in Nat
    <2>1. Incomplete(new) \subseteq Lists(m)
      BY <1>1 DEF Incomplete
    <2>2. IsFiniteSet(Lists(m))
      BY CommAssumption, FS_Interval DEF Lists
    <2> QED
      BY <1>8, <2>1, <2>2, FS_Subset, FS_CardinalityType
  <1> QED
    BY <1>1, <1>4, <1>5, <1>6, <1>8, <1>9 DEF CommReqInfo, Collected

-----------------------------------------------------------------------------
(* The type invariant is inductive together with the accounting of the     *)
(* router, without which pending could be counted below zero.              *)

IInv == TypeOK /\ PendingCounts

\* The initial state has no request and empty queues.
LEMMA InitIInv == Init => IInv
  <1> SUFFICES ASSUME Init PROVE IInv
    OBVIOUS
  <1>1. ChannelTypeOK
    BY DEF Init, ChannelInit, ChannelTypeOK
  <1>2. ContextTypeOK
    BY DEF Init, ContextInit, ContextTypeOK
  <1>3. AppTypeOK
    BY DEF Init, AppInit, AppTypeOK, NoAnswer, Answer
  <1>4. ServerTypeOK
    BY DEF Init, ServerInit, ServerTypeOK
  <1>5. RouterTypeOK
    BY DEF Init, RouterInit, RouterTypeOK
  <1>6. PendingCounts
    BY DEF Init, RouterInit, PendingCounts
  <1> QED
    BY <1>1, <1>2, <1>3, <1>4, <1>5, <1>6 DEF IInv, TypeOK

\* A request that reaches the router is entered with every list pending.
LEMMA AllocateType ==
    ASSUME IInv, NEW id \in InfoId, NEW m \in Comm, NEW op \in Op,
           Allocate(id, NewInfo(m, op))
    PROVE  /\ DOMAIN reqInfo' \subseteq InfoId
           /\ \A i \in DOMAIN reqInfo' : \E n \in Comm : reqInfo'[i] \in CommReqInfo(n)
           /\ PendingCounts'
  <1>1. /\ DOMAIN reqInfo \subseteq InfoId
        /\ \A i \in DOMAIN reqInfo :
             /\ \E n \in Comm : reqInfo[i] \in CommReqInfo(n)
             /\ reqInfo[i].pending = Cardinality(Incomplete(reqInfo[i]))
    BY DEF IInv, TypeOK, RouterTypeOK, PendingCounts
  <1>2. \A i \in DOMAIN reqInfo' :
          i \in DOMAIN reqInfo \cup {id} /\
          reqInfo'[i] = IF i = id THEN NewInfo(m, op) ELSE reqInfo[i]
    BY DEF Allocate
  <1>3. \A i \in DOMAIN reqInfo' :
          reqInfo'[i].pending = Cardinality(Incomplete(reqInfo'[i]))
    BY <1>1, <1>2, NewInfoType
  <1>4. DOMAIN reqInfo' \subseteq InfoId
    BY <1>1, <1>2
  <1>5. \A i \in DOMAIN reqInfo' : \E n \in Comm : reqInfo'[i] \in CommReqInfo(n)
    BY <1>1, <1>2, NewInfoType
  <1>6. PendingCounts'
    BY <1>3 DEF PendingCounts, Incomplete
  <1> QED
    BY <1>4, <1>5, <1>6

\* The event a handler of the router or of a server is called with.
LEMMA ClientEventType ==
    ASSUME ChannelTypeOK, NEW c \in Ctx, NEW type, Arrives(c2r[c], type)
    PROVE  /\ Received(c2r, c) \in [Ctx -> Seq(ClientEvent)]
           /\ Head(c2r[c]) \in ClientEvent
           /\ type \in {"CommCreate", "CommReq"} => Head(c2r[c]).comm \in Comm
           /\ type = "CommReq" => /\ Head(c2r[c]).op \in Op
                                  /\ Head(c2r[c]).id \in EventId
  <1>1. Head(c2r[c]) \in ClientEvent /\ Head(c2r[c]).type = type
    BY ReceivedType DEF ChannelTypeOK, Arrives
  <1> QED
    BY <1>1, ReceivedType DEF ChannelTypeOK, Arrives, ClientEvent, Eof

LEMMA UpEventType ==
    ASSUME ChannelTypeOK, NEW s \in Server, NEW type, Arrives(s2r[s], type)
    PROVE  /\ Received(s2r, s) \in [Server -> Seq(UpEvent)]
           /\ Head(s2r[s]) \in UpEvent
           /\ Head(s2r[s]).type = type
           /\ type = "CommResp" => /\ Head(s2r[s]).id \in InfoId
                                   /\ Head(s2r[s]).grp \in Nat
                                   /\ Head(s2r[s]).value \in Value
                                   /\ Head(s2r[s]).err \in SUBSET Server
  <1>1. Head(s2r[s]) \in UpEvent /\ Head(s2r[s]).type = type
    BY ReceivedType DEF ChannelTypeOK, Arrives
  <1>2. Received(s2r, s) \in [Server -> Seq(UpEvent)]
    BY ReceivedType DEF ChannelTypeOK, Arrives
  <1>3. ASSUME NEW ev \in UpEvent, ev.type = "CommResp"
        PROVE  ev.id \in InfoId /\ ev.grp \in Nat /\ ev.value \in Value
               /\ ev.err \in SUBSET Server
    BY <1>3 DEF UpEvent, ServerConnectEvent
  <1> QED
    BY <1>1, <1>2, <1>3

LEMMA ServerEventType ==
    ASSUME ChannelTypeOK, NEW s \in Server, NEW type, Arrives(r2s[s], type)
    PROVE  /\ Received(r2s, s) \in [Server -> Seq(ServerEvent)]
           /\ Head(r2s[s]) \in ServerEvent
           /\ Head(r2s[s]).comm \in Comm
           /\ type = "CommReq" => /\ Head(r2s[s]).op \in Op
                                  /\ Head(r2s[s]).id \in InfoId
                                  /\ Head(r2s[s]).grp \in Nat
  <1>1. Head(r2s[s]) \in ServerEvent /\ Head(r2s[s]).type = type
    BY ReceivedType DEF ChannelTypeOK, Arrives
  <1> QED
    BY <1>1, ReceivedType DEF ChannelTypeOK, Arrives, ServerEvent

\* The handlers of the router for the events of its clients.
LEMMA RouterClientStep ==
    ASSUME IInv, NEW c \in Ctx,
           RtrCommCreate(c) \/ RtrCommReq(c) \/ RtrClientClosed(c),
           UNCHANGED <<contextVars, appVars, serverVars>>
    PROVE  IInv'
  <1> USE DEF IInv, TypeOK
  <1>1. ContextTypeOK' /\ AppTypeOK' /\ ServerTypeOK'
    BY DEF ContextTypeOK, AppTypeOK, ServerTypeOK, contextVars, appVars, serverVars
  <1>2. CASE RtrCommCreate(c)
    <2> DEFINE m == Head(c2r[c]).comm
    <2>1. m \in Comm /\ Received(c2r, c) \in [Ctx -> Seq(ClientEvent)]
      BY <1>2, ClientEventType DEF RtrCommCreate
    <2>2. /\ r2s' \in [Server -> Seq(ServerEvent)]
          /\ pendingEvents' \in [Server -> Seq(ServerEvent)]
      BY <1>2, <2>1, CreateEventsType, ForwardType
         DEF RtrCommCreate, ChannelTypeOK, RouterTypeOK
    <2>3. ChannelTypeOK'
      BY <1>2, <2>1, <2>2 DEF RtrCommCreate, ChannelTypeOK
    <2>4. clientComms' \in [Ctx -> SUBSET Comm]
      BY <1>2, <2>1 DEF RtrCommCreate, RouterTypeOK
    <2>5. RouterTypeOK' /\ PendingCounts'
      BY <1>2, <2>2, <2>4 DEF RtrCommCreate, RouterTypeOK, PendingCounts, Incomplete
    <2> QED
      BY <1>1, <2>3, <2>5
  <1>3. CASE RtrCommReq(c)
    <2> DEFINE ev == Head(c2r[c])
    <2>1. /\ ev.comm \in Comm
          /\ ev.op \in Op
          /\ <<c, ev.id>> \in InfoId
          /\ Received(c2r, c) \in [Ctx -> Seq(ClientEvent)]
      BY <1>3, ClientEventType DEF RtrCommReq, InfoId
    <2>2. /\ r2s' \in [Server -> Seq(ServerEvent)]
          /\ pendingEvents' \in [Server -> Seq(ServerEvent)]
      BY <1>3, <2>1, RequestEventsType, ForwardType
         DEF RtrCommReq, ChannelTypeOK, RouterTypeOK
    <2>3. ChannelTypeOK'
      BY <1>3, <2>1, <2>2 DEF RtrCommReq, ChannelTypeOK
    <2>4. /\ DOMAIN reqInfo' \subseteq InfoId
          /\ \A i \in DOMAIN reqInfo' : \E n \in Comm : reqInfo'[i] \in CommReqInfo(n)
          /\ PendingCounts'
      BY <1>3, <2>1, AllocateType DEF RtrCommReq
    <2>5. RouterTypeOK'
      BY <1>3, <2>2, <2>4 DEF RtrCommReq, RouterTypeOK
    <2> QED
      BY <1>1, <2>3, <2>4, <2>5
  <1>4. CASE RtrClientClosed(c)
    <2>1. Received(c2r, c) \in [Ctx -> Seq(ClientEvent)]
      BY <1>4, ClientEventType DEF RtrClientClosed
    <2>2. /\ r2s' \in [Server -> Seq(ServerEvent)]
          /\ pendingEvents' \in [Server -> Seq(ServerEvent)]
      BY <1>4, DestroyEventsType, ForwardType
         DEF RtrClientClosed, ChannelTypeOK, RouterTypeOK
    <2>3. ChannelTypeOK'
      BY <1>4, <2>1, <2>2 DEF RtrClientClosed, ChannelTypeOK
    <2>4. RouterTypeOK' /\ PendingCounts'
      BY <1>4, <2>2 DEF RtrClientClosed, RouterTypeOK, PendingCounts, Incomplete
    <2> QED
      BY <1>1, <2>3, <2>4
  <1> QED
    BY <1>2, <1>3, <1>4

\* The handlers of the router for the events of its servers.
LEMMA RouterServerStep ==
    ASSUME IInv, NEW s \in Server,
           RtrServerConnect(s) \/ RtrRespQueue(s) \/ RtrRespSend(s),
           UNCHANGED <<contextVars, appVars, serverVars>>
    PROVE  IInv'
  <1> USE DEF IInv, TypeOK
  <1>1. ContextTypeOK' /\ AppTypeOK' /\ ServerTypeOK'
    BY DEF ContextTypeOK, AppTypeOK, ServerTypeOK, contextVars, appVars, serverVars
  <1>2. CASE RtrServerConnect(s)
    <2>1. Received(s2r, s) \in [Server -> Seq(UpEvent)]
      BY <1>2, UpEventType DEF RtrServerConnect
    <2>2. r2s' \in [Server -> Seq(ServerEvent)]
      BY <1>2, ConcatProperties DEF RtrServerConnect, Flush, ChannelTypeOK, RouterTypeOK
    <2>3. pendingEvents' \in [Server -> Seq(ServerEvent)]
      BY <1>2, EmptySeq DEF RtrServerConnect, RouterTypeOK
    <2>4. ChannelTypeOK'
      BY <1>2, <2>1, <2>2 DEF RtrServerConnect, ChannelTypeOK
    <2>5. RouterTypeOK' /\ PendingCounts'
      BY <1>2, <2>3 DEF RtrServerConnect, RouterTypeOK, PendingCounts, Incomplete
    <2> QED
      BY <1>1, <2>4, <2>5
  <1>3. ASSUME RtrRespQueue(s) \/ RtrRespSend(s)
        PROVE  LET ev == Head(s2r[s])
                   new == Collected(reqInfo[ev.id], ev)
               IN  /\ Received(s2r, s) \in [Server -> Seq(UpEvent)]
                   /\ ev.id \in DOMAIN reqInfo /\ ev.id \in InfoId
                   /\ ev.err \in SUBSET Server /\ ev.value \in Value
                   /\ \E m \in Comm : /\ reqInfo[ev.id] \in CommReqInfo(m)
                                      /\ new \in CommReqInfo(m)
                   /\ new.pending = Cardinality(Incomplete(new))
    <2> DEFINE ev == Head(s2r[s])
               info == reqInfo[ev.id]
    <2>1. Arrives(s2r[s], "CommResp") /\ InfoLive(s)
      BY <1>3 DEF RtrRespQueue, RtrRespSend
    <2>2. /\ Received(s2r, s) \in [Server -> Seq(UpEvent)]
          /\ ev \in UpEvent /\ ev.type = "CommResp"
          /\ ev.id \in InfoId /\ ev.err \in SUBSET Server /\ ev.value \in Value
      BY <2>1, UpEventType
    <2>3. ev.id \in DOMAIN reqInfo /\ ev.grp \in Lists(info.comm)
      BY <2>1 DEF InfoLive
    <2>4. PICK m \in Comm : info \in CommReqInfo(m)
      BY <2>3 DEF RouterTypeOK
    <2>5. info.comm = m /\ info.pending = Cardinality(Incomplete(info))
      BY <2>3, <2>4 DEF CommReqInfo, PendingCounts
    <2>6. /\ Collected(info, ev) \in CommReqInfo(m)
          /\ Collected(info, ev).pending = Cardinality(Incomplete(Collected(info, ev)))
      BY <2>2, <2>3, <2>4, <2>5, CollectedType
    <2> QED
      BY <2>2, <2>3, <2>4, <2>6
  <1>4. CASE RtrRespQueue(s)
    <2> DEFINE ev == Head(s2r[s])
               new == Collected(reqInfo[ev.id], ev)
    <2>1. reqInfo' = [reqInfo EXCEPT ![ev.id] = new]
      BY <1>4 DEF RtrRespQueue, Update
    <2>2. PICK m \in Comm : new \in CommReqInfo(m)
      BY <1>3, <1>4
    <2>3. new.pending = Cardinality(Incomplete(new)) /\ ev.id \in DOMAIN reqInfo
      BY <1>3, <1>4
    <2> HIDE DEF ev, new
    <2>4. DOMAIN reqInfo' = DOMAIN reqInfo
      BY <2>1
    <2>5. \A i \in DOMAIN reqInfo : reqInfo'[i] = IF i = ev.id THEN new ELSE reqInfo[i]
      BY <2>1
    <2>6. \A i \in DOMAIN reqInfo' :
            reqInfo'[i].pending = Cardinality(Incomplete(reqInfo'[i]))
      BY <2>3, <2>4, <2>5 DEF PendingCounts
    <2>7. PendingCounts'
      BY <2>6 DEF PendingCounts, Incomplete
    <2>8. RouterTypeOK'
      BY <1>4, <2>2, <2>4, <2>5 DEF RtrRespQueue, RouterTypeOK
    <2>9. ChannelTypeOK'
      BY <1>3, <1>4 DEF RtrRespQueue, ChannelTypeOK
    <2> QED
      BY <1>1, <2>7, <2>8, <2>9
  <1>5. CASE RtrRespSend(s)
    <2> DEFINE ev == Head(s2r[s])
               info == reqInfo[ev.id]
    <2>1. PICK m \in Comm : info \in CommReqInfo(m) /\ Collected(info, ev) \in CommReqInfo(m)
      BY <1>3, <1>5
    <2>2. /\ ev.id \in InfoId /\ ev.err \in SUBSET Server /\ ev.value \in Value
          /\ ev.id \in DOMAIN reqInfo
      BY <1>3, <1>5
    <2>3. ReplyValue(info, ev) \in Seq(Value)
      <3>1. Collected(info, ev).value \in [1 .. Len(Members[m]) -> Value]
        BY <2>1 DEF CommReqInfo, Lists
      <3>2. Len(Members[m]) \in Nat
        BY CommAssumption
      <3>3. Collected(info, ev).value \in Seq(Value)
        BY <3>1, <3>2, SeqDef
      <3>4. <<ev.value>> \in Seq(Value) /\ <<>> \in Seq(Value)
        BY <2>2
      <3> QED
        BY <3>3, <3>4 DEF ReplyValue
    <2>4. ReplyEvent(ev.id, info, ev) \in DownEvent
      <3>1. ev.id[2] \in EventId
        BY <2>2 DEF InfoId
      <3>2. info.err \in SUBSET Server
        BY <2>1 DEF CommReqInfo
      <3> QED
        BY <2>2, <2>3, <3>1, <3>2 DEF ReplyEvent, ClientRespEvent, DownEvent
    <2>5. r2c' \in [Ctx -> Seq(DownEvent)]
      BY <1>5, <2>4, SentType DEF RtrRespSend, ChannelTypeOK
    <2>6. ChannelTypeOK'
      BY <1>3, <1>5, <2>5 DEF RtrRespSend, ChannelTypeOK
    <2>7. reqInfo' = [i \in DOMAIN reqInfo \ {ev.id} |-> reqInfo[i]]
      BY <1>5 DEF RtrRespSend, Free
    <2>8. RouterTypeOK'
      BY <1>5, <2>7 DEF RtrRespSend, RouterTypeOK
    <2>9. PendingCounts'
      BY <2>7 DEF PendingCounts, Incomplete
    <2> QED
      BY <1>1, <2>6, <2>8, <2>9
  <1> QED
    BY <1>2, <1>4, <1>5

\* Making a request and taking its answer, in an application or in a server.
LEMMA IssueType ==
    ASSUME ChannelTypeOK, ContextTypeOK, NEW x \in Ctx, NEW m \in Comm, NEW op \in Op,
           Issue(x, m, op)
    PROVE  ContextTypeOK' /\ c2r' \in [Ctx -> Seq(ClientEvent)]
  <1> DEFINE id == Len(reqs[x]) + 1
  <1>1. id \in EventId
    BY LenProperties DEF ContextTypeOK, EventId
  <1>2. [comm |-> m, op |-> op] \in Request
    BY DEF Request
  <1>3. reqs' \in [Ctx -> Seq(Request)]
    BY <1>2, AppendProperties DEF Issue, ContextTypeOK
  <1>4. commReqs' \in [Ctx -> SUBSET EventId]
    BY <1>1 DEF Issue, ContextTypeOK
  <1>5. CommReqEvent(m, op, id) \in ClientEvent /\ FirstUse(m) \in Seq(ClientEvent)
    <2>1. CommReqEvent(m, op, id) \in ClientEvent
      BY <1>1 DEF CommReqEvent, ClientEvent
    <2>2. CommCreateEvent(m) \in ClientEvent
      BY DEF CommCreateEvent, ClientEvent
    <2>3. \A ev \in ClientEvent : <<ev>> \in Seq(ClientEvent)
      OBVIOUS
    <2> QED
      BY <2>1, <2>2, <2>3, EmptySeq DEF FirstUse
  <1>6. \A q \in Seq(ClientEvent) :
          Append(q \o FirstUse(m), CommReqEvent(m, op, id)) \in Seq(ClientEvent)
    BY <1>5, ConcatProperties, AppendProperties
  <1>7. c2r' = [c2r EXCEPT ![x] = Append(c2r[x] \o FirstUse(m), CommReqEvent(m, op, id))]
    BY DEF Issue, SendRequest
  <1>8. c2r' \in [Ctx -> Seq(ClientEvent)]
    BY <1>6, <1>7 DEF ChannelTypeOK
  <1> QED
    BY <1>3, <1>4, <1>8 DEF Issue, ContextTypeOK

LEMMA ConsumeType ==
    ASSUME ChannelTypeOK, ContextTypeOK, NEW x \in Ctx, Consume(x)
    PROVE  /\ ContextTypeOK'
           /\ r2c' \in [Ctx -> Seq(DownEvent)]
           /\ Head(r2c[x]) \in DownEvent
  <1>1. Received(r2c, x) \in [Ctx -> Seq(DownEvent)] /\ Head(r2c[x]) \in DownEvent
    BY ReceivedType DEF Consume, ChannelTypeOK
  <1>2. ContextTypeOK'
    BY DEF Consume, ContextTypeOK
  <1> QED
    BY <1>1, <1>2 DEF Consume

\* The answer of a server.
LEMMA CommRespEventType ==
    ASSUME NEW id \in InfoId, NEW grp \in Nat, NEW value \in Value,
           NEW err \in SUBSET Server
    PROVE  CommRespEvent(id, grp, value, err) \in UpEvent
  BY DEF CommRespEvent, UpEvent

\* Every event of a server keeps the types.
LEMMA ServerTypeStep ==
    ASSUME IInv, NEW s \in Server, ServerStep(s)
    PROVE  IInv'
  <1> USE DEF IInv, TypeOK
  <1>1. AppTypeOK' /\ RouterTypeOK' /\ PendingCounts'
    BY DEF ServerStep, AppTypeOK, RouterTypeOK, PendingCounts, Incomplete,
           appVars, routerVars
  <1>2. s \in Ctx
    BY DEF Ctx
  <1>3. CASE ServerStart(s)
    <2>1. ServerConnectEvent \in UpEvent
      BY DEF UpEvent
    <2>2. ChannelTypeOK'
      BY <1>3, <2>1, SentType DEF ServerStart, ChannelTypeOK
    <2> QED
      BY <1>1, <1>3, <2>2 DEF ServerStart, ContextTypeOK, ServerTypeOK, contextVars
  <1>4. CASE SrvrCommCreate(s)
    <2>1. Head(r2s[s]).comm \in Comm /\ Received(r2s, s) \in [Server -> Seq(ServerEvent)]
      BY <1>4, ServerEventType DEF SrvrCommCreate
    <2> QED
      BY <1>1, <1>4, <2>1
         DEF SrvrCommCreate, ChannelTypeOK, ContextTypeOK, ServerTypeOK, contextVars
  <1>5. CASE SrvrCommDestroy(s)
    <2>1. Received(r2s, s) \in [Server -> Seq(ServerEvent)]
      BY <1>5, ServerEventType DEF SrvrCommDestroy
    <2> QED
      BY <1>1, <1>5, <2>1
         DEF SrvrCommDestroy, ChannelTypeOK, ContextTypeOK, ServerTypeOK, contextVars
  <1>6. CASE SrvrReqLocal(s)
    <2> DEFINE ev == Head(r2s[s])
    <2>1. /\ ev.op \in Op /\ ev.id \in InfoId /\ ev.grp \in Nat
          /\ Received(r2s, s) \in [Server -> Seq(ServerEvent)]
      BY <1>6, ServerEventType DEF SrvrReqLocal
    <2>2. PICK ok \in Outcomes(s) :
            /\ ApplySet(s, ev.op, ok)
            /\ s2r' = Sent(s2r, s, CommRespEvent(ev.id, ev.grp, LocalValue(s, ev.op, ok), {}))
      BY <1>6 DEF SrvrReqLocal
    <2>3. applied' \in [Server -> Nat]
      BY <2>2 DEF ApplySet, ServerTypeOK
    <2>4. LocalValue(s, ev.op, ok) \in Value
      BY DEF LocalValue, Reading, Zero, Value
    <2>5. CommRespEvent(ev.id, ev.grp, LocalValue(s, ev.op, ok), {}) \in UpEvent
      BY <2>1, <2>4, CommRespEventType
    <2>6. s2r' \in [Server -> Seq(UpEvent)]
      <3>1. s2r \in [Server -> Seq(UpEvent)]
        BY DEF ChannelTypeOK
      <3> QED
        BY <2>2, <2>5, <3>1, SentType, Zenon
    <2> QED
      BY <1>1, <1>6, <2>1, <2>3, <2>6
         DEF SrvrReqLocal, ChannelTypeOK, ContextTypeOK, ServerTypeOK, contextVars
  <1>7. CASE SrvrReqForward(s)
    <2> DEFINE ev == Head(r2s[s])
               key == [id |-> ev.id, grp |-> ev.grp, op |-> ev.op,
                       req |-> Len(reqs[s]) + 1]
    <2>1. /\ ev.op \in Op /\ ev.id \in InfoId /\ ev.grp \in Nat
          /\ Received(r2s, s) \in [Server -> Seq(ServerEvent)]
      BY <1>7, ServerEventType DEF SrvrReqForward
    <2>2. Nested[s] \in Comm
      BY <1>7, CommAssumption DEF SrvrReqForward, Forwards
    <2>3. Len(reqs[s]) + 1 \in EventId
      BY <1>2, LenProperties DEF ContextTypeOK, EventId
    <2>4. key \in FiniEntry
      BY <2>1, <2>3 DEF FiniEntry
    <2>5. ContextTypeOK' /\ c2r' \in [Ctx -> Seq(ClientEvent)]
      BY <1>2, <1>7, <2>1, <2>2, IssueType DEF SrvrReqForward
    <2>6. finiMap' \in [Server -> SUBSET FiniEntry]
      BY <1>7, <2>4 DEF SrvrReqForward, ServerTypeOK
    <2> QED
      BY <1>1, <1>7, <2>1, <2>5, <2>6
         DEF SrvrReqForward, ChannelTypeOK, ServerTypeOK
  <1>8. CASE SrvrMakeProgress(s)
    <2> DEFINE ev == Head(r2c[s])
    <2>1. /\ ContextTypeOK'
          /\ r2c' \in [Ctx -> Seq(DownEvent)]
          /\ ev.value \in Seq(Value) /\ ev.err \in SUBSET Server
      BY <1>2, <1>8, ConsumeType DEF SrvrMakeProgress, DownEvent
    <2>2. PICK key \in finiMap[s] :
            /\ s2r' = Sent(s2r, s, CommRespEvent(key.id, key.grp, Overwrite(ev), ev.err))
            /\ finiMap' = [finiMap EXCEPT ![s] = @ \ {key}]
      BY <1>8 DEF SrvrMakeProgress
    <2>3. key.id \in InfoId /\ key.grp \in Nat
      BY DEF ServerTypeOK, FiniEntry
    <2>4. Overwrite(ev) \in Value
      BY <2>1, EmptySeq DEF Overwrite, Zero, Value
    <2>5. CommRespEvent(key.id, key.grp, Overwrite(ev), ev.err) \in UpEvent
      BY <2>1, <2>3, <2>4, CommRespEventType
    <2>6. s2r' \in [Server -> Seq(UpEvent)]
      <3>1. s2r \in [Server -> Seq(UpEvent)]
        BY DEF ChannelTypeOK
      <3> QED
        BY <2>2, <2>5, <3>1, SentType, Zenon
    <2>7. finiMap' \in [Server -> SUBSET FiniEntry]
      BY <2>2 DEF ServerTypeOK
    <2> QED
      BY <1>1, <1>8, <2>1, <2>6, <2>7
         DEF SrvrMakeProgress, ChannelTypeOK, ServerTypeOK
  <1> QED
    BY <1>3, <1>4, <1>5, <1>6, <1>7, <1>8 DEF ServerStep

\* The buffers of an application.
LEMMA StoreType ==
    ASSUME AppTypeOK, NEW x \in App, NEW ev \in DownEvent, Store(x, ev)
    PROVE  answer' \in [App -> [Ids -> Answer]]
  <1> DEFINE ans == [value |-> ev.value, err |-> ev.err]
  <1>1. ans \in Answer
    BY DEF DownEvent, Answer
  <1> HIDE DEF ans
  <1>2. answer[x] \in [Ids -> Answer]
    BY DEF AppTypeOK
  <1>3. [answer[x] EXCEPT ![ev.id] = ans] \in [Ids -> Answer]
    BY <1>1, <1>2
  <1>4. answer' = [answer EXCEPT ![x] = [answer[x] EXCEPT ![ev.id] = ans]]
    BY DEF Store, ans
  <1> QED
    BY <1>3, <1>4 DEF AppTypeOK

\* Every call of an application, and every turn of its waiting loop, keeps the
\* types.
LEMMA AppTypeStep ==
    ASSUME IInv, NEW x \in App, AppCall(x) \/ AppRun(x)
    PROVE  IInv'
  <1> USE DEF IInv, TypeOK
  <1>1. ServerTypeOK' /\ RouterTypeOK' /\ PendingCounts'
    BY DEF AppCall, AppRun, ServerTypeOK, RouterTypeOK, PendingCounts, Incomplete,
           serverVars, routerVars
  <1>2. x \in Ctx
    BY DEF Ctx
  <1>3. /\ s2r' \in [Server -> Seq(UpEvent)]
        /\ r2s' \in [Server -> Seq(ServerEvent)]
    BY DEF AppCall, AppRun, ChannelTypeOK
  <1>4. ASSUME NEW m \in Comm, NEW op \in Op, Submit(x, m, op)
        PROVE  IInv'
    <2>1. ContextTypeOK' /\ c2r' \in [Ctx -> Seq(ClientEvent)]
      BY <1>2, <1>4, IssueType DEF Submit
    <2>2. ChannelTypeOK' /\ AppTypeOK'
      BY <1>3, <1>4, <2>1 DEF Submit, ChannelTypeOK, AppTypeOK, appVars
    <2> QED
      BY <1>1, <2>1, <2>2
  <1>5. ASSUME NEW i \in Ids, Wait(x, i)
        PROVE  IInv'
    BY <1>1, <1>3, <1>5
       DEF Wait, ChannelTypeOK, ContextTypeOK, AppTypeOK, contextVars
  <1>6. CASE Close(x)
    <2>1. Eof \in ClientEvent
      BY DEF ClientEvent
    <2>2. c2r' \in [Ctx -> Seq(ClientEvent)]
      BY <1>6, <2>1, SentType DEF Close, ChannelTypeOK
    <2> QED
      BY <1>1, <1>3, <1>6, <2>2
         DEF Close, ChannelTypeOK, ContextTypeOK, AppTypeOK, contextVars
  <1>7. ASSUME Consume(x)
        PROVE  /\ ContextTypeOK'
               /\ r2c' \in [Ctx -> Seq(DownEvent)]
               /\ Store(x, Head(r2c[x])) => answer' \in [App -> [Ids -> Answer]]
    <2>1. /\ ContextTypeOK'
          /\ r2c' \in [Ctx -> Seq(DownEvent)]
          /\ Head(r2c[x]) \in DownEvent
      BY <1>2, <1>7, ConsumeType
    <2> QED
      BY <2>1, StoreType
  <1>8. CASE WaitEvent(x)
    BY <1>1, <1>3, <1>7, <1>8
       DEF WaitEvent, NoCallback, ChannelTypeOK, AppTypeOK
  <1>9. ASSUME NEW i, Callback(x, i)
        PROVE  called' \in [App -> [Ids -> Nat]]
    <2>1. called[x] \in [Ids -> Nat]
      BY DEF AppTypeOK
    <2>2. [called[x] EXCEPT ![i] = called[x][i] + 1] \in [Ids -> Nat]
      <3>1. \A j \in Ids : called[x][j] \in Nat /\ called[x][j] + 1 \in Nat
        BY <2>1
      <3>2. \A j \in Ids : [called[x] EXCEPT ![i] = called[x][i] + 1][j] \in Nat
        BY <2>1, <3>1
      <3> QED
        BY <2>1, <3>2
    <2>3. called' = [called EXCEPT ![x] = [called[x] EXCEPT ![i] = called[x][i] + 1]]
      BY <1>9 DEF Callback
    <2> QED
      BY <2>2, <2>3 DEF AppTypeOK
  <1>10. CASE WaitReturn(x)
    BY <1>1, <1>3, <1>9, <1>10
       DEF WaitReturn, ChannelTypeOK, ContextTypeOK, AppTypeOK, contextVars
  <1>11. CASE MakeProgress(x)
    BY <1>1, <1>3, <1>7, <1>9, <1>11
       DEF MakeProgress, ChannelTypeOK, AppTypeOK
  <1> QED
    BY <1>4, <1>5, <1>6, <1>8, <1>10, <1>11 DEF AppCall, AppRun

\* Nothing changes.
LEMMA StutterStep ==
    ASSUME IInv, UNCHANGED vars
    PROVE  IInv'
  BY DEF IInv, TypeOK, ChannelTypeOK, ContextTypeOK, AppTypeOK, ServerTypeOK,
         RouterTypeOK, PendingCounts, Incomplete,
         vars, channels, contextVars, appVars, serverVars, routerVars

LEMMA NextIInv == IInv /\ [Next]_vars => IInv'
  <1> SUFFICES ASSUME IInv, [Next]_vars PROVE IInv'
    OBVIOUS
  <1>1. CASE RouterStep
    <2>1. ASSUME NEW c \in Ctx, RtrCommCreate(c) \/ RtrCommReq(c) \/ RtrClientClosed(c)
          PROVE  IInv'
      BY <1>1, <2>1, RouterClientStep DEF RouterStep
    <2>2. ASSUME NEW s \in Server, RtrServerConnect(s) \/ RtrRespQueue(s) \/ RtrRespSend(s)
          PROVE  IInv'
      BY <1>1, <2>2, RouterServerStep DEF RouterStep
    <2> QED
      BY <1>1, <2>1, <2>2 DEF RouterStep
  <1>2. ASSUME NEW s \in Server, ServerStep(s)
        PROVE  IInv'
    BY <1>2, ServerTypeStep
  <1>3. ASSUME NEW x \in App, AppCall(x) \/ AppRun(x)
        PROVE  IInv'
    BY <1>3, AppTypeStep
  <1>4. CASE UNCHANGED vars
    BY <1>4, StutterStep
  <1> QED
    BY <1>1, <1>2, <1>3, <1>4 DEF Next

\* Every variable of applications, router, servers and connections keeps its
\* type, and the router counts its pending lists right: size_t pending never
\* goes below zero.
THEOREM TypeCorrect == Spec => []TypeOK
  <1>1. IInv => TypeOK
    BY DEF IInv
  <1> QED
    BY <1>1, InitIInv, NextIInv, PTL DEF Spec

\* At all times pending is the number of lists some object has not answered
\* for: RtrCommRespEvent answers the client exactly when there is none.
THEOREM PendingCorrect == Spec => []PendingCounts
  <1>1. IInv => PendingCounts
    BY DEF IInv
  <1> QED
    BY <1>1, InitIInv, NextIInv, PTL DEF Spec
-----------------------------------------------------------------------------
(***************************************************************************)
(* The callbacks of an application, for every topology and any number of   *)
(* requests.  PWR_ReqWait runs the callback of the request it was called   *)
(* for, once it is out of m_commReqs; PWR_CntxtMakeProgress runs that of   *)
(* the event it read.  Neither looks whether it has run before: that it    *)
(* has not follows from what is waited for and what is still to be         *)
(* answered.                                                               *)
(***************************************************************************)

\* What is still to be answered has been asked.
Outstanding(x) == commReqs[x] \subseteq 1 .. Len(reqs[x])

\* A callback that has run, did so once and after the answer.
RanOnce(x) ==
    \A i \in Ids : called[x][i] # 0 => called[x][i] = 1 /\ i \in Answered(x)

\* The request that is waited for has not had its callback.
StillWaited(x) ==
    waiting[x] # 0 =>
        /\ x \notin Poller
        /\ waiting[x] \in waited[x]
        /\ waiting[x] \in 1 .. Len(reqs[x])
        /\ called[x][waiting[x]] = 0

\* Without polling a callback runs only for a request that was waited for.
RanWaited(x) ==
    x \notin Poller => \A i \in Ids : called[x][i] # 0 => i \in waited[x]

CallsOf(x) == Outstanding(x) /\ RanOnce(x) /\ StillWaited(x) /\ RanWaited(x)

CInv == \A x \in App : CallsOf(x)

-----------------------------------------------------------------------------
\* A step that leaves an application and its context alone.
LEMMA OthersCalls ==
    ASSUME NEW x, CallsOf(x),
           reqs'[x] = reqs[x], commReqs'[x] = commReqs[x], waiting'[x] = waiting[x],
           waited'[x] = waited[x], called'[x] = called[x]
    PROVE  CallsOf(x)'
  BY DEF CallsOf, Outstanding, RanOnce, StillWaited, RanWaited, Answered

\* The types this proof needs of TypeOK.
LEMMA CallTypes ==
    ASSUME IInv, NEW x \in App
    PROVE  /\ x \in Ctx
           /\ reqs \in [Ctx -> Seq(Request)] /\ Len(reqs[x]) \in Nat
           /\ commReqs \in [Ctx -> SUBSET Nat]
           /\ waiting \in [App -> {0} \cup Ids]
           /\ waited \in [App -> SUBSET Ids]
           /\ called \in [App -> [Ids -> Nat]]
           /\ Ids \subseteq Nat /\ 0 \notin Ids
<1>1. x \in Ctx
  BY DEF Ctx
<1>2. reqs \in [Ctx -> Seq(Request)] /\ commReqs \in [Ctx -> SUBSET Nat]
  BY DEF IInv, TypeOK, ContextTypeOK, EventId
<1>3. Len(reqs[x]) \in Nat
  BY <1>1, <1>2, LenProperties
<1>4. /\ waiting \in [App -> {0} \cup Ids] /\ waited \in [App -> SUBSET Ids]
      /\ called \in [App -> [Ids -> Nat]]
  BY DEF IInv, TypeOK, AppTypeOK
<1>5. Ids \subseteq Nat /\ 0 \notin Ids
  BY UseAssumption DEF Ids
<1> QED
  BY <1>1, <1>2, <1>3, <1>4, <1>5

\* The first event of a connection is expected if all are.
LEMMA HeadExpected ==
    ASSUME IInv, NEW x \in Ctx, r2c[x] # <<>>, AnswerExpected(x)
    PROVE  Head(r2c[x]).id \in commReqs[x]
<1>1. r2c[x] \in Seq(DownEvent)
  BY DEF IInv, TypeOK, ChannelTypeOK
<1>2. Len(r2c[x]) \in Nat /\ Len(r2c[x]) # 0 /\ Head(r2c[x]) = r2c[x][1]
  BY <1>1, LenProperties, EmptySeq, HeadTailProperties
<1>3. 1 \in 1 .. Len(r2c[x])
  BY <1>2
<1> QED
  BY <1>2, <1>3 DEF AnswerExpected

-----------------------------------------------------------------------------
LEMMA SubmitCalls ==
    ASSUME IInv, CInv, NEW x \in App, NEW m \in Comm, NEW op \in Op, Submit(x, m, op)
    PROVE  CInv'
<1> DEFINE id == Len(reqs[x]) + 1
<1>1. /\ x \in Ctx /\ Len(reqs[x]) \in Nat /\ reqs \in [Ctx -> Seq(Request)]
      /\ commReqs \in [Ctx -> SUBSET Nat]
  BY CallTypes
<1>2. /\ reqs' = [reqs EXCEPT ![x] = Append(@, [comm |-> m, op |-> op])]
      /\ commReqs' = [commReqs EXCEPT ![x] = @ \cup {id}]
      /\ waiting' = waiting /\ waited' = waited /\ called' = called
  BY DEF Submit, Issue, appVars
<1>3. /\ Len(reqs'[x]) = id /\ commReqs'[x] = commReqs[x] \cup {id}
      /\ \A y \in App \ {x} : reqs'[y] = reqs[y] /\ commReqs'[y] = commReqs[y]
  <2>1. [comm |-> m, op |-> op] \in Request /\ reqs[x] \in Seq(Request)
    BY <1>1 DEF Request
  <2>2. Len(Append(reqs[x], [comm |-> m, op |-> op])) = id
    BY <2>1, AppendProperties
  <2> QED
    BY <1>1, <1>2, <2>2
<1>4. CallsOf(x)
  BY DEF CInv
<1>5. CallsOf(x)'
  <2>1. Outstanding(x)'
    BY <1>1, <1>3, <1>4 DEF CallsOf, Outstanding
  <2>2. \A i \in Answered(x) : i \in Answered(x)'
    BY <1>1, <1>3, <1>4 DEF CallsOf, Outstanding, Answered
  <2>3. RanOnce(x)'
    BY <1>2, <1>4, <2>2 DEF CallsOf, RanOnce
  <2>4. StillWaited(x)' /\ RanWaited(x)'
    BY <1>1, <1>2, <1>3, <1>4 DEF CallsOf, StillWaited, RanWaited
  <2> QED
    BY <2>1, <2>3, <2>4 DEF CallsOf
<1> QED
  BY <1>2, <1>3, <1>5, OthersCalls DEF CInv

LEMMA WaitCalls ==
    ASSUME IInv, CInv, NEW x \in App, NEW i \in Ids, Wait(x, i)
    PROVE  CInv'
<1>1. /\ waiting \in [App -> {0} \cup Ids] /\ waited \in [App -> SUBSET Ids]
  BY CallTypes
<1>2. /\ x \notin Poller /\ i \in 1 .. Len(reqs[x]) /\ i \notin waited[x]
      /\ waiting' = [waiting EXCEPT ![x] = i]
      /\ waited' = [waited EXCEPT ![x] = @ \cup {i}]
      /\ reqs' = reqs /\ commReqs' = commReqs /\ called' = called
  BY DEF Wait, contextVars
<1>3. /\ waiting'[x] = i /\ waited'[x] = waited[x] \cup {i}
      /\ \A y \in App \ {x} : waiting'[y] = waiting[y] /\ waited'[y] = waited[y]
  BY <1>1, <1>2
<1>4. CallsOf(x)
  BY DEF CInv
<1>5. called[x][i] = 0
  BY <1>2, <1>4 DEF CallsOf, RanWaited
<1>6. CallsOf(x)'
  BY <1>2, <1>3, <1>4, <1>5
     DEF CallsOf, Outstanding, RanOnce, StillWaited, RanWaited, Answered
<1> QED
  BY <1>2, <1>3, <1>6, OthersCalls DEF CInv

\* An event is read, and no callback runs.
LEMMA WaitEventCalls ==
    ASSUME IInv, CInv, NEW x \in App, WaitEvent(x)
    PROVE  CInv'
<1>1. x \in Ctx /\ commReqs \in [Ctx -> SUBSET Nat]
  BY CallTypes
<1>2. /\ commReqs' = [commReqs EXCEPT ![x] = @ \ {Head(r2c[x]).id}]
      /\ reqs' = reqs /\ waiting' = waiting /\ waited' = waited /\ called' = called
  BY DEF WaitEvent, Consume, NoCallback
<1>3. /\ commReqs'[x] \subseteq commReqs[x]
      /\ \A y \in App \ {x} : commReqs'[y] = commReqs[y]
  <2>1. \A y \in App : y \in Ctx
    BY DEF Ctx
  <2> QED
    BY <1>1, <1>2, <2>1
<1>4. CallsOf(x)'
  BY <1>2, <1>3 DEF CInv, CallsOf, Outstanding, RanOnce, StillWaited, RanWaited, Answered
<1> QED
  BY <1>2, <1>3, <1>4, OthersCalls DEF CInv

\* What a callback changes.
LEMMA CallbackChange ==
    ASSUME IInv, NEW x \in App, NEW i, Callback(x, i)
    PROVE  /\ \A y \in App \ {x} : called'[y] = called[y]
           /\ \A j \in Ids : called'[x][j] = IF j = i THEN called[x][j] + 1 ELSE called[x][j]
<1>1. called \in [App -> [Ids -> Nat]] /\ called[x] \in [Ids -> Nat]
  BY CallTypes
<1>2. called' = [called EXCEPT ![x] = [called[x] EXCEPT ![i] = called[x][i] + 1]]
  BY DEF Callback
<1>3. called'[x] = [called[x] EXCEPT ![i] = called[x][i] + 1]
  BY <1>1, <1>2
<1> QED
  BY <1>1, <1>2, <1>3

LEMMA WaitReturnCalls ==
    ASSUME IInv, CInv, NEW x \in App, WaitReturn(x)
    PROVE  CInv'
<1> DEFINE i == waiting[x]
<1>1. waiting \in [App -> {0} \cup Ids]
  BY CallTypes
<1>2. /\ i # 0 /\ i \notin commReqs[x] /\ Callback(x, i)
      /\ waiting' = [waiting EXCEPT ![x] = 0]
      /\ reqs' = reqs /\ commReqs' = commReqs /\ waited' = waited
  BY DEF WaitReturn, contextVars
<1>3. waiting'[x] = 0 /\ \A y \in App \ {x} : waiting'[y] = waiting[y]
  BY <1>1, <1>2
<1>4. /\ \A y \in App \ {x} : called'[y] = called[y]
      /\ \A j \in Ids : called'[x][j] = IF j = i THEN called[x][j] + 1 ELSE called[x][j]
  BY <1>2, CallbackChange
<1>5. CallsOf(x)
  BY DEF CInv
<1>6. i \in Answered(x) /\ called[x][i] = 0 /\ i \in waited[x]
  BY <1>2, <1>5 DEF CallsOf, StillWaited, Answered
<1>7. RanOnce(x)' /\ RanWaited(x)'
  BY <1>2, <1>4, <1>5, <1>6 DEF CallsOf, RanOnce, RanWaited, Answered
<1>8. Outstanding(x)' /\ StillWaited(x)'
  BY <1>2, <1>3, <1>5 DEF CallsOf, Outstanding, StillWaited
<1>9. CallsOf(x)'
  BY <1>7, <1>8 DEF CallsOf
<1> QED
  BY <1>2, <1>3, <1>4, <1>9, OthersCalls DEF CInv

LEMMA MakeProgressCalls ==
    ASSUME IInv, CInv, NEW x \in App, MakeProgress(x)
    PROVE  CInv'
<1> DEFINE i == Head(r2c[x]).id
<1>1. x \in Ctx /\ commReqs \in [Ctx -> SUBSET Nat]
  BY CallTypes
<1>2. /\ waiting[x] = 0 /\ x \in Poller /\ AnswerExpected(x) /\ r2c[x] # <<>>
      /\ Callback(x, i)
      /\ commReqs' = [commReqs EXCEPT ![x] = @ \ {i}]
      /\ reqs' = reqs /\ waiting' = waiting /\ waited' = waited
  BY DEF MakeProgress, Running, Consume
<1>3. /\ commReqs'[x] = commReqs[x] \ {i}
      /\ \A y \in App \ {x} : commReqs'[y] = commReqs[y]
  <2>1. \A y \in App : y \in Ctx
    BY DEF Ctx
  <2> QED
    BY <1>1, <1>2, <2>1
<1>4. /\ \A y \in App \ {x} : called'[y] = called[y]
      /\ \A j \in Ids : called'[x][j] = IF j = i THEN called[x][j] + 1 ELSE called[x][j]
  BY <1>2, CallbackChange
<1>5. CallsOf(x)
  BY DEF CInv
<1>6. i \in commReqs[x]
  BY <1>1, <1>2, HeadExpected
<1>7. i \in Ids => called[x][i] = 0
  BY <1>5, <1>6 DEF CallsOf, RanOnce, Answered
<1>8. i \in Answered(x)' /\ \A j \in Answered(x) : j \in Answered(x)'
  BY <1>2, <1>3, <1>5, <1>6 DEF CallsOf, Outstanding, Answered
<1>9. RanOnce(x)'
  BY <1>4, <1>5, <1>7, <1>8 DEF CallsOf, RanOnce
<1>10. Outstanding(x)' /\ StillWaited(x)' /\ RanWaited(x)'
  BY <1>2, <1>3, <1>5 DEF CallsOf, Outstanding, StillWaited, RanWaited
<1>11. CallsOf(x)'
  BY <1>9, <1>10 DEF CallsOf
<1> QED
  BY <1>2, <1>3, <1>4, <1>11, OthersCalls DEF CInv

-----------------------------------------------------------------------------
\* A server has a context of its own: what it asks is not among the requests of
\* an application.
LEMMA ServerStepCalls ==
    ASSUME IInv, CInv, NEW s \in Server, ServerStep(s)
    PROVE  CInv'
<1>1. \A x \in App : x # s /\ x \in Ctx
  BY PartiesAssumption DEF Ctx
<1>2. reqs \in [Ctx -> Seq(Request)] /\ commReqs \in [Ctx -> SUBSET Nat]
  BY DEF IInv, TypeOK, ContextTypeOK, EventId
<1>3. \A x \in App : reqs'[x] = reqs[x] /\ commReqs'[x] = commReqs[x]
  <2>1. CASE \E m \in Comm, op \in Op : Issue(s, m, op)
    BY <1>1, <1>2, <2>1 DEF Issue
  <2>2. CASE Consume(s)
    BY <1>1, <1>2, <2>2 DEF Consume
  <2>3. CASE UNCHANGED contextVars
    BY <2>3 DEF contextVars
  <2>4. CASE SrvrReqForward(s)
    <3>1. Head(r2s[s]).op \in Op
      BY <2>4, ServerEventType DEF SrvrReqForward, IInv, TypeOK
    <3>2. Nested[s] \in Comm
      BY <2>4, CommAssumption DEF SrvrReqForward, Forwards
    <3> QED
      BY <2>1, <2>4, <3>1, <3>2 DEF SrvrReqForward
  <2> QED
    BY <2>2, <2>3, <2>4 DEF ServerStep, ServerStart, SrvrCommCreate, SrvrCommDestroy,
           SrvrReqLocal, SrvrMakeProgress
<1>4. waiting' = waiting /\ waited' = waited /\ called' = called
  BY DEF ServerStep, appVars
<1> QED
  BY <1>3, <1>4, OthersCalls DEF CInv

LEMMA NextCalls == IInv /\ CInv /\ [Next]_vars => CInv'
<1> SUFFICES ASSUME IInv, CInv, [Next]_vars PROVE CInv'
  OBVIOUS
<1>1. CASE UNCHANGED <<contextVars, appVars>>
  BY <1>1, OthersCalls DEF CInv, contextVars, appVars
<1>2. ASSUME NEW s \in Server, ServerStep(s)
      PROVE  CInv'
  BY <1>2, ServerStepCalls
<1>3. ASSUME NEW x \in App, AppCall(x)
      PROVE  CInv'
  <2>1. CASE Close(x)
    BY <1>1, <2>1 DEF Close, contextVars, appVars, CInv, CallsOf, Outstanding, RanOnce,
           StillWaited, RanWaited, Answered
  <2> QED
    BY <1>3, <2>1, SubmitCalls, WaitCalls DEF AppCall
<1>4. ASSUME NEW x \in App, AppRun(x)
      PROVE  CInv'
  BY <1>4, WaitEventCalls, WaitReturnCalls, MakeProgressCalls DEF AppRun
<1>5. CASE RouterStep
  BY <1>1, <1>5 DEF RouterStep
<1>6. CASE UNCHANGED vars
  BY <1>1, <1>6 DEF vars
<1> QED
  BY <1>2, <1>3, <1>4, <1>5, <1>6 DEF Next

LEMMA InitCalls == Init => CInv
<1> SUFFICES ASSUME Init, NEW x \in App PROVE CallsOf(x)
  BY DEF CInv
<1>1. /\ x \in Ctx /\ commReqs[x] = {} /\ waiting[x] = 0
      /\ \A i \in Ids : called[x][i] = 0
  BY DEF Init, ContextInit, AppInit, Ctx
<1> QED
  BY <1>1 DEF CallsOf, Outstanding, RanOnce, StillWaited, RanWaited

\* The callback of a request runs once at most and not before its answer
\* (distRequest.cc, DistRequest::wait; distCntxt.cc, DistCntxt::makeProgress).
THEOREM CallbackCorrect == Spec => []CallbackOnce
<1>1. IInv /\ CInv => CallbackOnce
  <2> SUFFICES ASSUME IInv, CInv, NEW x \in App, NEW i \in Ids
               PROVE  called[x][i] <= 1 /\ (called[x][i] = 1 => i \in Answered(x))
    BY DEF CallbackOnce
  <2>1. called[x][i] \in Nat
    BY CallTypes
  <2> QED
    BY <2>1 DEF CInv, CallsOf, RanOnce
<1> QED
  BY <1>1, InitIInv, NextIInv, InitCalls, NextCalls, PTL DEF Spec

-----------------------------------------------------------------------------
(***************************************************************************)
(* The order of requests, for every topology: what the router keeps for a  *)
(* server that has not connected and what is on the connection of one that *)
(* has are one queue, in which the requests of each client stand in the    *)
(* order they were made, behind them those the router has not read yet.    *)
(***************************************************************************)

Elems(q) == {q[k] : k \in 1 .. Len(q)}
IsRequest(ev) == ev.type = "CommReq"

\* What a server has still to read.
Queue(s) == r2s[s] \o pendingEvents[s]

Before(e, f) ==
    \/ e.id[2] < f.id[2]
    \/ e.id[2] = f.id[2] /\ e.grp < f.grp

\* The requests of one client in a queue are in order.
Ordered(q) ==
    \A j, k \in 1 .. Len(q) :
        (j < k /\ IsRequest(q[j]) /\ IsRequest(q[k]) /\ q[j].id[1] = q[k].id[1])
        => Before(q[j], q[k])

\* A server that has connected has nothing pending.
NonePending == \A s \in localMap : pendingEvents[s] = <<>>

\* The requests on the connection of a client are in order, and were made.
AskedInOrder(c) ==
    \A j, k \in 1 .. Len(c2r[c]) :
        (j < k /\ IsRequest(c2r[c][j]) /\ IsRequest(c2r[c][k]))
        => c2r[c][j].id < c2r[c][k].id
AskedBefore(c) ==
    \A f \in Elems(c2r[c]) : IsRequest(f) => f.id <= Len(reqs[c])

\* A request that is on its way to a server was made before those of the same
\* client that the router has still to read.
Behind(s) ==
    \A e \in Elems(Queue(s)) :
        IsRequest(e) =>
            /\ e.id[2] <= Len(reqs[e.id[1]])
            /\ \A f \in Elems(c2r[e.id[1]]) : IsRequest(f) => e.id[2] < f.id

OInv ==
    /\ NonePending
    /\ \A c \in Ctx : AskedInOrder(c) /\ AskedBefore(c)
    /\ \A s \in Server : Behind(s) /\ Ordered(Queue(s))

-----------------------------------------------------------------------------
(* Sequences.                                                              *)

LEMMA ElemsType ==
    ASSUME NEW E, NEW q \in Seq(E)
    PROVE  Elems(q) \subseteq E /\ Len(q) \in Nat
  BY ElementOfSeq, LenProperties DEF Elems

LEMMA ElemsConcat ==
    ASSUME NEW E, NEW q \in Seq(E), NEW r \in Seq(E)
    PROVE  Elems(q \o r) \subseteq Elems(q) \cup Elems(r)
<1>1. /\ Len(q) \in Nat /\ Len(r) \in Nat /\ Len(q \o r) = Len(q) + Len(r)
      /\ \A i \in 1 .. Len(q) + Len(r) :
            (q \o r)[i] = IF i <= Len(q) THEN q[i] ELSE r[i - Len(q)]
  BY ConcatProperties, LenProperties
<1> SUFFICES ASSUME NEW i \in 1 .. Len(q \o r)
             PROVE  (q \o r)[i] \in Elems(q) \cup Elems(r)
  BY DEF Elems
<1>2. CASE i <= Len(q)
  BY <1>1, <1>2 DEF Elems
<1>3. CASE i > Len(q)
  <2>1. i - Len(q) \in 1 .. Len(r) /\ (q \o r)[i] = r[i - Len(q)]
    BY <1>1, <1>3
  <2> QED
    BY <2>1 DEF Elems
<1> QED
  BY <1>1, <1>2, <1>3

LEMMA ElemsTail ==
    ASSUME NEW E, NEW q \in Seq(E), q # <<>>
    PROVE  /\ Head(q) \in Elems(q) /\ Elems(Tail(q)) \subseteq Elems(q)
           /\ Head(q) = q[1] /\ Len(q) \in Nat \ {0}
<1>1. Len(q) \in Nat \ {0} /\ Head(q) = q[1]
  BY EmptySeq, HeadTailProperties
<1>2. Len(Tail(q)) = Len(q) - 1 /\ \A i \in 1 .. Len(Tail(q)) : Tail(q)[i] = q[i + 1]
  BY HeadTailProperties
<1>3. \A i \in 1 .. Len(Tail(q)) : i + 1 \in 1 .. Len(q)
  BY <1>1, <1>2
<1>4. Elems(Tail(q)) \subseteq Elems(q)
  BY <1>2, <1>3 DEF Elems
<1> QED
  BY <1>1, <1>4 DEF Elems

\* Reading the first event of a queue in order leaves one in order.
LEMMA OrderedTail ==
    ASSUME NEW q \in Seq(ServerEvent), q # <<>>, Ordered(q)
    PROVE  Ordered(Tail(q))
<1>1. /\ Len(q) \in Nat \ {0} /\ Len(Tail(q)) = Len(q) - 1
      /\ \A i \in 1 .. Len(Tail(q)) : Tail(q)[i] = q[i + 1]
  BY EmptySeq, HeadTailProperties
<1> SUFFICES ASSUME NEW j \in 1 .. Len(Tail(q)), NEW k \in 1 .. Len(Tail(q)), j < k,
                    IsRequest(Tail(q)[j]), IsRequest(Tail(q)[k]),
                    Tail(q)[j].id[1] = Tail(q)[k].id[1]
             PROVE  Before(Tail(q)[j], Tail(q)[k])
  BY DEF Ordered
<1>2. j + 1 \in 1 .. Len(q) /\ k + 1 \in 1 .. Len(q) /\ j + 1 < k + 1
  BY <1>1
<1>3. Tail(q)[j] = q[j + 1] /\ Tail(q)[k] = q[k + 1]
  BY <1>1
<1> QED
  BY <1>2, <1>3 DEF Ordered

\* Two queues in order make one if the second begins where the first ends.
LEMMA OrderedConcat ==
    ASSUME NEW q \in Seq(ServerEvent), NEW r \in Seq(ServerEvent),
           Ordered(q), Ordered(r),
           \A e \in Elems(q), f \in Elems(r) :
               (IsRequest(e) /\ IsRequest(f) /\ e.id[1] = f.id[1]) => Before(e, f)
    PROVE  Ordered(q \o r)
<1>1. /\ Len(q) \in Nat /\ Len(r) \in Nat /\ Len(q \o r) = Len(q) + Len(r)
      /\ \A i \in 1 .. Len(q) + Len(r) :
            (q \o r)[i] = IF i <= Len(q) THEN q[i] ELSE r[i - Len(q)]
  BY ConcatProperties, LenProperties
<1> SUFFICES ASSUME NEW j \in 1 .. Len(q \o r), NEW k \in 1 .. Len(q \o r), j < k,
                    IsRequest((q \o r)[j]), IsRequest((q \o r)[k]),
                    (q \o r)[j].id[1] = (q \o r)[k].id[1]
             PROVE  Before((q \o r)[j], (q \o r)[k])
  BY DEF Ordered
<1>2. CASE k <= Len(q)
  <2>1. /\ j \in 1 .. Len(q) /\ k \in 1 .. Len(q)
        /\ (q \o r)[j] = q[j] /\ (q \o r)[k] = q[k]
    BY <1>1, <1>2
  <2> QED
    BY <2>1 DEF Ordered
<1>3. CASE j > Len(q)
  <2>1. /\ j - Len(q) \in 1 .. Len(r) /\ k - Len(q) \in 1 .. Len(r)
        /\ j - Len(q) < k - Len(q)
        /\ (q \o r)[j] = r[j - Len(q)] /\ (q \o r)[k] = r[k - Len(q)]
    BY <1>1, <1>3
  <2> QED
    BY <2>1 DEF Ordered
<1>4. CASE j <= Len(q) /\ k > Len(q)
  <2>1. /\ j \in 1 .. Len(q) /\ k - Len(q) \in 1 .. Len(r)
        /\ (q \o r)[j] = q[j] /\ (q \o r)[k] = r[k - Len(q)]
    BY <1>1, <1>4
  <2>2. (q \o r)[j] \in Elems(q) /\ (q \o r)[k] \in Elems(r)
    BY <2>1 DEF Elems
  <2> QED
    BY <2>2
<1> QED
  BY <1>1, <1>2, <1>3, <1>4

-----------------------------------------------------------------------------
(* The queue of a server.                                                  *)

LEMMA QueueTypes ==
    ASSUME IInv
    PROVE  /\ r2s \in [Server -> Seq(ServerEvent)]
           /\ pendingEvents \in [Server -> Seq(ServerEvent)]
           /\ c2r \in [Ctx -> Seq(ClientEvent)]
           /\ reqs \in [Ctx -> Seq(Request)]
           /\ \A c \in Ctx : Len(reqs[c]) \in Nat
           /\ \A s \in Server : Queue(s) \in Seq(ServerEvent)
<1>1. /\ r2s \in [Server -> Seq(ServerEvent)]
      /\ pendingEvents \in [Server -> Seq(ServerEvent)]
      /\ c2r \in [Ctx -> Seq(ClientEvent)]
      /\ reqs \in [Ctx -> Seq(Request)]
  BY DEF IInv, TypeOK, ChannelTypeOK, RouterTypeOK, ContextTypeOK
<1>2. \A s \in Server : Queue(s) \in Seq(ServerEvent)
  BY <1>1, ConcatProperties DEF Queue
<1> QED
  BY <1>1, <1>2, LenProperties

\* Wherever Router::sendEvent puts an event, it is the last of the queue.
LEMMA ForwardQueue ==
    ASSUME IInv, NonePending, NEW out \in [Server -> Seq(ServerEvent)], Forward(out),
           NEW s \in Server
    PROVE  Queue(s)' = Queue(s) \o out[s]
<1>1. /\ r2s[s] \in Seq(ServerEvent) /\ pendingEvents[s] \in Seq(ServerEvent)
      /\ out[s] \in Seq(ServerEvent) /\ r2s[s] \o out[s] \in Seq(ServerEvent)
  BY QueueTypes, ConcatProperties
<1>2. CASE s \in localMap
  <2>1. pendingEvents[s] = <<>>
    BY <1>2 DEF NonePending
  <2>2. r2s'[s] = r2s[s] \o out[s] /\ pendingEvents'[s] = <<>>
    BY <1>2, <2>1 DEF Forward
  <2>3. Queue(s)' = r2s[s] \o out[s]
    BY <1>1, <2>2, ConcatEmptySeq DEF Queue
  <2>4. Queue(s) = r2s[s]
    BY <1>1, <2>1, ConcatEmptySeq DEF Queue
  <2> QED
    BY <2>3, <2>4
<1>3. CASE s \notin localMap
  <2>1. r2s'[s] = r2s[s] /\ pendingEvents'[s] = pendingEvents[s] \o out[s]
    BY <1>3 DEF Forward
  <2>2. Queue(s)' = r2s[s] \o (pendingEvents[s] \o out[s])
    BY <2>1 DEF Queue
  <2>3. (r2s[s] \o pendingEvents[s]) \o out[s] = r2s[s] \o (pendingEvents[s] \o out[s])
    <3>1. \A a, b, d \in Seq(ServerEvent) : (a \o b) \o d = a \o (b \o d)
      BY ConcatAssociative
    <3> QED
      BY <1>1, <3>1
  <2> QED
    BY <2>2, <2>3 DEF Queue
<1> QED
  BY <1>2, <1>3

\* A server reads the first event of its queue.
LEMMA ReceivedQueue ==
    ASSUME IInv, NEW s \in Server, r2s[s] # <<>>,
           r2s' = Received(r2s, s), pendingEvents' = pendingEvents
    PROVE  /\ Queue(s) # <<>> /\ Queue(s)' = Tail(Queue(s))
           /\ \A t \in Server \ {s} : Queue(t)' = Queue(t)
<1>1. r2s \in [Server -> Seq(ServerEvent)] /\ pendingEvents[s] \in Seq(ServerEvent)
  BY QueueTypes
<1>2. r2s'[s] = Tail(r2s[s]) /\ \A t \in Server \ {s} : r2s'[t] = r2s[t]
  BY <1>1 DEF Received
<1> DEFINE a == r2s[s]
           b == pendingEvents[s]
<1>3. a \in Seq(ServerEvent) /\ b \in Seq(ServerEvent) /\ a # <<>>
  BY <1>1
<1> HIDE DEF a, b
<1>4. /\ Len(a) \in Nat \ {0} /\ Tail(a) \in Seq(ServerEvent) /\ Len(Tail(a)) = Len(a) - 1
      /\ \A i \in 1 .. Len(Tail(a)) : Tail(a)[i] = a[i + 1]
  BY <1>3, EmptySeq, HeadTailProperties
<1>5. /\ a \o b \in Seq(ServerEvent) /\ Len(b) \in Nat
      /\ Len(a \o b) = Len(a) + Len(b)
      /\ \A i \in 1 .. Len(a) + Len(b) :
            (a \o b)[i] = IF i <= Len(a) THEN a[i] ELSE b[i - Len(a)]
  BY <1>3, ConcatProperties, LenProperties
<1>6. a \o b # <<>>
  BY <1>4, <1>5, EmptySeq
<1>7. /\ Tail(a \o b) \in Seq(ServerEvent) /\ Len(Tail(a \o b)) = Len(a) + Len(b) - 1
      /\ \A i \in 1 .. Len(Tail(a \o b)) : Tail(a \o b)[i] = (a \o b)[i + 1]
  BY <1>5, <1>6, HeadTailProperties
<1>8. /\ Tail(a) \o b \in Seq(ServerEvent) /\ Len(Tail(a) \o b) = Len(a) - 1 + Len(b)
      /\ \A i \in 1 .. Len(a) - 1 + Len(b) :
            (Tail(a) \o b)[i] = IF i <= Len(a) - 1 THEN Tail(a)[i] ELSE b[i - (Len(a) - 1)]
  BY <1>3, <1>4, ConcatProperties
<1>9. ASSUME NEW i \in 1 .. Len(Tail(a \o b))
      PROVE  Tail(a \o b)[i] = (Tail(a) \o b)[i]
  <2>1. i + 1 \in 1 .. Len(a) + Len(b) /\ i \in 1 .. Len(a) - 1 + Len(b)
    BY <1>4, <1>5, <1>7
  <2>2. Tail(a \o b)[i] = IF i + 1 <= Len(a) THEN a[i + 1] ELSE b[i + 1 - Len(a)]
    BY <1>5, <1>7, <2>1
  <2>3. (Tail(a) \o b)[i] = IF i <= Len(a) - 1 THEN Tail(a)[i] ELSE b[i - (Len(a) - 1)]
    BY <1>8, <2>1
  <2>4. CASE i <= Len(a) - 1
    <3>1. i \in 1 .. Len(Tail(a)) /\ i + 1 <= Len(a)
      BY <1>4, <2>1, <2>4
    <3> QED
      BY <1>4, <2>2, <2>3, <2>4, <3>1
  <2>5. CASE i > Len(a) - 1
    <3>1. i + 1 - Len(a) = i - (Len(a) - 1) /\ ~ (i + 1 <= Len(a)) /\ ~ (i <= Len(a) - 1)
      BY <1>4, <2>1, <2>5
    <3> QED
      BY <2>2, <2>3, <3>1
  <2> QED
    BY <1>4, <2>1, <2>4, <2>5
<1>10. Tail(a \o b) = Tail(a) \o b
  <2>1. Len(Tail(a \o b)) = Len(Tail(a) \o b)
    BY <1>4, <1>5, <1>7, <1>8
  <2> QED
    BY <1>7, <1>8, <1>9, <2>1, SeqEqual
<1>11. Queue(s) = a \o b /\ Queue(s)' = Tail(a) \o b
  BY <1>2 DEF Queue, a, b
<1>12. \A t \in Server \ {s} : Queue(t)' = Queue(t)
  BY <1>2 DEF Queue
<1> QED
  BY <1>6, <1>10, <1>11, <1>12

-----------------------------------------------------------------------------
(* What a context does to its connection.                                  *)

\* A context sends whole events, a request last, with the next number.
Extends(x) ==
    /\ Len(reqs'[x]) >= Len(reqs[x])
    /\ Len(c2r'[x]) >= Len(c2r[x])
    /\ \A k \in 1 .. Len(c2r[x]) : c2r'[x][k] = c2r[x][k]
    /\ \A k \in 1 .. Len(c2r'[x]) :
          (k > Len(c2r[x]) /\ IsRequest(c2r'[x][k])) =>
              /\ k = Len(c2r'[x])
              /\ c2r'[x][k].id = Len(reqs[x]) + 1
              /\ Len(reqs'[x]) = Len(reqs[x]) + 1

LEMMA RequestTypes ==
    /\ \A e \in ServerEvent : IsRequest(e) =>
          /\ e.id[1] \in Ctx /\ e.id[2] \in Nat /\ e.grp \in Nat
    /\ \A f \in ClientEvent : IsRequest(f) => f.id \in Nat
  BY DEF ServerEvent, ClientEvent, IsRequest, InfoId, EventId, Eof

LEMMA ExtendsAsked ==
    ASSUME IInv, IInv', NEW x \in Ctx, Extends(x), AskedInOrder(x), AskedBefore(x)
    PROVE  AskedInOrder(x)' /\ AskedBefore(x)'
<1>1. /\ c2r[x] \in Seq(ClientEvent) /\ Len(c2r[x]) \in Nat /\ Len(reqs[x]) \in Nat
      /\ \A k \in 1 .. Len(c2r[x]) : c2r[x][k] \in ClientEvent
  BY QueueTypes, LenProperties, ElementOfSeq
<1>2. /\ c2r'[x] \in Seq(ClientEvent) /\ Len(c2r'[x]) \in Nat /\ Len(reqs'[x]) \in Nat
  <2>1. c2r' \in [Ctx -> Seq(ClientEvent)] /\ reqs' \in [Ctx -> Seq(Request)]
    BY DEF IInv, TypeOK, ChannelTypeOK, ContextTypeOK
  <2> QED
    BY <2>1, LenProperties
<1>3. \A k \in 1 .. Len(c2r[x]) : IsRequest(c2r[x][k]) =>
          c2r[x][k].id \in Nat /\ c2r[x][k].id <= Len(reqs[x])
  BY <1>1, RequestTypes DEF AskedBefore, Elems
<1>4. AskedInOrder(x)'
  <2> SUFFICES ASSUME NEW j \in 1 .. Len(c2r'[x]), NEW k \in 1 .. Len(c2r'[x]), j < k,
                      IsRequest(c2r'[x][j]), IsRequest(c2r'[x][k])
               PROVE  c2r'[x][j].id < c2r'[x][k].id
    BY DEF AskedInOrder
  <2>1. j \in 1 .. Len(c2r[x])
    BY <1>1, <1>2 DEF Extends
  <2>2. CASE k \in 1 .. Len(c2r[x])
    BY <2>1, <2>2 DEF Extends, AskedInOrder
  <2>3. CASE k > Len(c2r[x])
    <3>1. c2r'[x][k].id = Len(reqs[x]) + 1 /\ c2r'[x][j] = c2r[x][j]
      BY <2>1, <2>3 DEF Extends
    <3> QED
      BY <1>1, <1>3, <2>1, <3>1
  <2> QED
    BY <1>1, <1>2, <2>2, <2>3
<1>5. AskedBefore(x)'
  <2> SUFFICES ASSUME NEW k \in 1 .. Len(c2r'[x]), IsRequest(c2r'[x][k])
               PROVE  c2r'[x][k].id <= Len(reqs'[x])
    BY DEF AskedBefore, Elems
  <2>1. CASE k \in 1 .. Len(c2r[x])
    <3>1. c2r'[x][k] = c2r[x][k] /\ Len(reqs'[x]) >= Len(reqs[x])
      BY <2>1 DEF Extends
    <3> QED
      BY <1>1, <1>2, <1>3, <2>1, <3>1
  <2>2. CASE k > Len(c2r[x])
    BY <1>1, <1>2, <2>2 DEF Extends
  <2> QED
    BY <1>1, <1>2, <2>1, <2>2
<1> QED
  BY <1>4, <1>5

LEMMA ExtendsBehind ==
    ASSUME IInv, IInv', \A x \in Ctx : Extends(x), NEW s \in Server, Behind(s),
           Elems(Queue(s)') \subseteq Elems(Queue(s))
    PROVE  Behind(s)'
<1> SUFFICES ASSUME NEW e \in Elems(Queue(s)'), IsRequest(e)
             PROVE  /\ e.id[2] <= Len(reqs'[e.id[1]])
                    /\ \A f \in Elems(c2r'[e.id[1]]) : IsRequest(f) => e.id[2] < f.id
  BY DEF Behind
<1> DEFINE c == e.id[1]
<1>1. e \in Elems(Queue(s)) /\ e \in ServerEvent
  BY QueueTypes, ElemsType
<1>2. c \in Ctx /\ e.id[2] \in Nat
  BY <1>1, RequestTypes
<1>3. e.id[2] <= Len(reqs[c]) /\ \A f \in Elems(c2r[c]) : IsRequest(f) => e.id[2] < f.id
  BY <1>1 DEF Behind
<1>4. /\ Len(reqs[c]) \in Nat /\ Len(c2r[c]) \in Nat
  BY <1>2, QueueTypes, LenProperties
<1>5. Len(reqs'[c]) \in Nat /\ Len(c2r'[c]) \in Nat
  <2>1. c2r' \in [Ctx -> Seq(ClientEvent)] /\ reqs' \in [Ctx -> Seq(Request)]
    BY DEF IInv, TypeOK, ChannelTypeOK, ContextTypeOK
  <2> QED
    BY <1>2, <2>1, LenProperties
<1>6. Extends(c)
  BY <1>2
<1>7. e.id[2] <= Len(reqs'[c])
  <2>1. Len(reqs'[c]) >= Len(reqs[c])
    BY <1>6 DEF Extends
  <2> QED
    BY <1>2, <1>3, <1>4, <1>5, <2>1
<1>8. ASSUME NEW k \in 1 .. Len(c2r'[c]), IsRequest(c2r'[c][k])
      PROVE  e.id[2] < c2r'[c][k].id
  <2>1. CASE k \in 1 .. Len(c2r[c])
    <3>1. c2r'[c][k] = c2r[c][k] /\ c2r[c][k] \in Elems(c2r[c])
      BY <1>6, <2>1 DEF Extends, Elems
    <3> QED
      BY <1>3, <1>8, <3>1
  <2>2. CASE k > Len(c2r[c])
    <3>1. c2r'[c][k].id = Len(reqs[c]) + 1
      BY <1>6, <1>8, <2>2 DEF Extends
    <3> QED
      BY <1>2, <1>3, <1>4, <3>1
  <2> QED
    BY <1>4, <1>5, <2>1, <2>2
<1> QED
  BY <1>7, <1>8 DEF Elems

\* Making a request, closing and doing nothing are such steps.
LEMMA IssueExtends ==
    ASSUME IInv, NEW x \in Ctx, NEW m \in Comm, NEW op \in Op, Issue(x, m, op),
           NEW y \in Ctx
    PROVE  Extends(y)
<1> DEFINE id == Len(reqs[x]) + 1
           q == c2r[x]
           first == FirstUse(m)
           ev == CommReqEvent(m, op, id)
<1>1. /\ q \in Seq(ClientEvent) /\ reqs[x] \in Seq(Request) /\ Len(reqs[x]) \in Nat
      /\ c2r \in [Ctx -> Seq(ClientEvent)] /\ reqs \in [Ctx -> Seq(Request)]
  BY QueueTypes
<1>2. /\ c2r' = [c2r EXCEPT ![x] = Append(q \o first, ev)]
      /\ reqs' = [reqs EXCEPT ![x] = Append(@, [comm |-> m, op |-> op])]
  BY DEF Issue, SendRequest
<1>3. CASE y # x
  <2>1. c2r'[y] = c2r[y] /\ reqs'[y] = reqs[y] /\ Len(c2r[y]) \in Nat /\ Len(reqs[y]) \in Nat
    BY <1>1, <1>2, <1>3, LenProperties
  <2> QED
    BY <2>1 DEF Extends
<1>4. CASE y = x
  <2>1. /\ ev \in ClientEvent /\ CommCreateEvent(m) \in ClientEvent
        /\ [comm |-> m, op |-> op] \in Request /\ ev.id = id
        /\ ~ IsRequest(CommCreateEvent(m))
    BY <1>1 DEF CommReqEvent, CommCreateEvent, ClientEvent, Request, IsRequest, EventId
  <2>2. Len(reqs'[x]) = Len(reqs[x]) + 1
    <3>1. Len(Append(reqs[x], [comm |-> m, op |-> op])) = Len(reqs[x]) + 1
      BY <1>1, <2>1, AppendProperties
    <3> QED
      BY <1>1, <1>2, <3>1
  <2>3. c2r'[x] = Append(q \o first, ev)
    BY <1>1, <1>2
  <2>4. /\ first \in Seq(ClientEvent) /\ Len(first) \in {0, 1}
        /\ \A k \in 1 .. Len(first) : ~ IsRequest(first[k])
    BY <2>1 DEF FirstUse
  <2> HIDE DEF q, first, ev
  <2>5. q \in Seq(ClientEvent) /\ Len(q) \in Nat
    BY <1>1, LenProperties DEF q
  <2>6. /\ q \o first \in Seq(ClientEvent) /\ Len(q \o first) = Len(q) + Len(first)
        /\ \A k \in 1 .. Len(q) + Len(first) :
              (q \o first)[k] = IF k <= Len(q) THEN q[k] ELSE first[k - Len(q)]
    BY <2>4, <2>5, ConcatProperties
  <2>7. /\ Len(c2r'[x]) = Len(q) + Len(first) + 1
        /\ \A k \in 1 .. Len(q) + Len(first) : c2r'[x][k] = (q \o first)[k]
        /\ c2r'[x][Len(q) + Len(first) + 1] = ev
    BY <2>1, <2>3, <2>6, AppendProperties
  <2>8. \A k \in 1 .. Len(q) : c2r'[x][k] = q[k]
    BY <2>4, <2>5, <2>6, <2>7
  <2>9. ASSUME NEW k \in 1 .. Len(c2r'[x]), k > Len(q), IsRequest(c2r'[x][k])
        PROVE  k = Len(c2r'[x]) /\ c2r'[x][k].id = id
    <3>1. CASE k <= Len(q) + Len(first)
      <4>1. k - Len(q) \in 1 .. Len(first) /\ c2r'[x][k] = first[k - Len(q)]
        BY <2>4, <2>5, <2>6, <2>7, <2>9, <3>1
      <4> QED
        BY <2>4, <2>9, <4>1
    <3>2. CASE k > Len(q) + Len(first)
      <4>1. k = Len(q) + Len(first) + 1
        BY <2>4, <2>5, <2>7, <3>2
      <4> QED
        BY <2>1, <2>7, <4>1
    <3> QED
      BY <2>4, <2>5, <2>7, <3>1, <3>2
  <2>10. Len(c2r'[x]) >= Len(q)
    BY <2>4, <2>5, <2>7
  <2>11. q = c2r[x]
    BY DEF q
  <2> QED
    BY <1>1, <1>4, <2>2, <2>8, <2>9, <2>10, <2>11 DEF Extends
<1> QED
  BY <1>3, <1>4

LEMMA CloseExtends ==
    ASSUME IInv, NEW x \in App, Close(x), NEW y \in Ctx
    PROVE  Extends(y)
<1>1. /\ c2r[y] \in Seq(ClientEvent) /\ Len(c2r[y]) \in Nat /\ Len(reqs[y]) \in Nat
      /\ c2r \in [Ctx -> Seq(ClientEvent)]
  BY QueueTypes, LenProperties
<1>2. c2r' = [c2r EXCEPT ![x] = Append(@, Eof)] /\ reqs' = reqs
  BY DEF Close, Sent, contextVars
<1>3. CASE y # x
  BY <1>1, <1>2, <1>3 DEF Extends
<1>4. CASE y = x
  <2>1. Eof \in ClientEvent /\ ~ IsRequest(Eof)
    BY DEF ClientEvent, Eof, IsRequest
  <2>2. c2r'[y] = Append(c2r[y], Eof)
    BY <1>1, <1>2, <1>4
  <2>3. /\ Len(c2r'[y]) = Len(c2r[y]) + 1
        /\ \A k \in 1 .. Len(c2r[y]) : c2r'[y][k] = c2r[y][k]
        /\ c2r'[y][Len(c2r[y]) + 1] = Eof
    BY <1>1, <2>1, <2>2, AppendProperties
  <2> QED
    BY <1>1, <1>2, <2>1, <2>3 DEF Extends
<1> QED
  BY <1>3, <1>4

LEMMA SameExtends ==
    ASSUME IInv, NEW y \in Ctx, c2r' = c2r, Len(reqs'[y]) = Len(reqs[y])
    PROVE  Extends(y)
<1>1. Len(c2r[y]) \in Nat /\ Len(reqs[y]) \in Nat
  BY QueueTypes, LenProperties
<1> QED
  BY <1>1 DEF Extends

\* Contexts send and servers read, while the router does nothing.
LEMMA OutsideRouter ==
    ASSUME IInv, IInv', OInv, \A x \in Ctx : Extends(x),
           pendingEvents' = pendingEvents, localMap' = localMap,
           \A s \in Server : Queue(s)' = Queue(s)
                             \/ (Queue(s) # <<>> /\ Queue(s)' = Tail(Queue(s)))
    PROVE  OInv'
<1>1. NonePending'
  BY DEF OInv, NonePending
<1>2. \A c \in Ctx : AskedInOrder(c)' /\ AskedBefore(c)'
  BY ExtendsAsked DEF OInv
<1>3. ASSUME NEW s \in Server
      PROVE  Behind(s)' /\ Ordered(Queue(s))'
  <2>1. Queue(s) \in Seq(ServerEvent) /\ Ordered(Queue(s)) /\ Behind(s)
    BY QueueTypes DEF OInv
  <2>2. Elems(Queue(s)') \subseteq Elems(Queue(s))
    BY <2>1, ElemsTail
  <2>3. Ordered(Queue(s)')
    BY <2>1, OrderedTail
  <2>4. Behind(s)'
    BY <2>1, <2>2, ExtendsBehind
  <2> QED
    BY <2>3, <2>4
<1> QED
  BY <1>1, <1>2, <1>3 DEF OInv

-----------------------------------------------------------------------------
(* The router takes an event from a client and passes events on.           *)

\* What the router makes of an event of client c: requests only of a request,
\* with its number, in order.
Follows(c, out) ==
    \A s \in Server :
        /\ Ordered(out[s])
        /\ \A e \in Elems(out[s]) :
              IsRequest(e) => /\ IsRequest(Head(c2r[c]))
                              /\ e.id = <<c, Head(c2r[c]).id>>

LEMMA RouterPasses ==
    ASSUME IInv, OInv, NEW c \in Ctx, c2r[c] # <<>>, c2r' = Received(c2r, c),
           NEW out \in [Server -> Seq(ServerEvent)], Forward(out), Follows(c, out),
           reqs' = reqs, localMap' = localMap
    PROVE  OInv'
<1> DEFINE ev == Head(c2r[c])
<1>1. /\ c2r \in [Ctx -> Seq(ClientEvent)]
      /\ \A x \in Ctx : Len(c2r[x]) \in Nat
      /\ Len(reqs[c]) \in Nat
  BY QueueTypes, LenProperties
<1>2. c2r'[c] = Tail(c2r[c]) /\ \A x \in Ctx \ {c} : c2r'[x] = c2r[x]
  BY <1>1 DEF Received
<1>3. /\ Len(c2r[c]) \in Nat \ {0} /\ Len(c2r'[c]) = Len(c2r[c]) - 1
      /\ \A k \in 1 .. Len(c2r'[c]) : c2r'[c][k] = c2r[c][k + 1]
      /\ ev = c2r[c][1]
  BY <1>1, <1>2, EmptySeq, HeadTailProperties
<1>4. \A x \in Ctx : Elems(c2r'[x]) \subseteq Elems(c2r[x])
  BY <1>1, <1>2, ElemsTail
<1>5. ev \in Elems(c2r[c]) /\ ev \in ClientEvent
  BY <1>1, ElemsTail, ElemsType
<1>6. NonePending'
  <2> SUFFICES ASSUME NEW s \in localMap PROVE pendingEvents'[s] = <<>>
    BY DEF NonePending
  <2>1. s \in Server
    BY DEF IInv, TypeOK, RouterTypeOK
  <2> QED
    BY <2>1 DEF Forward, OInv, NonePending
<1>7. ASSUME NEW x \in Ctx
      PROVE  AskedInOrder(x)' /\ AskedBefore(x)'
  <2>1. AskedInOrder(x) /\ AskedBefore(x)
    BY DEF OInv
  <2>2. AskedBefore(x)'
    BY <1>4, <2>1 DEF AskedBefore
  <2>3. AskedInOrder(x)'
    <3>1. CASE x # c
      BY <1>2, <2>1, <3>1 DEF AskedInOrder
    <3>2. CASE x = c
      <4> SUFFICES ASSUME NEW j \in 1 .. Len(c2r'[c]), NEW k \in 1 .. Len(c2r'[c]), j < k,
                          IsRequest(c2r'[c][j]), IsRequest(c2r'[c][k])
                   PROVE  c2r'[c][j].id < c2r'[c][k].id
        BY <3>2 DEF AskedInOrder
      <4>1. /\ j + 1 \in 1 .. Len(c2r[c]) /\ k + 1 \in 1 .. Len(c2r[c]) /\ j + 1 < k + 1
            /\ c2r'[c][j] = c2r[c][j + 1] /\ c2r'[c][k] = c2r[c][k + 1]
        BY <1>3
      <4> QED
        BY <2>1, <3>2, <4>1 DEF AskedInOrder
    <3> QED
      BY <3>1, <3>2
  <2> QED
    BY <2>2, <2>3
<1>8. ASSUME NEW s \in Server
      PROVE  Behind(s)' /\ Ordered(Queue(s))'
  <2>1. /\ Queue(s) \in Seq(ServerEvent) /\ out[s] \in Seq(ServerEvent)
        /\ Ordered(Queue(s)) /\ Behind(s) /\ Ordered(out[s])
    BY QueueTypes DEF OInv, Follows
  <2>2. Queue(s)' = Queue(s) \o out[s]
    BY ForwardQueue DEF OInv
  <2>3. ASSUME NEW e \in Elems(out[s]), IsRequest(e)
        PROVE  IsRequest(ev) /\ e.id[1] = c /\ e.id[2] = ev.id /\ ev.id \in Nat
    BY <1>5, <2>3, RequestTypes DEF Follows
  <2>4. Ordered(Queue(s)')
    <3>1. ASSUME NEW e \in Elems(Queue(s)), NEW f \in Elems(out[s]),
                 IsRequest(e), IsRequest(f), e.id[1] = f.id[1]
          PROVE  Before(e, f)
      <4>1. e.id[1] = c /\ f.id[2] = ev.id /\ IsRequest(ev)
        BY <2>3, <3>1
      <4>2. e.id[2] < ev.id
        BY <1>5, <2>1, <3>1, <4>1 DEF Behind
      <4> QED
        BY <4>1, <4>2 DEF Before
    <3> QED
      BY <2>1, <2>2, <3>1, OrderedConcat
  <2>5. ASSUME NEW e \in Elems(out[s]), IsRequest(e)
        PROVE  /\ e.id[2] <= Len(reqs[c])
               /\ \A f \in Elems(c2r'[c]) : IsRequest(f) => e.id[2] < f.id
    <3>1. e.id[2] = ev.id /\ IsRequest(ev)
      BY <2>3, <2>5
    <3>2. ev.id <= Len(reqs[c])
      BY <1>5, <3>1 DEF OInv, AskedBefore
    <3>3. ASSUME NEW k \in 1 .. Len(c2r'[c]), IsRequest(c2r'[c][k])
          PROVE  ev.id < c2r'[c][k].id
      <4>1. 1 \in 1 .. Len(c2r[c]) /\ k + 1 \in 1 .. Len(c2r[c]) /\ 1 < k + 1
            /\ c2r'[c][k] = c2r[c][k + 1]
        BY <1>3
      <4>2. AskedInOrder(c)
        BY DEF OInv
      <4> QED
        BY <1>3, <3>1, <3>3, <4>1, <4>2 DEF AskedInOrder
    <3> QED
      BY <3>1, <3>2, <3>3 DEF Elems
  <2>6. Behind(s)'
    <3> SUFFICES ASSUME NEW e \in Elems(Queue(s)'), IsRequest(e)
                 PROVE  /\ e.id[2] <= Len(reqs'[e.id[1]])
                        /\ \A f \in Elems(c2r'[e.id[1]]) : IsRequest(f) => e.id[2] < f.id
      BY DEF Behind
    <3>1. CASE e \in Elems(Queue(s))
      <4>1. e.id[1] \in Ctx
        BY <2>1, <3>1, ElemsType, RequestTypes
      <4> QED
        BY <1>4, <2>1, <3>1, <4>1 DEF Behind
    <3>2. CASE e \in Elems(out[s])
      BY <2>3, <2>5, <3>2
    <3> QED
      BY <2>1, <2>2, <3>1, <3>2, ElemsConcat
  <2> QED
    BY <2>4, <2>6
<1> QED
  BY <1>6, <1>7, <1>8 DEF OInv

\* The slots of a server in a communicator are in increasing order.
LEMMA RequestFollows ==
    ASSUME IInv, NEW c \in Ctx, NEW m \in Comm, NEW op \in Op, NEW id \in EventId,
           Head(c2r[c]).id = id, IsRequest(Head(c2r[c]))
    PROVE  Follows(c, RequestEvents(m, op, <<c, id>>))
<1> DEFINE out == RequestEvents(m, op, <<c, id>>)
<1> SUFFICES ASSUME NEW s \in Server
             PROVE  /\ Ordered(out[s])
                    /\ \A e \in Elems(out[s]) : e.id = <<c, id>>
  BY DEF Follows
<1>1. /\ Slots[m][s] \in Seq(Nat) /\ Len(Slots[m][s]) \in Nat
      /\ \A j, k \in 1 .. Len(Slots[m][s]) : j < k => Slots[m][s][j] < Slots[m][s][k]
  BY SlotsAssumption, LenProperties
<1>2. /\ Len(out[s]) = Len(Slots[m][s])
      /\ \A k \in 1 .. Len(out[s]) :
            out[s][k].id = <<c, id>> /\ out[s][k].grp = Slots[m][s][k]
  BY <1>1 DEF RequestEvents, SrvrReqEvent
<1> HIDE DEF out
<1>3. Ordered(out[s])
  <2> SUFFICES ASSUME NEW j \in 1 .. Len(out[s]), NEW k \in 1 .. Len(out[s]), j < k
               PROVE  Before(out[s][j], out[s][k])
    BY DEF Ordered
  <2>1. out[s][j].id[2] = out[s][k].id[2] /\ out[s][j].grp < out[s][k].grp
    BY <1>1, <1>2
  <2> QED
    BY <2>1 DEF Before
<1>4. \A e \in Elems(out[s]) : e.id = <<c, id>>
  BY <1>2 DEF Elems
<1> QED
  BY <1>3, <1>4

\* The other events are no requests.
LEMMA CreateNoRequest ==
    ASSUME NEW m \in Comm, NEW s \in Server, NEW k \in 1 .. Len(CreateEvents(m)[s])
    PROVE  ~ IsRequest(CreateEvents(m)[s][k])
<1>1. Len(Slots[m][s]) \in Nat
  BY SlotsAssumption, LenProperties
<1> QED
  BY <1>1 DEF CreateEvents, CommCreateEvent, IsRequest

LEMMA DestroyNoRequest ==
    ASSUME clientComms \in [Ctx -> SUBSET Comm], NEW c \in Ctx, NEW s \in Server,
           NEW k \in 1 .. Len(DestroyEvents(c)[s])
    PROVE  ~ IsRequest(DestroyEvents(c)[s][k])
<1> DEFINE S == {m \in clientComms[c] : s \in Members[m][1]}
           ms == SetToSeq(S)
<1>1. ms \in Seq(Comm)
  <2>1. S \subseteq Comm /\ IsFiniteSet(S)
    BY PartiesAssumption, FS_Subset
  <2> QED
    BY <2>1, SetToSeqType, SeqMonotonic
<1>2. DestroyEvents(c)[s] = [j \in 1 .. Len(ms) |-> CommDestroyEvent(ms[j])]
  BY DEF DestroyEvents
<1> HIDE DEF ms
<1>3. Len(ms) \in Nat
  BY <1>1, LenProperties
<1>4. k \in 1 .. Len(ms)
  BY <1>2, <1>3
<1> QED
  BY <1>2, <1>4 DEF CommDestroyEvent, IsRequest

LEMMA NoRequestFollows ==
    ASSUME NEW c, NEW out,
           \A s \in Server : \A k \in 1 .. Len(out[s]) : ~ IsRequest(out[s][k])
    PROVE  Follows(c, out)
  BY DEF Follows, Ordered, Elems

LEMMA RouterClientOrder ==
    ASSUME IInv, OInv, NEW c \in Ctx,
           RtrCommCreate(c) \/ RtrCommReq(c) \/ RtrClientClosed(c),
           UNCHANGED <<contextVars, appVars, serverVars>>
    PROVE  OInv'
<1>1. reqs' = reqs
  BY DEF contextVars
<1>2. ChannelTypeOK /\ clientComms \in [Ctx -> SUBSET Comm]
  BY DEF IInv, TypeOK, RouterTypeOK
<1>3. CASE RtrCommCreate(c)
  <2> DEFINE m == Head(c2r[c]).comm
  <2>1. m \in Comm /\ c2r[c] # <<>>
    BY <1>2, <1>3, ClientEventType DEF RtrCommCreate, Arrives
  <2>2. CreateEvents(m) \in [Server -> Seq(ServerEvent)]
    BY <2>1, CreateEventsType
  <2>4. Follows(c, CreateEvents(m))
    BY <2>1, CreateNoRequest, NoRequestFollows
  <2> QED
    BY <1>1, <1>3, <2>1, <2>2, <2>4, RouterPasses DEF RtrCommCreate
<1>4. CASE RtrCommReq(c)
  <2> DEFINE ev == Head(c2r[c])
  <2>1. /\ ev.comm \in Comm /\ ev.op \in Op /\ ev.id \in EventId /\ c2r[c] # <<>>
        /\ IsRequest(ev)
    BY <1>2, <1>4, ClientEventType DEF RtrCommReq, Arrives, IsRequest
  <2>2. RequestEvents(ev.comm, ev.op, <<c, ev.id>>) \in [Server -> Seq(ServerEvent)]
    BY <2>1, RequestEventsType DEF InfoId
  <2>3. Follows(c, RequestEvents(ev.comm, ev.op, <<c, ev.id>>))
    BY <2>1, RequestFollows
  <2> QED
    BY <1>1, <1>4, <2>1, <2>2, <2>3, RouterPasses DEF RtrCommReq
<1>5. CASE RtrClientClosed(c)
  <2>1. c2r[c] # <<>>
    BY <1>5 DEF RtrClientClosed, Arrives
  <2>2. DestroyEvents(c) \in [Server -> Seq(ServerEvent)]
    BY <1>2, DestroyEventsType
  <2>4. Follows(c, DestroyEvents(c))
    BY <1>2, DestroyNoRequest, NoRequestFollows
  <2> QED
    BY <1>1, <1>5, <2>1, <2>2, <2>4, RouterPasses DEF RtrClientClosed
<1> QED
  BY <1>3, <1>4, <1>5

-----------------------------------------------------------------------------
\* doPending moves what was pending behind what is on the connection, where it
\* was already.
LEMMA ConnectOrder ==
    ASSUME IInv, IInv', OInv, NEW s \in Server, RtrServerConnect(s),
           UNCHANGED <<contextVars, appVars, serverVars>>
    PROVE  OInv'
<1>1. /\ r2s \in [Server -> Seq(ServerEvent)]
      /\ pendingEvents \in [Server -> Seq(ServerEvent)]
  BY QueueTypes
<1>2. /\ localMap' = localMap \cup {s} /\ c2r' = c2r /\ reqs' = reqs
      /\ r2s' = [r2s EXCEPT ![s] = @ \o pendingEvents[s]]
      /\ pendingEvents' = [pendingEvents EXCEPT ![s] = <<>>]
  BY DEF RtrServerConnect, Flush, contextVars
<1>3. NonePending'
  BY <1>1, <1>2 DEF OInv, NonePending
<1>4. ASSUME NEW t \in Server
      PROVE  Queue(t)' = Queue(t)
  <2>1. CASE t = s
    <3>1. Queue(s)' = Queue(s) \o <<>>
      BY <1>1, <1>2 DEF Queue
    <3>2. Queue(s) \in Seq(ServerEvent)
      BY QueueTypes
    <3> QED
      BY <2>1, <3>1, <3>2, ConcatEmptySeq
  <2>2. CASE t # s
    BY <1>1, <1>2, <2>2 DEF Queue
  <2> QED
    BY <2>1, <2>2
<1>5. \A c \in Ctx : AskedInOrder(c)' /\ AskedBefore(c)'
  BY <1>2 DEF OInv, AskedInOrder, AskedBefore
<1>6. \A t \in Server : Behind(t)' /\ Ordered(Queue(t))'
  BY <1>2, <1>4 DEF OInv, Behind
<1> QED
  BY <1>3, <1>5, <1>6 DEF OInv

\* A step that touches neither requests nor what is on its way to a server.
LEMMA UntouchedOrder ==
    ASSUME IInv, IInv', OInv, c2r' = c2r, reqs' = reqs, r2s' = r2s,
           pendingEvents' = pendingEvents, localMap' = localMap
    PROVE  OInv'
<1>1. \A x \in Ctx : Extends(x)
  BY SameExtends
<1>2. \A s \in Server : Queue(s)' = Queue(s)
  BY DEF Queue
<1> QED
  BY <1>1, <1>2, OutsideRouter

LEMMA ServerOrder ==
    ASSUME IInv, IInv', OInv, NEW s \in Server, ServerStep(s)
    PROVE  OInv'
<1>1. pendingEvents' = pendingEvents /\ localMap' = localMap /\ s \in Ctx
  BY DEF ServerStep, routerVars, Ctx
<1>2. CASE ServerStart(s) \/ SrvrMakeProgress(s)
  BY <1>1, <1>2, UntouchedOrder DEF ServerStart, SrvrMakeProgress, Consume, contextVars
<1>3. ASSUME r2s[s] # <<>>, r2s' = Received(r2s, s)
      PROVE  \A t \in Server : Queue(t)' = Queue(t)
                               \/ (Queue(t) # <<>> /\ Queue(t)' = Tail(Queue(t)))
  BY <1>1, <1>3, ReceivedQueue
<1>4. CASE SrvrCommCreate(s) \/ SrvrCommDestroy(s) \/ SrvrReqLocal(s)
  <2>1. /\ r2s[s] # <<>> /\ r2s' = Received(r2s, s) /\ c2r' = c2r /\ reqs' = reqs
    BY <1>4 DEF SrvrCommCreate, SrvrCommDestroy, SrvrReqLocal, Arrives, contextVars
  <2>2. \A x \in Ctx : Extends(x)
    BY <2>1, SameExtends
  <2> QED
    BY <1>1, <1>3, <2>1, <2>2, OutsideRouter
<1>5. CASE SrvrReqForward(s)
  <2>1. /\ r2s[s] # <<>> /\ r2s' = Received(r2s, s)
        /\ Issue(s, Nested[s], Head(r2s[s]).op)
    BY <1>5 DEF SrvrReqForward, Arrives
  <2>2. Nested[s] \in Comm /\ Head(r2s[s]).op \in Op
    <3>1. ChannelTypeOK
      BY DEF IInv, TypeOK
    <3> QED
      BY <1>5, <3>1, CommAssumption, ServerEventType DEF SrvrReqForward, Forwards
  <2>3. \A x \in Ctx : Extends(x)
    BY <1>1, <2>1, <2>2, IssueExtends
  <2> QED
    BY <1>1, <1>3, <2>1, <2>3, OutsideRouter
<1> QED
  BY <1>2, <1>4, <1>5 DEF ServerStep

LEMMA AppOrder ==
    ASSUME IInv, IInv', OInv, NEW x \in App, AppCall(x) \/ AppRun(x)
    PROVE  OInv'
<1>1. /\ pendingEvents' = pendingEvents /\ localMap' = localMap /\ r2s' = r2s /\ x \in Ctx
  BY DEF AppCall, AppRun, routerVars, Ctx
<1>2. \A s \in Server : Queue(s)' = Queue(s)
  BY <1>1 DEF Queue
<1>3. ASSUME NEW m \in Comm, NEW op \in Op, Submit(x, m, op)
      PROVE  OInv'
  BY <1>1, <1>2, <1>3, IssueExtends, OutsideRouter DEF Submit
<1>4. CASE Close(x)
  BY <1>1, <1>2, <1>4, CloseExtends, OutsideRouter
<1>5. ASSUME NEW i \in Ids, Wait(x, i)
      PROVE  OInv'
  BY <1>1, <1>5, UntouchedOrder DEF Wait, contextVars
<1>6. CASE AppRun(x)
  BY <1>1, <1>6, UntouchedOrder
     DEF AppRun, WaitEvent, WaitReturn, MakeProgress, Consume, contextVars
<1> QED
  BY <1>3, <1>4, <1>5, <1>6 DEF AppCall

LEMMA NextOrder == IInv /\ OInv /\ [Next]_vars => OInv'
<1> SUFFICES ASSUME IInv, OInv, [Next]_vars PROVE OInv'
  OBVIOUS
<1>1. IInv'
  BY NextIInv
<1>2. CASE RouterStep
  <2>1. ASSUME NEW c \in Ctx, RtrCommCreate(c) \/ RtrCommReq(c) \/ RtrClientClosed(c)
        PROVE  OInv'
    BY <1>2, <2>1, RouterClientOrder DEF RouterStep
  <2>2. ASSUME NEW s \in Server, RtrServerConnect(s)
        PROVE  OInv'
    BY <1>1, <1>2, <2>2, ConnectOrder DEF RouterStep
  <2>3. ASSUME NEW s \in Server, RtrRespQueue(s) \/ RtrRespSend(s)
        PROVE  OInv'
    BY <1>1, <1>2, <2>3, UntouchedOrder
       DEF RouterStep, RtrRespQueue, RtrRespSend, contextVars
  <2> QED
    BY <1>2, <2>1, <2>2, <2>3 DEF RouterStep
<1>3. ASSUME NEW s \in Server, ServerStep(s)
      PROVE  OInv'
  BY <1>1, <1>3, ServerOrder
<1>4. ASSUME NEW x \in App, AppCall(x) \/ AppRun(x)
      PROVE  OInv'
  BY <1>1, <1>4, AppOrder
<1>5. CASE UNCHANGED vars
  BY <1>1, <1>5, UntouchedOrder DEF vars, channels, contextVars, routerVars
<1> QED
  BY <1>2, <1>3, <1>4, <1>5 DEF Next

LEMMA InitOrder == Init => OInv
<1> SUFFICES ASSUME Init PROVE OInv
  OBVIOUS
<1>1. /\ \A c \in Ctx : c2r[c] = <<>> /\ reqs[c] = <<>>
      /\ \A s \in Server : r2s[s] = <<>> /\ pendingEvents[s] = <<>>
      /\ localMap = {}
  BY DEF Init, ChannelInit, ContextInit, RouterInit
<1>2. \A s \in Server : Len(Queue(s)) = 0
  <2>1. <<>> \in Seq(ServerEvent) /\ <<>> \o <<>> = <<>> /\ Len(<<>>) = 0
    BY EmptySeq, ConcatEmptySeq
  <2> QED
    BY <1>1, <2>1 DEF Queue
<1>3. \A c \in Ctx : AskedInOrder(c) /\ AskedBefore(c)
  BY <1>1 DEF AskedInOrder, AskedBefore, Elems
<1>4. \A s \in Server : Behind(s) /\ Ordered(Queue(s))
  BY <1>2 DEF Behind, Ordered, Elems
<1> QED
  BY <1>1, <1>3, <1>4 DEF OInv, NonePending

\* The requests of a client reach a server in the order they were made, whether
\* the server was there or connected later (router.h, sendEvent and doPending).
THEOREM InOrderCorrect == Spec => []InOrder
<1>1. OInv => InOrder
  BY DEF OInv, InOrder, Ordered, Queue, Before, IsRequest
<1> QED
  BY <1>1, InitIInv, NextIInv, InitOrder, NextOrder, PTL DEF Spec
-----------------------------------------------------------------------------
(***************************************************************************)
(* A request of a context is in one place at a time, for every topology:   *)
(* on its way to the router, in a CommReqInfo, or answered and on its way  *)
(* back.  So no answer finds its CommReq gone.                             *)
(***************************************************************************)

-----------------------------------------------------------------------------
(* Counting the events of a kind in a queue.                               *)

Places(q, S) == {k \in 1 .. Len(q) : q[k] \in S}
Count(q, S) == Cardinality(Places(q, S))

LEMMA CountType ==
    ASSUME NEW E, NEW q \in Seq(E), NEW S
    PROVE  /\ IsFiniteSet(Places(q, S)) /\ Count(q, S) \in Nat
           /\ (\A k \in 1 .. Len(q) : q[k] \notin S) <=> Count(q, S) = 0
<1>1. IsFiniteSet(1 .. Len(q))
  BY LenProperties, FS_Interval
<1>2. IsFiniteSet(Places(q, S)) /\ Count(q, S) \in Nat
  BY <1>1, FS_Subset, FS_CardinalityType DEF Places, Count
<1>3. Count(q, S) = 0 <=> Places(q, S) = {}
  BY <1>2, FS_EmptySet DEF Count
<1>4. Places(q, S) = {} <=> \A k \in 1 .. Len(q) : q[k] \notin S
  BY DEF Places
<1> QED
  BY <1>2, <1>3, <1>4

\* Queues that agree up to a shift have as many events of a kind.
LEMMA CountConcat ==
    ASSUME NEW E, NEW q \in Seq(E), NEW r \in Seq(E), NEW S
    PROVE  Count(q \o r, S) = Count(q, S) + Count(r, S)
<1> DEFINE A == Places(q, S)
           B == Places(r, S)
           C == {k \in Len(q) + 1 .. Len(q) + Len(r) : r[k - Len(q)] \in S}
<1>1. /\ Len(q) \in Nat /\ Len(r) \in Nat /\ Len(q \o r) = Len(q) + Len(r)
      /\ \A i \in 1 .. Len(q) + Len(r) :
            (q \o r)[i] = IF i <= Len(q) THEN q[i] ELSE r[i - Len(q)]
  BY ConcatProperties, LenProperties
<1>2. IsFiniteSet(A) /\ IsFiniteSet(B)
  BY CountType
<1>3. Places(q \o r, S) = A \cup C
  <2>1. ASSUME NEW k \in 1 .. Len(q) + Len(r)
        PROVE  (q \o r)[k] \in S <=> k \in A \cup C
    BY <1>1 DEF Places
  <2>2. A \cup C \subseteq 1 .. Len(q) + Len(r)
    BY <1>1 DEF Places
  <2>3. Places(q \o r, S) \subseteq 1 .. Len(q) + Len(r)
        /\ \A k \in 1 .. Len(q) + Len(r) : k \in Places(q \o r, S) <=> (q \o r)[k] \in S
    BY <1>1 DEF Places
  <2> QED
    BY <2>1, <2>2, <2>3
<1>4. A \cap C = {}
  BY <1>1 DEF Places
<1>5. IsFiniteSet(C) /\ Cardinality(C) = Cardinality(B)
  <2> DEFINE f == [k \in B |-> k + Len(q)]
  <2>1. f \in [B -> C]
    BY <1>1 DEF Places
  <2>2. \A j, k \in B : f[j] = f[k] => j = k
    BY <1>1 DEF Places
  <2>3. ASSUME NEW i \in C
        PROVE  \E k \in B : f[k] = i
    <3>1. i - Len(q) \in B /\ (i - Len(q)) + Len(q) = i
      BY <1>1 DEF Places
    <3> QED
      BY <3>1
  <2>4. f \in Bijection(B, C)
    BY <2>1, <2>2, <2>3 DEF Bijection, Injection, Surjection, IsInjective
  <2>5. ExistsBijection(B, C)
    BY <2>4 DEF ExistsBijection
  <2> QED
    BY <1>2, <2>5, FS_Bijection
<1>6. Cardinality(A \cup C) = Cardinality(A) + Cardinality(C)
  <2>1. Cardinality(A \cup C) = Cardinality(A) + Cardinality(C) - Cardinality(A \cap C)
    BY <1>2, <1>5, FS_Union
  <2>2. Cardinality(A \cap C) = 0 /\ Cardinality(A) \in Nat /\ Cardinality(C) \in Nat
    BY <1>2, <1>4, <1>5, FS_EmptySet, FS_CardinalityType
  <2> QED
    BY <2>1, <2>2
<1> QED
  BY <1>3, <1>5, <1>6 DEF Count

LEMMA CountOne ==
    ASSUME NEW ev, NEW S
    PROVE  Count(<<ev>>, S) = IF ev \in S THEN 1 ELSE 0
<1>1. Places(<<ev>>, S) = IF ev \in S THEN {1} ELSE {}
  BY DEF Places
<1> QED
  BY <1>1, FS_EmptySet, FS_Singleton DEF Count

LEMMA CountAppend ==
    ASSUME NEW E, NEW q \in Seq(E), NEW ev \in E, NEW S
    PROVE  Count(Append(q, ev), S) = Count(q, S) + (IF ev \in S THEN 1 ELSE 0)
<1> DEFINE one == <<ev>>
<1>1. Append(q, ev) = q \o one /\ one \in Seq(E)
  BY AppendIsConcat
<1>2. Count(one, S) = IF ev \in S THEN 1 ELSE 0
  BY CountOne
<1> HIDE DEF one
<1>3. Count(q \o one, S) = Count(q, S) + Count(one, S)
  BY <1>1, CountConcat
<1> QED
  BY <1>1, <1>2, <1>3

LEMMA CountTail ==
    ASSUME NEW E, NEW q \in Seq(E), q # <<>>, NEW S
    PROVE  /\ Count(q, S) = Count(Tail(q), S) + (IF Head(q) \in S THEN 1 ELSE 0)
           /\ Count(Tail(q), S) \in Nat
<1>1. q = <<Head(q)>> \o Tail(q) /\ Tail(q) \in Seq(E) /\ <<Head(q)>> \in Seq(E)
  <2>1. Head(q) \in E /\ Tail(q) \in Seq(E) /\ Head(q) = q[1] /\ Len(q) \in Nat \ {0}
        /\ Len(Tail(q)) = Len(q) - 1
        /\ \A i \in 1 .. Len(Tail(q)) : Tail(q)[i] = q[i + 1]
    BY HeadTailProperties, EmptySeq
  <2>2. /\ <<Head(q)>> \in Seq(E) /\ Len(<<Head(q)>>) = 1 /\ <<Head(q)>>[1] = q[1]
    BY <2>1
  <2> DEFINE h == <<Head(q)>>
             t == Tail(q)
  <2>3. h \in Seq(E) /\ t \in Seq(E) /\ Len(h) = 1 /\ h[1] = q[1]
    BY <2>1, <2>2
  <2> HIDE DEF h
  <2>4. /\ h \o t \in Seq(E) /\ Len(h \o t) = Len(h) + Len(t)
        /\ \A i \in 1 .. Len(h) + Len(t) :
              (h \o t)[i] = IF i <= Len(h) THEN h[i] ELSE t[i - Len(h)]
    BY <2>3, ConcatProperties
  <2>5. Len(h \o t) = Len(q)
    BY <2>1, <2>3, <2>4
  <2>6. ASSUME NEW i \in 1 .. Len(q)
        PROVE  q[i] = (h \o t)[i]
    <3>1. (h \o t)[i] = IF i <= 1 THEN h[i] ELSE t[i - 1]
      BY <2>3, <2>4, <2>5
    <3>2. CASE i = 1
      BY <2>3, <3>1, <3>2
    <3>3. CASE i # 1
      <4>1. i - 1 \in 1 .. Len(t) /\ (i - 1) + 1 = i /\ ~ (i <= 1)
        BY <2>1, <3>3
      <4> QED
        BY <2>1, <3>1, <4>1
    <3> QED
      BY <3>2, <3>3
  <2>7. q = h \o t
    BY <2>4, <2>5, <2>6, SeqEqual
  <2> QED
    BY <2>1, <2>2, <2>7 DEF h
<1>2. Count(q, S) = Count(<<Head(q)>>, S) + Count(Tail(q), S)
  <2> DEFINE h == <<Head(q)>>
             t == Tail(q)
  <2>1. h \in Seq(E) /\ t \in Seq(E) /\ q = h \o t
    BY <1>1
  <2> HIDE DEF h, t
  <2>2. Count(q, S) = Count(h, S) + Count(t, S)
    BY <2>1, CountConcat
  <2> QED
    BY <2>2 DEF h, t
<1>3. Count(Tail(q), S) \in Nat
  BY <1>1, CountType
<1> QED
  BY <1>2, <1>3, CountOne

-----------------------------------------------------------------------------
(* Where a request can be.                                                 *)

AskFor(i) == {f \in ClientEvent : IsRequest(f) /\ f.id = i}
AnswerTo(i) == {f \in DownEvent : f.id = i}

Held(x, i) == IF <<x, i>> \in DOMAIN reqInfo THEN 1 ELSE 0
Wanted(x, i) == IF i \in commReqs[x] THEN 1 ELSE 0

InOnePlace(x) ==
    \A i \in 1 .. Len(reqs[x]) :
        Count(c2r[x], AskFor(i)) + Held(x, i) + Count(r2c[x], AnswerTo(i)) = Wanted(x, i)

\* Only requests that were made are anywhere.
Numbered(x) ==
    /\ \A f \in Elems(c2r[x]) : IsRequest(f) => f.id \in 1 .. Len(reqs[x])
    /\ \A f \in Elems(r2c[x]) : f.id \in 1 .. Len(reqs[x])
    /\ \A id \in DOMAIN reqInfo : id[1] = x => id[2] \in 1 .. Len(reqs[x])

EInv == \A x \in Ctx : Numbered(x) /\ InOnePlace(x)

LEMMA PlaceTypes ==
    ASSUME IInv, NEW x \in Ctx
    PROVE  /\ c2r[x] \in Seq(ClientEvent) /\ r2c[x] \in Seq(DownEvent)
           /\ c2r \in [Ctx -> Seq(ClientEvent)] /\ r2c \in [Ctx -> Seq(DownEvent)]
           /\ reqs \in [Ctx -> Seq(Request)] /\ commReqs \in [Ctx -> SUBSET Nat]
           /\ Len(reqs[x]) \in Nat /\ Len(c2r[x]) \in Nat /\ Len(r2c[x]) \in Nat
           /\ DOMAIN reqInfo \subseteq Ctx \X Nat
<1>1. /\ c2r \in [Ctx -> Seq(ClientEvent)] /\ r2c \in [Ctx -> Seq(DownEvent)]
      /\ reqs \in [Ctx -> Seq(Request)] /\ commReqs \in [Ctx -> SUBSET Nat]
      /\ DOMAIN reqInfo \subseteq Ctx \X Nat
  BY DEF IInv, TypeOK, ChannelTypeOK, ContextTypeOK, RouterTypeOK, EventId, InfoId
<1> QED
  BY <1>1, LenProperties

LEMMA PlaceCounts ==
    ASSUME IInv, NEW x \in Ctx, NEW i
    PROVE  /\ Count(c2r[x], AskFor(i)) \in Nat
           /\ Count(r2c[x], AnswerTo(i)) \in Nat
           /\ (\E f \in Elems(c2r[x]) : IsRequest(f) /\ f.id = i)
                  <=> Count(c2r[x], AskFor(i)) # 0
           /\ (\E f \in Elems(r2c[x]) : f.id = i) <=> Count(r2c[x], AnswerTo(i)) # 0
<1>1. c2r[x] \in Seq(ClientEvent) /\ r2c[x] \in Seq(DownEvent)
  BY PlaceTypes
<1>2. /\ Count(c2r[x], AskFor(i)) \in Nat /\ Count(r2c[x], AnswerTo(i)) \in Nat
      /\ (\A k \in 1 .. Len(c2r[x]) : c2r[x][k] \notin AskFor(i))
             <=> Count(c2r[x], AskFor(i)) = 0
      /\ (\A k \in 1 .. Len(r2c[x]) : r2c[x][k] \notin AnswerTo(i))
             <=> Count(r2c[x], AnswerTo(i)) = 0
  BY <1>1, CountType
<1>3. /\ \A k \in 1 .. Len(c2r[x]) : c2r[x][k] \in ClientEvent
      /\ \A k \in 1 .. Len(r2c[x]) : r2c[x][k] \in DownEvent
  BY <1>1, ElementOfSeq
<1> QED
  BY <1>2, <1>3 DEF Elems, AskFor, AnswerTo

\* A context whose connection, requests and infos stay as they are.
LEMMA OthersPlaces ==
    ASSUME NEW x, Numbered(x), InOnePlace(x),
           c2r'[x] = c2r[x], r2c'[x] = r2c[x], reqs'[x] = reqs[x],
           commReqs'[x] = commReqs[x],
           \A id : id[1] = x => (id \in DOMAIN reqInfo' <=> id \in DOMAIN reqInfo)
    PROVE  Numbered(x)' /\ InOnePlace(x)'
<1>1. \A i : <<x, i>> \in DOMAIN reqInfo' <=> <<x, i>> \in DOMAIN reqInfo
  OBVIOUS
<1> QED
  BY <1>1 DEF Numbered, InOnePlace, Held, Wanted

LEMMA IssuePlaces ==
    ASSUME IInv, EInv, NEW x \in Ctx, NEW m \in Comm, NEW op \in Op, Issue(x, m, op),
           r2c' = r2c, reqInfo' = reqInfo
    PROVE  EInv'
<1> DEFINE id == Len(reqs[x]) + 1
           first == FirstUse(m)
           ev == CommReqEvent(m, op, id)
           q == c2r[x] \o first
<1>1. /\ c2r \in [Ctx -> Seq(ClientEvent)] /\ reqs \in [Ctx -> Seq(Request)]
      /\ commReqs \in [Ctx -> SUBSET Nat] /\ Len(reqs[x]) \in Nat
      /\ c2r[x] \in Seq(ClientEvent)
  BY PlaceTypes
<1>2. /\ c2r' = [c2r EXCEPT ![x] = Append(q, ev)]
      /\ reqs' = [reqs EXCEPT ![x] = Append(@, [comm |-> m, op |-> op])]
      /\ commReqs' = [commReqs EXCEPT ![x] = @ \cup {id}]
  BY DEF Issue, SendRequest
<1>3. /\ ev \in ClientEvent /\ IsRequest(ev) /\ ev.id = id
      /\ CommCreateEvent(m) \in ClientEvent /\ ~ IsRequest(CommCreateEvent(m))
      /\ [comm |-> m, op |-> op] \in Request
  BY <1>1 DEF CommReqEvent, CommCreateEvent, ClientEvent, Request, IsRequest, EventId
<1>4. /\ first \in Seq(ClientEvent)
      /\ \A k \in 1 .. Len(first) : ~ IsRequest(first[k])
  BY <1>3 DEF FirstUse
<1>5. \A y \in Ctx \ {x} : /\ c2r'[y] = c2r[y] /\ reqs'[y] = reqs[y]
                            /\ commReqs'[y] = commReqs[y]
  BY <1>1, <1>2
<1>6. /\ c2r'[x] = Append(q, ev) /\ commReqs'[x] = commReqs[x] \cup {id}
      /\ Len(reqs'[x]) = id
  <2>1. Len(Append(reqs[x], [comm |-> m, op |-> op])) = id
    BY <1>1, <1>3, AppendProperties
  <2> QED
    BY <1>1, <1>2, <2>1
<1> HIDE DEF ev, first
<1>7. q \in Seq(ClientEvent)
  BY <1>1, <1>4, ConcatProperties
<1>8. \A i : Count(first, AskFor(i)) = 0
  BY <1>4, CountType DEF AskFor
<1>9. \A i : Count(q, AskFor(i)) = Count(c2r[x], AskFor(i))
  <2>1. \A i : Count(q, AskFor(i)) = Count(c2r[x], AskFor(i)) + Count(first, AskFor(i))
    BY <1>1, <1>4, CountConcat
  <2> QED
    BY <1>8, <2>1, PlaceCounts
<1>10. \A f \in Elems(q) : IsRequest(f) => f \in Elems(c2r[x])
  <2>1. \A f \in Elems(first) : ~ IsRequest(f)
    BY <1>4 DEF Elems
  <2> QED
    BY <1>1, <1>4, <2>1, ElemsConcat
<1> HIDE DEF q
<1>11. ASSUME NEW i
       PROVE  Count(c2r'[x], AskFor(i))
              = Count(c2r[x], AskFor(i)) + (IF i = id THEN 1 ELSE 0)
  <2>1. Count(c2r'[x], AskFor(i)) = Count(q, AskFor(i)) + (IF ev \in AskFor(i) THEN 1 ELSE 0)
    BY <1>3, <1>6, <1>7, CountAppend
  <2>2. ev \in AskFor(i) <=> i = id
    BY <1>3 DEF AskFor
  <2> QED
    BY <1>9, <2>1, <2>2
<1>12. Numbered(x) /\ InOnePlace(x)
  BY DEF EInv
<1>13. Numbered(x)'
  <2>1. \A f \in Elems(c2r'[x]) : f \in Elems(q) \/ f = ev
    <3>1. /\ Len(c2r'[x]) = Len(q) + 1 /\ c2r'[x][Len(q) + 1] = ev /\ Len(q) \in Nat
          /\ \A k \in 1 .. Len(q) : c2r'[x][k] = q[k]
      BY <1>3, <1>6, <1>7, AppendProperties, LenProperties
    <3>2. \A k \in 1 .. Len(q) + 1 : k \in 1 .. Len(q) \/ k = Len(q) + 1
      BY <3>1
    <3> QED
      BY <3>1, <3>2 DEF Elems
  <2>2. 1 .. Len(reqs[x]) \subseteq 1 .. Len(reqs'[x]) /\ id \in 1 .. Len(reqs'[x])
    BY <1>1, <1>6
  <2>3. \A f \in Elems(c2r'[x]) : IsRequest(f) => f.id \in 1 .. Len(reqs'[x])
    BY <1>3, <1>10, <1>12, <2>1, <2>2 DEF Numbered
  <2> QED
    BY <1>12, <2>2, <2>3 DEF Numbered
<1>14. InOnePlace(x)'
  <2> SUFFICES ASSUME NEW i \in 1 .. id
               PROVE  Count(c2r'[x], AskFor(i)) + Held(x, i)' + Count(r2c[x], AnswerTo(i))
                      = Wanted(x, i)'
    BY <1>6 DEF InOnePlace
  <2>1. Held(x, i)' = Held(x, i)
    BY DEF Held
  <2>2. CASE i # id
    <3>1. i \in 1 .. Len(reqs[x]) /\ Wanted(x, i)' = Wanted(x, i)
      BY <1>1, <1>6, <2>2 DEF Wanted
    <3>2. Count(c2r'[x], AskFor(i)) = Count(c2r[x], AskFor(i))
      BY <1>11, <2>2, PlaceCounts
    <3> QED
      BY <1>12, <2>1, <3>1, <3>2 DEF InOnePlace
  <2>3. CASE i = id
    <3>1. ~ (id \in 1 .. Len(reqs[x]))
      BY <1>1
    <3>2. Count(c2r[x], AskFor(id)) = 0 /\ Count(r2c[x], AnswerTo(id)) = 0
      BY <1>12, <3>1, PlaceCounts DEF Numbered
    <3>3. Held(x, id) = 0
      BY <1>12, <3>1 DEF Held, Numbered
    <3>4. Wanted(x, i)' = 1
      BY <1>6, <2>3 DEF Wanted
    <3>5. Count(c2r'[x], AskFor(id)) = 1
      BY <1>11, <3>2
    <3> QED
      BY <2>1, <2>3, <3>2, <3>3, <3>4, <3>5
  <2> QED
    BY <2>2, <2>3
<1> QED
  BY <1>5, <1>13, <1>14, OthersPlaces DEF EInv

\* The context reads an answer: it is the one place the request was in.
LEMMA ConsumePlaces ==
    ASSUME IInv, EInv, NEW x \in Ctx, Consume(x), c2r' = c2r, reqInfo' = reqInfo
    PROVE  EInv'
<1> DEFINE ev == Head(r2c[x])
<1>1. /\ r2c \in [Ctx -> Seq(DownEvent)] /\ commReqs \in [Ctx -> SUBSET Nat]
      /\ r2c[x] \in Seq(DownEvent)
  BY PlaceTypes
<1>2. /\ r2c[x] # <<>> /\ r2c' = [r2c EXCEPT ![x] = Tail(@)]
      /\ commReqs' = [commReqs EXCEPT ![x] = @ \ {ev.id}] /\ reqs' = reqs
  BY DEF Consume, Received
<1>3. /\ r2c'[x] = Tail(r2c[x]) /\ commReqs'[x] = commReqs[x] \ {ev.id}
      /\ \A y \in Ctx \ {x} : r2c'[y] = r2c[y] /\ commReqs'[y] = commReqs[y]
  BY <1>1, <1>2
<1>4. /\ ev \in Elems(r2c[x]) /\ Elems(Tail(r2c[x])) \subseteq Elems(r2c[x])
      /\ ev \in DownEvent
  BY <1>1, <1>2, ElemsTail, ElemsType
<1>5. Numbered(x) /\ InOnePlace(x)
  BY DEF EInv
<1>6. Numbered(x)'
  BY <1>2, <1>3, <1>4, <1>5 DEF Numbered
<1>7. InOnePlace(x)'
  <2> SUFFICES ASSUME NEW i \in 1 .. Len(reqs[x])
               PROVE  Count(c2r[x], AskFor(i)) + Held(x, i)' + Count(r2c'[x], AnswerTo(i))
                      = Wanted(x, i)'
    BY <1>2 DEF InOnePlace
  <2>1. Held(x, i)' = Held(x, i) /\ Held(x, i) \in {0, 1} /\ Wanted(x, i) \in {0, 1}
    BY DEF Held, Wanted
  <2>2. /\ Count(r2c[x], AnswerTo(i))
           = Count(r2c'[x], AnswerTo(i)) + (IF ev \in AnswerTo(i) THEN 1 ELSE 0)
        /\ Count(r2c'[x], AnswerTo(i)) \in Nat
    BY <1>1, <1>2, <1>3, CountTail
  <2>3. ev \in AnswerTo(i) <=> i = ev.id
    BY <1>4 DEF AnswerTo
  <2>4. Count(c2r[x], AskFor(i)) + Held(x, i) + Count(r2c[x], AnswerTo(i)) = Wanted(x, i)
    BY <1>5 DEF InOnePlace
  <2>5. Count(c2r[x], AskFor(i)) \in Nat
    BY PlaceCounts
  <2>6. Wanted(x, i)' = IF i = ev.id THEN 0 ELSE Wanted(x, i)
    BY <1>3 DEF Wanted
  <2>7. Held(x, i) \in Nat /\ Wanted(x, i) \in Nat /\ Wanted(x, i) <= 1
    BY <2>1
  <2>8. CASE i = ev.id
    <3>1. Count(r2c[x], AnswerTo(i)) = Count(r2c'[x], AnswerTo(i)) + 1
      BY <2>2, <2>3, <2>8
    <3>2. Wanted(x, i)' = 0
      BY <2>6, <2>8
    <3>3. Count(c2r[x], AskFor(i)) + Held(x, i) + Count(r2c'[x], AnswerTo(i)) = 0
      BY <2>2, <2>4, <2>5, <2>7, <3>1
    <3> QED
      BY <2>1, <3>2, <3>3
  <2>9. CASE i # ev.id
    <3>1. Count(r2c[x], AnswerTo(i)) = Count(r2c'[x], AnswerTo(i))
      BY <2>2, <2>3, <2>9
    <3>2. Wanted(x, i)' = Wanted(x, i)
      BY <2>6, <2>9
    <3> QED
      BY <2>1, <2>4, <3>1, <3>2
  <2> QED
    BY <2>8, <2>9
<1> QED
  BY <1>2, <1>3, <1>6, <1>7, OthersPlaces DEF EInv

\* The router reads an event of a client; if it is a request, an info is made.
LEMMA RouterReadsPlaces ==
    ASSUME IInv, EInv, NEW c \in Ctx, c2r[c] # <<>>, c2r' = Received(c2r, c),
           r2c' = r2c, reqs' = reqs, commReqs' = commReqs,
           DOMAIN reqInfo' = IF IsRequest(Head(c2r[c]))
                             THEN DOMAIN reqInfo \cup {<<c, Head(c2r[c]).id>>}
                             ELSE DOMAIN reqInfo
    PROVE  /\ EInv'
           /\ IsRequest(Head(c2r[c])) => <<c, Head(c2r[c]).id>> \notin DOMAIN reqInfo
<1> DEFINE ev == Head(c2r[c])
<1>1. c2r \in [Ctx -> Seq(ClientEvent)] /\ c2r[c] \in Seq(ClientEvent)
      /\ DOMAIN reqInfo \subseteq Ctx \X Nat
  BY PlaceTypes
<1>2. c2r'[c] = Tail(c2r[c]) /\ \A y \in Ctx \ {c} : c2r'[y] = c2r[y]
  BY <1>1 DEF Received
<1>3. /\ ev \in Elems(c2r[c]) /\ Elems(Tail(c2r[c])) \subseteq Elems(c2r[c])
      /\ ev \in ClientEvent
  BY <1>1, ElemsTail, ElemsType
<1>4. Numbered(c) /\ InOnePlace(c)
  BY DEF EInv
<1>5. IsRequest(ev) => ev.id \in 1 .. Len(reqs[c])
  BY <1>3, <1>4 DEF Numbered
<1>6. Numbered(c)'
  BY <1>2, <1>3, <1>4, <1>5 DEF Numbered
<1>7. ASSUME NEW i \in 1 .. Len(reqs[c])
      PROVE  /\ Count(c2r'[c], AskFor(i)) + Held(c, i)' + Count(r2c[c], AnswerTo(i))
                = Wanted(c, i)
             /\ (IsRequest(ev) /\ ev.id = i) => Held(c, i) = 0
  <2>1. Held(c, i)' = IF IsRequest(ev) /\ i = ev.id THEN 1 ELSE Held(c, i)
    BY DEF Held
  <2>2. /\ Count(c2r[c], AskFor(i))
           = Count(c2r'[c], AskFor(i)) + (IF ev \in AskFor(i) THEN 1 ELSE 0)
        /\ Count(c2r'[c], AskFor(i)) \in Nat
    BY <1>1, <1>2, CountTail
  <2>3. ev \in AskFor(i) <=> (IsRequest(ev) /\ i = ev.id)
    BY <1>3 DEF AskFor
  <2>4. Count(c2r[c], AskFor(i)) + Held(c, i) + Count(r2c[c], AnswerTo(i)) = Wanted(c, i)
    BY <1>4 DEF InOnePlace
  <2>5. /\ Count(r2c[c], AnswerTo(i)) \in Nat
        /\ Held(c, i) \in {0, 1} /\ Wanted(c, i) \in {0, 1}
    BY PlaceCounts DEF Held, Wanted
  <2> QED
    BY <2>1, <2>2, <2>3, <2>4, <2>5
<1>8. InOnePlace(c)'
  <2>1. \A i : Wanted(c, i)' = Wanted(c, i)
    BY DEF Wanted
  <2> QED
    BY <1>7, <2>1 DEF InOnePlace
<1>9. IsRequest(ev) => <<c, ev.id>> \notin DOMAIN reqInfo
  BY <1>5, <1>7 DEF Held
<1>10. ASSUME NEW y \in Ctx \ {c}
       PROVE  Numbered(y)' /\ InOnePlace(y)'
  <2>1. \A id : id[1] = y => (id \in DOMAIN reqInfo' <=> id \in DOMAIN reqInfo)
    OBVIOUS
  <2> QED
    BY <1>2, <2>1, OthersPlaces DEF EInv
<1> QED
  BY <1>6, <1>8, <1>9, <1>10 DEF EInv

\* The router answers a client, and the info is gone.
LEMMA RespSendPlaces ==
    ASSUME IInv, EInv, NEW id \in DOMAIN reqInfo, NEW ev \in DownEvent, ev.id = id[2],
           r2c' = Sent(r2c, id[1], ev), Free(id),
           c2r' = c2r, reqs' = reqs, commReqs' = commReqs
    PROVE  EInv'
<1> DEFINE x == id[1]
<1>1. /\ DOMAIN reqInfo \subseteq Ctx \X Nat
      /\ x \in Ctx /\ id = <<x, id[2]>>
  <2>1. DOMAIN reqInfo \subseteq Ctx \X Nat
    BY DEF IInv, TypeOK, RouterTypeOK, EventId, InfoId
  <2> QED
    BY <2>1
<1>2. r2c \in [Ctx -> Seq(DownEvent)] /\ r2c[x] \in Seq(DownEvent)
  BY <1>1, PlaceTypes
<1>3. r2c'[x] = Append(r2c[x], ev) /\ \A y \in Ctx \ {x} : r2c'[y] = r2c[y]
  BY <1>1, <1>2 DEF Sent
<1>4. DOMAIN reqInfo' = DOMAIN reqInfo \ {id}
  BY DEF Free
<1>5. Numbered(x) /\ InOnePlace(x)
  BY <1>1 DEF EInv
<1>6. id[2] \in 1 .. Len(reqs[x])
  BY <1>5 DEF Numbered
<1>7. Numbered(x)'
  <2>1. \A f \in Elems(r2c'[x]) : f \in Elems(r2c[x]) \/ f = ev
    <3>1. /\ Len(r2c'[x]) = Len(r2c[x]) + 1 /\ r2c'[x][Len(r2c[x]) + 1] = ev
          /\ Len(r2c[x]) \in Nat
          /\ \A k \in 1 .. Len(r2c[x]) : r2c'[x][k] = r2c[x][k]
      BY <1>2, <1>3, AppendProperties, LenProperties
    <3>2. \A k \in 1 .. Len(r2c[x]) + 1 : k \in 1 .. Len(r2c[x]) \/ k = Len(r2c[x]) + 1
      BY <3>1
    <3> QED
      BY <3>1, <3>2 DEF Elems
  <2> QED
    BY <1>4, <1>5, <1>6, <2>1 DEF Numbered
<1>8. InOnePlace(x)'
  <2> SUFFICES ASSUME NEW i \in 1 .. Len(reqs[x])
               PROVE  Count(c2r[x], AskFor(i)) + Held(x, i)' + Count(r2c'[x], AnswerTo(i))
                      = Wanted(x, i)
    BY DEF InOnePlace, Wanted
  <2>1. Count(r2c'[x], AnswerTo(i))
        = Count(r2c[x], AnswerTo(i)) + (IF ev \in AnswerTo(i) THEN 1 ELSE 0)
    BY <1>2, <1>3, CountAppend
  <2>2. ev \in AnswerTo(i) <=> i = id[2]
    BY DEF AnswerTo
  <2>3. <<x, i>> \in DOMAIN reqInfo' <=> (<<x, i>> \in DOMAIN reqInfo /\ i # id[2])
    BY <1>1, <1>4
  <2>4. Count(c2r[x], AskFor(i)) + Held(x, i) + Count(r2c[x], AnswerTo(i)) = Wanted(x, i)
    BY <1>5 DEF InOnePlace
  <2>5. Count(c2r[x], AskFor(i)) \in Nat /\ Count(r2c[x], AnswerTo(i)) \in Nat
    BY <1>1, PlaceCounts
  <2>6. i = id[2] => <<x, i>> \in DOMAIN reqInfo
    BY <1>1
  <2>7. Held(x, i) = (IF i = id[2] THEN 1 ELSE Held(x, i)')
    BY <2>3, <2>6 DEF Held
  <2>8. i = id[2] => Held(x, i)' = 0
    BY <2>3 DEF Held
  <2>9. Held(x, i)' \in {0, 1}
    BY DEF Held
  <2> QED
    BY <2>1, <2>2, <2>4, <2>5, <2>7, <2>8, <2>9
<1>9. ASSUME NEW y \in Ctx \ {x}
      PROVE  Numbered(y)' /\ InOnePlace(y)'
  <2>1. \A j : j[1] = y => (j \in DOMAIN reqInfo' <=> j \in DOMAIN reqInfo)
    BY <1>4
  <2> QED
    BY <1>3, <2>1, OthersPlaces DEF EInv
<1> QED
  BY <1>1, <1>7, <1>8, <1>9 DEF EInv

-----------------------------------------------------------------------------
LEMMA RouterPlaces ==
    ASSUME IInv, EInv, RouterStep
    PROVE  EInv'
<1>1. reqs' = reqs /\ commReqs' = commReqs
  BY DEF RouterStep, contextVars
<1>2. ASSUME NEW c \in Ctx, RtrCommCreate(c) \/ RtrClientClosed(c)
      PROVE  EInv'
  <2>1. /\ c2r[c] # <<>> /\ c2r' = Received(c2r, c) /\ r2c' = r2c /\ reqInfo' = reqInfo
        /\ ~ IsRequest(Head(c2r[c]))
    BY <1>2 DEF RtrCommCreate, RtrClientClosed, Arrives, IsRequest
  <2> QED
    BY <1>1, <2>1, RouterReadsPlaces
<1>3. ASSUME NEW c \in Ctx, RtrCommReq(c)
      PROVE  EInv'
  <2>1. /\ c2r[c] # <<>> /\ c2r' = Received(c2r, c) /\ r2c' = r2c
        /\ IsRequest(Head(c2r[c]))
        /\ DOMAIN reqInfo' = DOMAIN reqInfo \cup {<<c, Head(c2r[c]).id>>}
    BY <1>3 DEF RtrCommReq, Allocate, Arrives, IsRequest
  <2> QED
    BY <1>1, <2>1, RouterReadsPlaces
<1>4. ASSUME NEW s \in Server, RtrServerConnect(s) \/ RtrRespQueue(s)
      PROVE  EInv'
  <2>1. c2r' = c2r /\ r2c' = r2c /\ DOMAIN reqInfo' = DOMAIN reqInfo
    BY <1>4 DEF RtrServerConnect, RtrRespQueue, Update
  <2> QED
    BY <1>1, <2>1, OthersPlaces DEF EInv
<1>5. ASSUME NEW s \in Server, RtrRespSend(s)
      PROVE  EInv'
  <2> DEFINE ev == Head(s2r[s])
             info == reqInfo[ev.id]
             reply == ReplyEvent(ev.id, info, ev)
  <2>1. /\ Arrives(s2r[s], "CommResp") /\ InfoLive(s)
        /\ r2c' = Sent(r2c, ev.id[1], reply) /\ Free(ev.id) /\ c2r' = c2r
    BY <1>5 DEF RtrRespSend
  <2>2. ev.id \in DOMAIN reqInfo
    BY <2>1 DEF InfoLive
  <2>3. ev.err \in SUBSET Server /\ ev.value \in Value /\ ev.id \in InfoId /\ ev.grp \in Nat
    <3>1. ChannelTypeOK
      BY DEF IInv, TypeOK
    <3> QED
      BY <2>1, <3>1, UpEventType
  <2>4. IInv'
    <3>1. [Next]_vars
      BY <1>5 DEF Next
    <3> QED
      BY <3>1, NextIInv
  <2>5. r2c' \in [Ctx -> Seq(DownEvent)] /\ r2c \in [Ctx -> Seq(DownEvent)]
    BY <2>4 DEF IInv, TypeOK, ChannelTypeOK
  <2>6. ev.id[1] \in Ctx /\ ev.id[2] \in Nat
    BY <2>3 DEF InfoId, EventId
  <2>7. reply.id = ev.id[2]
    BY DEF ReplyEvent, ClientRespEvent
  <2>8. reply \in DownEvent
    <3> DEFINE q == r2c[ev.id[1]]
               D == DownEvent \cup {reply}
    <3>1. q \in Seq(DownEvent) /\ r2c'[ev.id[1]] = Append(q, reply)
      BY <2>1, <2>5, <2>6 DEF Sent
    <3>2. Append(q, reply) \in Seq(DownEvent)
      BY <2>5, <2>6, <3>1
    <3> HIDE DEF q, reply
    <3>3. q \in Seq(D) /\ reply \in D
      BY <3>1, SeqMonotonic
    <3>4. Len(Append(q, reply)) = Len(q) + 1 /\ Append(q, reply)[Len(q) + 1] = reply
          /\ Len(q) \in Nat
      BY <3>3, AppendProperties, LenProperties
    <3>5. Len(q) + 1 \in 1 .. Len(Append(q, reply))
      BY <3>4
    <3> QED
      BY <3>2, <3>4, <3>5, ElementOfSeq
  <2> HIDE DEF reply
  <2> QED
    BY <1>1, <2>1, <2>2, <2>7, <2>8, RespSendPlaces
<1> QED
  BY <1>2, <1>3, <1>4, <1>5 DEF RouterStep

LEMMA ServerPlaces ==
    ASSUME IInv, EInv, NEW s \in Server, ServerStep(s)
    PROVE  EInv'
<1>1. reqInfo' = reqInfo /\ s \in Ctx
  BY DEF ServerStep, routerVars, Ctx
<1>2. CASE ServerStart(s) \/ SrvrCommCreate(s) \/ SrvrCommDestroy(s) \/ SrvrReqLocal(s)
  <2>1. c2r' = c2r /\ r2c' = r2c /\ reqs' = reqs /\ commReqs' = commReqs
    BY <1>2 DEF ServerStart, SrvrCommCreate, SrvrCommDestroy, SrvrReqLocal, contextVars
  <2> QED
    BY <1>1, <2>1, OthersPlaces DEF EInv
<1>3. CASE SrvrReqForward(s)
  <2>1. Issue(s, Nested[s], Head(r2s[s]).op) /\ r2c' = r2c
    BY <1>3 DEF SrvrReqForward
  <2>2. Nested[s] \in Comm /\ Head(r2s[s]).op \in Op
    <3>1. ChannelTypeOK
      BY DEF IInv, TypeOK
    <3> QED
      BY <1>3, <3>1, CommAssumption, ServerEventType DEF SrvrReqForward, Forwards
  <2> QED
    BY <1>1, <2>1, <2>2, IssuePlaces
<1>4. CASE SrvrMakeProgress(s)
  BY <1>1, <1>4, ConsumePlaces DEF SrvrMakeProgress
<1> QED
  BY <1>2, <1>3, <1>4 DEF ServerStep

LEMMA AppPlaces ==
    ASSUME IInv, EInv, NEW x \in App, AppCall(x) \/ AppRun(x)
    PROVE  EInv'
<1>1. reqInfo' = reqInfo /\ x \in Ctx
  BY DEF AppCall, AppRun, routerVars, Ctx
<1>2. ASSUME NEW m \in Comm, NEW op \in Op, Submit(x, m, op)
      PROVE  EInv'
  BY <1>1, <1>2, IssuePlaces DEF Submit
<1>3. CASE WaitEvent(x) \/ MakeProgress(x)
  BY <1>1, <1>3, ConsumePlaces DEF WaitEvent, MakeProgress
<1>4. ASSUME c2r' = c2r, r2c' = r2c, reqs' = reqs, commReqs' = commReqs
      PROVE  EInv'
  BY <1>1, <1>4, OthersPlaces DEF EInv
<1>5. CASE WaitReturn(x) \/ \E i \in Ids : Wait(x, i)
  BY <1>4, <1>5 DEF WaitReturn, Wait, contextVars
<1>6. CASE Close(x)
  <2>1. /\ c2r \in [Ctx -> Seq(ClientEvent)] /\ c2r[x] \in Seq(ClientEvent)
        /\ Len(c2r[x]) \in Nat
    BY <1>1, PlaceTypes
  <2>2. /\ c2r' = [c2r EXCEPT ![x] = Append(@, Eof)] /\ r2c' = r2c
        /\ reqs' = reqs /\ commReqs' = commReqs
    BY <1>6 DEF Close, Sent, contextVars
  <2>3. c2r'[x] = Append(c2r[x], Eof) /\ \A y \in Ctx \ {x} : c2r'[y] = c2r[y]
    BY <1>1, <2>1, <2>2
  <2>4. Eof \in ClientEvent /\ ~ IsRequest(Eof)
    BY DEF ClientEvent, Eof, IsRequest
  <2>5. \A i : Count(c2r'[x], AskFor(i)) = Count(c2r[x], AskFor(i))
    <3>1. \A i : Eof \notin AskFor(i)
      BY <2>4 DEF AskFor
    <3>2. \A i : Count(Append(c2r[x], Eof), AskFor(i)) = Count(c2r[x], AskFor(i)) + 0
      BY <2>1, <2>4, <3>1, CountAppend
    <3> QED
      BY <1>1, <2>3, <3>2, PlaceCounts
  <2>6. \A f \in Elems(c2r'[x]) : f \in Elems(c2r[x]) \/ f = Eof
    <3>1. /\ Len(c2r'[x]) = Len(c2r[x]) + 1 /\ c2r'[x][Len(c2r[x]) + 1] = Eof
          /\ \A k \in 1 .. Len(c2r[x]) : c2r'[x][k] = c2r[x][k]
      BY <2>1, <2>3, <2>4, AppendProperties
    <3>2. \A k \in 1 .. Len(c2r[x]) + 1 : k \in 1 .. Len(c2r[x]) \/ k = Len(c2r[x]) + 1
      BY <2>1
    <3> QED
      BY <3>1, <3>2 DEF Elems
  <2>7. Numbered(x)' /\ InOnePlace(x)'
    <3>1. Numbered(x) /\ InOnePlace(x)
      BY <1>1 DEF EInv
    <3>2. Numbered(x)'
      BY <1>1, <2>2, <2>4, <2>6, <3>1 DEF Numbered
    <3>3. InOnePlace(x)'
      BY <1>1, <2>2, <2>5, <3>1 DEF InOnePlace, Held, Wanted
    <3> QED
      BY <3>2, <3>3
  <2> QED
    BY <1>1, <2>2, <2>3, <2>7, OthersPlaces DEF EInv
<1> QED
  BY <1>2, <1>3, <1>5, <1>6 DEF AppCall, AppRun

LEMMA NextPlaces == IInv /\ EInv /\ [Next]_vars => EInv'
<1> SUFFICES ASSUME IInv, EInv, [Next]_vars PROVE EInv'
  OBVIOUS
<1>1. CASE UNCHANGED vars
  BY <1>1, OthersPlaces DEF EInv, vars, channels, contextVars, routerVars
<1> QED
  BY <1>1, RouterPlaces, ServerPlaces, AppPlaces DEF Next

LEMMA InitPlaces == Init => EInv
<1> SUFFICES ASSUME Init, NEW x \in Ctx PROVE Numbered(x) /\ InOnePlace(x)
  BY DEF EInv
<1>1. /\ c2r[x] = <<>> /\ r2c[x] = <<>> /\ reqs[x] = <<>> /\ DOMAIN reqInfo = {}
  BY DEF Init, ChannelInit, ContextInit, RouterInit
<1> QED
  BY <1>1 DEF Numbered, InOnePlace, Elems

-----------------------------------------------------------------------------
\* A request is in one place at a time: an answer is sent once, and only for a
\* request that waits (distRequest.cc, wait; commReqEvent.h; commRespEvent.h).
THEOREM EndToEndCorrect == Spec => []EndToEnd
<1>1. IInv /\ EInv => EndToEnd
  <2> SUFFICES ASSUME IInv, EInv, NEW x \in Ctx, NEW i \in 1 .. Len(reqs[x])
               PROVE    Positions(c2r[x], LAMBDA ev : ev.type = "CommReq" /\ ev.id = i)
                      + Cardinality({id \in DOMAIN reqInfo : id = <<x, i>>})
                      + Positions(r2c[x], LAMBDA ev : ev.id = i)
                      = IF i \in commReqs[x] THEN 1 ELSE 0
    BY DEF EndToEnd
  <2>1. /\ \A k \in 1 .. Len(c2r[x]) : c2r[x][k] \in ClientEvent
        /\ \A k \in 1 .. Len(r2c[x]) : r2c[x][k] \in DownEvent
    BY PlaceTypes, ElementOfSeq
  <2>2. {k \in 1 .. Len(c2r[x]) : c2r[x][k].type = "CommReq" /\ c2r[x][k].id = i}
        = Places(c2r[x], AskFor(i))
    BY <2>1 DEF Places, AskFor, IsRequest
  <2>3. {k \in 1 .. Len(r2c[x]) : r2c[x][k].id = i} = Places(r2c[x], AnswerTo(i))
    BY <2>1 DEF Places, AnswerTo
  <2>4. Cardinality({id \in DOMAIN reqInfo : id = <<x, i>>}) = Held(x, i)
    <3>1. CASE <<x, i>> \in DOMAIN reqInfo
      <4>1. {id \in DOMAIN reqInfo : id = <<x, i>>} = {<<x, i>>}
        BY <3>1
      <4> QED
        BY <3>1, <4>1, FS_Singleton DEF Held
    <3>2. CASE <<x, i>> \notin DOMAIN reqInfo
      <4>1. {id \in DOMAIN reqInfo : id = <<x, i>>} = {}
        BY <3>2
      <4> QED
        BY <3>2, <4>1, FS_EmptySet DEF Held
    <3> QED
      BY <3>1, <3>2
  <2>5. Count(c2r[x], AskFor(i)) + Held(x, i) + Count(r2c[x], AnswerTo(i)) = Wanted(x, i)
    BY DEF EInv, InOnePlace
  <2> QED
    BY <2>2, <2>3, <2>4, <2>5 DEF Positions, Count, Wanted
<1> QED
  BY <1>1, InitIInv, NextIInv, InitPlaces, NextPlaces, PTL DEF Spec
-----------------------------------------------------------------------------
(* The fan-out of a request: each object of each list of a live            *)
(* CommReqInfo has answered or has one copy of the request, and of a       *)
(* CommReqInfo that was freed nothing is left anywhere.  With it, no       *)
(* handler finds something missing that it relies on, if log and sample    *)
(* requests are for one object: what is still on its way when a client     *)
(* goes is nothing but the end of its communicators, since it goes only    *)
(* when it waits for nothing.                                              *)

ReqOf(id, g) == {ev \in ServerEvent : IsRequest(ev) /\ ev.id = id /\ ev.grp = g}
RespOf(id, g) == {ev \in UpEvent : ev.type = "CommResp" /\ ev.id = id /\ ev.grp = g}
Kept(s, id, g) == {key \in finiMap[s] : key.id = id /\ key.grp = g}

\* Copies, with what is pending and what is on the connection in one queue.
Total(s, id, g) ==
    Count(Queue(s), ReqOf(id, g)) + Cardinality(Kept(s, id, g))
        + Count(s2r[s], RespOf(id, g))

Addressed(s, id, g) ==
    /\ id \in DOMAIN reqInfo
    /\ g \in Lists(reqInfo[id].comm)
    /\ s \in Members[reqInfo[id].comm][g]

\* The objects of list g of m that are through with request id.
Through(m, id, g) == {s \in Members[m][g] : Total(s, id, g) = 0}

FiniteFini == \A s \in Server : IsFiniteSet(finiMap[s])

\* There is no more than one copy of a request for each object it is for, and
\* none of a request that is not live.
Accounted ==
    \A s \in Server, id \in InfoId, g \in Nat :
        Total(s, id, g) <= IF Addressed(s, id, g) THEN 1 ELSE 0

GotAnswers ==
    \A id \in DOMAIN reqInfo : \A g \in Lists(reqInfo[id].comm) :
        reqInfo[id].got[g] = Cardinality(Through(reqInfo[id].comm, id, g))

\* RtrCommLogReqEvent and RtrCommGetSamplesReqEvent assert one object.
LogsOfOne ==
    \A id \in DOMAIN reqInfo :
        reqInfo[id].op \notin Aggregated => OneObject(reqInfo[id].comm)

\* A step that moves copies but makes none and takes none out.
SameCopies ==
    \A s \in Server, id \in InfoId, g \in Nat : Total(s, id, g)' = Total(s, id, g)

FInv == FiniteFini /\ Accounted /\ GotAnswers /\ LogsOfOne

-----------------------------------------------------------------------------
LEMMA TotalTypes ==
    ASSUME IInv, FiniteFini, NEW s \in Server, NEW id, NEW g
    PROVE  /\ Queue(s) \in Seq(ServerEvent) /\ s2r[s] \in Seq(UpEvent)
           /\ s2r \in [Server -> Seq(UpEvent)]
           /\ IsFiniteSet(Kept(s, id, g)) /\ Cardinality(Kept(s, id, g)) \in Nat
           /\ Count(Queue(s), ReqOf(id, g)) \in Nat
           /\ Count(s2r[s], RespOf(id, g)) \in Nat
           /\ Total(s, id, g) \in Nat
<1>1. /\ Queue(s) \in Seq(ServerEvent) /\ s2r[s] \in Seq(UpEvent)
      /\ s2r \in [Server -> Seq(UpEvent)]
  BY QueueTypes DEF IInv, TypeOK, ChannelTypeOK
<1>2. IsFiniteSet(Kept(s, id, g)) /\ Cardinality(Kept(s, id, g)) \in Nat
  BY FS_Subset, FS_CardinalityType DEF FiniteFini, Kept
<1>3. Count(Queue(s), ReqOf(id, g)) \in Nat /\ Count(s2r[s], RespOf(id, g)) \in Nat
  BY <1>1, CountType
<1> QED
  BY <1>1, <1>2, <1>3 DEF Total

\* The answers of a live info are typed.
LEMMA InfoType ==
    ASSUME IInv, NEW id \in DOMAIN reqInfo
    PROVE  /\ id \in InfoId /\ reqInfo[id].comm \in Comm
           /\ reqInfo[id] \in CommReqInfo(reqInfo[id].comm)
           /\ Lists(reqInfo[id].comm) \subseteq Nat
           /\ \A g \in Lists(reqInfo[id].comm) : reqInfo[id].got[g] \in Nat
<1>1. id \in InfoId /\ \E m \in Comm : reqInfo[id] \in CommReqInfo(m)
  BY DEF IInv, TypeOK, RouterTypeOK
<1>2. PICK m \in Comm : reqInfo[id] \in CommReqInfo(m)
  BY <1>1
<1>3. reqInfo[id].comm = m /\ reqInfo[id].got \in [Lists(m) -> Nat]
  BY <1>2 DEF CommReqInfo
<1>4. Lists(m) \subseteq Nat
  BY CommAssumption DEF Lists
<1> QED
  BY <1>1, <1>2, <1>3, <1>4

\* Steps that move a copy, or touch none, change no total.
LEMMA SameTotals ==
    ASSUME IInv, FInv, reqInfo' = reqInfo, FiniteFini',
           \A s \in Server, id \in InfoId, g \in Nat : Total(s, id, g)' = Total(s, id, g)
    PROVE  FInv' /\ SameCopies
<1>1. Accounted'
  BY DEF FInv, Accounted, Addressed
<1>2. GotAnswers'
  <2> SUFFICES ASSUME NEW id \in DOMAIN reqInfo, NEW g \in Lists(reqInfo[id].comm)
               PROVE  reqInfo[id].got[g] = Cardinality(Through(reqInfo[id].comm, id, g)')
    BY DEF GotAnswers
  <2>1. id \in InfoId /\ g \in Nat /\ Members[reqInfo[id].comm][g] \subseteq Server
    BY InfoType, ListSize
  <2>2. Through(reqInfo[id].comm, id, g)' = Through(reqInfo[id].comm, id, g)
    BY <2>1 DEF Through
  <2> QED
    BY <2>2 DEF FInv, GotAnswers
<1>3. LogsOfOne'
  BY DEF FInv, LogsOfOne
<1> QED
  BY <1>1, <1>2, <1>3 DEF FInv, SameCopies

-----------------------------------------------------------------------------
(* The servers move the copies.                                            *)

\* The first event of the queue is the first on the connection.
LEMMA QueueHead ==
    ASSUME IInv, NEW s \in Server, r2s[s] # <<>>
    PROVE  /\ Queue(s) # <<>> /\ Head(Queue(s)) = Head(r2s[s])
           /\ Head(r2s[s]) \in ServerEvent
<1> DEFINE a == r2s[s]
           b == pendingEvents[s]
<1>1. a \in Seq(ServerEvent) /\ b \in Seq(ServerEvent) /\ a # <<>> /\ Queue(s) = a \o b
  BY QueueTypes DEF Queue
<1> HIDE DEF a, b
<1>2. Len(a) \in Nat \ {0} /\ Head(a) = a[1] /\ Head(a) \in ServerEvent
  BY <1>1, EmptySeq, HeadTailProperties
<1>3. /\ Len(b) \in Nat /\ a \o b \in Seq(ServerEvent) /\ Len(a \o b) = Len(a) + Len(b)
      /\ \A i \in 1 .. Len(a) + Len(b) :
            (a \o b)[i] = IF i <= Len(a) THEN a[i] ELSE b[i - Len(a)]
  BY <1>1, LenProperties, ConcatProperties
<1>4. (a \o b)[1] = a[1]
  <2>1. 1 \in 1 .. Len(a) + Len(b) /\ 1 <= Len(a)
    BY <1>2, <1>3
  <2> QED
    BY <1>3, <2>1
<1>5. a \o b # <<>> /\ Head(a \o b) = (a \o b)[1]
  <2>1. a \o b # <<>>
    <3>1. Len(a \o b) # 0
      BY <1>2, <1>3
    <3> QED
      BY <1>3, <3>1, EmptySeq
  <2> QED
    BY <1>3, <2>1, ElemsTail
<1> QED
  BY <1>1, <1>2, <1>4, <1>5 DEF a

\* What is read from a queue is not in it any more.
LEMMA ReadRequest ==
    ASSUME IInv, NEW s \in Server, r2s[s] # <<>>, r2s' = Received(r2s, s),
           pendingEvents' = pendingEvents, NEW id, NEW g
    PROVE  /\ Count(Queue(s), ReqOf(id, g))
              = Count(Queue(s)', ReqOf(id, g))
                + (IF IsRequest(Head(r2s[s])) /\ Head(r2s[s]).id = id
                      /\ Head(r2s[s]).grp = g THEN 1 ELSE 0)
           /\ Count(Queue(s)', ReqOf(id, g)) \in Nat
           /\ \A t \in Server \ {s} : Queue(t)' = Queue(t)
<1>1. /\ Queue(s) # <<>> /\ Queue(s)' = Tail(Queue(s))
      /\ \A t \in Server \ {s} : Queue(t)' = Queue(t)
  BY ReceivedQueue
<1>2. /\ Queue(s) \in Seq(ServerEvent) /\ r2s[s] \in Seq(ServerEvent)
      /\ pendingEvents[s] \in Seq(ServerEvent)
  BY QueueTypes
<1>3. Head(Queue(s)) = Head(r2s[s]) /\ Head(r2s[s]) \in ServerEvent
  BY QueueHead
<1>4. /\ Count(Queue(s), ReqOf(id, g))
         = Count(Tail(Queue(s)), ReqOf(id, g))
           + (IF Head(Queue(s)) \in ReqOf(id, g) THEN 1 ELSE 0)
      /\ Count(Tail(Queue(s)), ReqOf(id, g)) \in Nat
  BY <1>1, <1>2, CountTail
<1>5. Head(r2s[s]) \in ReqOf(id, g)
      <=> (IsRequest(Head(r2s[s])) /\ Head(r2s[s]).id = id /\ Head(r2s[s]).grp = g)
  BY <1>3 DEF ReqOf
<1> QED
  BY <1>1, <1>3, <1>4, <1>5

LEMMA SendAnswer ==
    ASSUME IInv, NEW s \in Server, NEW ev \in UpEvent, ev.type = "CommResp",
           s2r' = Sent(s2r, s, ev), NEW id, NEW g
    PROVE  /\ Count(s2r'[s], RespOf(id, g))
              = Count(s2r[s], RespOf(id, g))
                + (IF ev.id = id /\ ev.grp = g THEN 1 ELSE 0)
           /\ \A t \in Server \ {s} : s2r'[t] = s2r[t]
<1>1. s2r \in [Server -> Seq(UpEvent)]
  BY DEF IInv, TypeOK, ChannelTypeOK
<1>2. s2r'[s] = Append(s2r[s], ev) /\ \A t \in Server \ {s} : s2r'[t] = s2r[t]
  BY <1>1 DEF Sent
<1>3. Count(s2r'[s], RespOf(id, g))
      = Count(s2r[s], RespOf(id, g)) + (IF ev \in RespOf(id, g) THEN 1 ELSE 0)
  BY <1>1, <1>2, CountAppend
<1>4. ev \in RespOf(id, g) <=> (ev.id = id /\ ev.grp = g)
  BY DEF RespOf
<1> QED
  BY <1>2, <1>3, <1>4

\* A request that is carried out at once becomes an answer.
LEMMA LocalFanOut ==
    ASSUME IInv, FInv, NEW s \in Server, SrvrReqLocal(s),
           pendingEvents' = pendingEvents, reqInfo' = reqInfo
    PROVE  FInv' /\ SameCopies
<1> DEFINE ev == Head(r2s[s])
<1>1. /\ r2s[s] # <<>> /\ IsRequest(ev) /\ r2s' = Received(r2s, s) /\ finiMap' = finiMap
  BY DEF SrvrReqLocal, Arrives, IsRequest
<1>2. PICK ok \in Outcomes(s) :
        s2r' = Sent(s2r, s, CommRespEvent(ev.id, ev.grp, LocalValue(s, ev.op, ok), {}))
  BY DEF SrvrReqLocal
<1> DEFINE resp == CommRespEvent(ev.id, ev.grp, LocalValue(s, ev.op, ok), {})
<1>3. resp \in UpEvent /\ resp.type = "CommResp" /\ resp.id = ev.id /\ resp.grp = ev.grp
  <2>1. ev.op \in Op /\ ev.id \in InfoId /\ ev.grp \in Nat
    BY ServerEventType DEF SrvrReqLocal, IInv, TypeOK
  <2>2. LocalValue(s, ev.op, ok) \in Value
    BY DEF LocalValue, Reading, Zero, Value
  <2> QED
    BY <2>1, <2>2, CommRespEventType DEF CommRespEvent
<1>4. s2r' = Sent(s2r, s, resp)
  BY <1>2
<1> HIDE DEF resp
<1>5. FiniteFini /\ FiniteFini'
  BY <1>1 DEF FInv, FiniteFini
<1>6. ASSUME NEW t \in Server, NEW id \in InfoId, NEW g \in Nat
      PROVE  Total(t, id, g)' = Total(t, id, g)
  <2>1. Kept(t, id, g)' = Kept(t, id, g)
    BY <1>1 DEF Kept
  <2>2. CASE t # s
    <3>1. Queue(t)' = Queue(t) /\ s2r'[t] = s2r[t]
      BY <1>1, <1>3, <1>4, <2>2, ReadRequest, SendAnswer
    <3> QED
      BY <2>1, <3>1 DEF Total
  <2>3. CASE t = s
    <3> DEFINE one == IF ev.id = id /\ ev.grp = g THEN 1 ELSE 0
    <3>1. /\ Count(Queue(s), ReqOf(id, g)) = Count(Queue(s)', ReqOf(id, g)) + one
          /\ Count(Queue(s)', ReqOf(id, g)) \in Nat
      BY <1>1, ReadRequest
    <3>2. Count(s2r'[s], RespOf(id, g)) = Count(s2r[s], RespOf(id, g)) + one
      BY <1>3, <1>4, SendAnswer
    <3>3. Count(s2r[s], RespOf(id, g)) \in Nat /\ Cardinality(Kept(s, id, g)) \in Nat
      BY <1>5, TotalTypes
    <3>4. one \in Nat
      OBVIOUS
    <3>5. Total(s, id, g)' = Count(Queue(s)', ReqOf(id, g)) + Cardinality(Kept(s, id, g))
                             + Count(s2r'[s], RespOf(id, g))
      BY <2>1, <2>3 DEF Total
    <3>6. Total(s, id, g) = Count(Queue(s), ReqOf(id, g)) + Cardinality(Kept(s, id, g))
                            + Count(s2r[s], RespOf(id, g))
      BY DEF Total
    <3> HIDE DEF one
    <3>7. Total(s, id, g)' = Total(s, id, g)
      BY <3>1, <3>2, <3>3, <3>4, <3>5, <3>6
    <3> QED
      BY <2>3, <3>7
  <2> QED
    BY <2>2, <2>3
<1> QED
  BY <1>5, <1>6, SameTotals

\* A request that goes out again is kept in m_finiMap.
LEMMA ForwardFanOut ==
    ASSUME IInv, FInv, NEW s \in Server, SrvrReqForward(s),
           pendingEvents' = pendingEvents, reqInfo' = reqInfo
    PROVE  FInv' /\ SameCopies
<1> DEFINE ev == Head(r2s[s])
           key == [id |-> ev.id, grp |-> ev.grp, op |-> ev.op, req |-> Len(reqs[s]) + 1]
<1>1. /\ r2s[s] # <<>> /\ IsRequest(ev) /\ r2s' = Received(r2s, s) /\ s2r' = s2r
      /\ finiMap' = [finiMap EXCEPT ![s] = @ \cup {key}]
  BY DEF SrvrReqForward, Arrives, IsRequest
<1>2. finiMap \in [Server -> SUBSET FiniEntry]
  BY DEF IInv, TypeOK, ServerTypeOK
<1>3. /\ finiMap'[s] = finiMap[s] \cup {key} /\ \A t \in Server \ {s} : finiMap'[t] = finiMap[t]
      /\ key.id = ev.id /\ key.grp = ev.grp
  BY <1>1, <1>2
<1> HIDE DEF key
<1>4. FiniteFini /\ FiniteFini'
  BY <1>3, FS_AddElement DEF FInv, FiniteFini
<1>5. ev.id \in InfoId /\ ev.grp \in Nat
  BY ServerEventType DEF SrvrReqForward, IInv, TypeOK
<1>6. key \notin finiMap[s]
  <2>1. Count(Queue(s), ReqOf(ev.id, ev.grp)) >= 1
    BY <1>1, ReadRequest
  <2>2. Total(s, ev.id, ev.grp) <= 1
    BY <1>5, TotalTypes, <1>4 DEF FInv, Accounted
  <2>3. /\ Cardinality(Kept(s, ev.id, ev.grp)) \in Nat
        /\ Count(Queue(s), ReqOf(ev.id, ev.grp)) \in Nat
        /\ Count(s2r[s], RespOf(ev.id, ev.grp)) \in Nat
        /\ IsFiniteSet(Kept(s, ev.id, ev.grp))
    BY <1>4, TotalTypes
  <2>4. Cardinality(Kept(s, ev.id, ev.grp)) = 0
    BY <2>1, <2>2, <2>3 DEF Total
  <2>5. Kept(s, ev.id, ev.grp) = {}
    BY <2>3, <2>4, FS_EmptySet
  <2> QED
    BY <1>3, <2>5 DEF Kept
<1>7. ASSUME NEW t \in Server, NEW id \in InfoId, NEW g \in Nat
      PROVE  Total(t, id, g)' = Total(t, id, g)
  <2>1. CASE t # s
    <3>1. Queue(t)' = Queue(t) /\ Kept(t, id, g)' = Kept(t, id, g)
      BY <1>1, <1>3, <2>1, ReadRequest DEF Kept
    <3> QED
      BY <1>1, <3>1 DEF Total
  <2>2. CASE t = s
    <3> DEFINE one == IF ev.id = id /\ ev.grp = g THEN 1 ELSE 0
    <3>1. /\ Count(Queue(s), ReqOf(id, g)) = Count(Queue(s)', ReqOf(id, g)) + one
          /\ Count(Queue(s)', ReqOf(id, g)) \in Nat
      BY <1>1, ReadRequest
    <3>2. /\ Count(s2r[s], RespOf(id, g)) \in Nat /\ Cardinality(Kept(s, id, g)) \in Nat
          /\ IsFiniteSet(Kept(s, id, g))
      BY <1>4, TotalTypes
    <3>3. Cardinality(Kept(s, id, g)') = Cardinality(Kept(s, id, g)) + one
      <4>1. CASE ev.id = id /\ ev.grp = g
        <5>1. Kept(s, id, g)' = Kept(s, id, g) \cup {key} /\ key \notin Kept(s, id, g)
          BY <1>3, <1>6, <4>1 DEF Kept
        <5>2. Cardinality(Kept(s, id, g) \cup {key}) = Cardinality(Kept(s, id, g)) + 1
          BY <3>2, <5>1, FS_AddElement
        <5> QED
          BY <4>1, <5>1, <5>2
      <4>2. CASE ~ (ev.id = id /\ ev.grp = g)
        <5>1. Kept(s, id, g)' = Kept(s, id, g)
          BY <1>3, <4>2 DEF Kept
        <5> QED
          BY <3>2, <4>2, <5>1
      <4> QED
        BY <4>1, <4>2
    <3>4. one \in Nat
      OBVIOUS
    <3>5. Total(s, id, g)' = Count(Queue(s)', ReqOf(id, g)) + Cardinality(Kept(s, id, g)')
                             + Count(s2r[s], RespOf(id, g))
      BY <1>1, <2>2 DEF Total
    <3>6. Total(s, id, g) = Count(Queue(s), ReqOf(id, g)) + Cardinality(Kept(s, id, g))
                            + Count(s2r[s], RespOf(id, g))
      BY DEF Total
    <3> HIDE DEF one
    <3>7. Total(s, id, g)' = Total(s, id, g)
      BY <3>1, <3>2, <3>3, <3>4, <3>5, <3>6
    <3> QED
      BY <2>2, <3>7
  <2> QED
    BY <2>1, <2>2
<1> QED
  BY <1>4, <1>7, SameTotals

\* The answer of the server's own context takes its place.
LEMMA ProgressFanOut ==
    ASSUME IInv, FInv, NEW s \in Server, SrvrMakeProgress(s),
           pendingEvents' = pendingEvents, reqInfo' = reqInfo
    PROVE  FInv' /\ SameCopies
<1> DEFINE ev == Head(r2c[s])
<1>1. PICK key \in finiMap[s] :
        /\ s2r' = Sent(s2r, s, CommRespEvent(key.id, key.grp, Overwrite(ev), ev.err))
        /\ finiMap' = [finiMap EXCEPT ![s] = @ \ {key}]
  BY DEF SrvrMakeProgress
<1> DEFINE resp == CommRespEvent(key.id, key.grp, Overwrite(ev), ev.err)
<1>2. finiMap \in [Server -> SUBSET FiniEntry] /\ r2s' = r2s
  BY DEF IInv, TypeOK, ServerTypeOK, SrvrMakeProgress
<1>3. /\ finiMap'[s] = finiMap[s] \ {key}
      /\ \A t \in Server \ {s} : finiMap'[t] = finiMap[t]
  BY <1>1, <1>2
<1>4. resp \in UpEvent /\ resp.type = "CommResp" /\ resp.id = key.id /\ resp.grp = key.grp
  <2>1. key.id \in InfoId /\ key.grp \in Nat
    BY <1>2 DEF FiniEntry
  <2>2. ev \in DownEvent
    <3>1. r2c[s] \in Seq(DownEvent) /\ r2c[s] # <<>>
      BY DEF IInv, TypeOK, ChannelTypeOK, SrvrMakeProgress, Consume, Ctx
    <3> QED
      BY <3>1, HeadTailProperties
  <2>3. Overwrite(ev) \in Value /\ ev.err \in SUBSET Server
    BY <2>2, EmptySeq DEF Overwrite, Zero, Value, DownEvent
  <2> QED
    BY <2>1, <2>3, CommRespEventType DEF CommRespEvent
<1>5. s2r' = Sent(s2r, s, resp)
  BY <1>1
<1> HIDE DEF resp
<1>6. FiniteFini /\ FiniteFini'
  BY <1>3, FS_RemoveElement DEF FInv, FiniteFini
<1>7. ASSUME NEW t \in Server, NEW id \in InfoId, NEW g \in Nat
      PROVE  Total(t, id, g)' = Total(t, id, g)
  <2>1. Queue(t)' = Queue(t)
    BY <1>2 DEF Queue
  <2>2. CASE t # s
    <3>1. s2r'[t] = s2r[t] /\ Kept(t, id, g)' = Kept(t, id, g)
      BY <1>3, <1>4, <1>5, <2>2, SendAnswer DEF Kept
    <3> QED
      BY <2>1, <3>1 DEF Total
  <2>3. CASE t = s
    <3> DEFINE one == IF key.id = id /\ key.grp = g THEN 1 ELSE 0
    <3>1. Count(s2r'[s], RespOf(id, g)) = Count(s2r[s], RespOf(id, g)) + one
      BY <1>4, <1>5, SendAnswer
    <3>2. /\ Count(s2r[s], RespOf(id, g)) \in Nat /\ Cardinality(Kept(s, id, g)) \in Nat
          /\ IsFiniteSet(Kept(s, id, g)) /\ Count(Queue(s), ReqOf(id, g)) \in Nat
      BY <1>6, TotalTypes
    <3>3. /\ Cardinality(Kept(s, id, g)) = Cardinality(Kept(s, id, g)') + one
          /\ Cardinality(Kept(s, id, g)') \in Nat
      <4>1. CASE key.id = id /\ key.grp = g
        <5>1. Kept(s, id, g)' = Kept(s, id, g) \ {key} /\ key \in Kept(s, id, g)
          BY <1>3, <4>1 DEF Kept
        <5>2. IsFiniteSet(Kept(s, id, g) \ {key})
              /\ Cardinality(Kept(s, id, g) \ {key}) = Cardinality(Kept(s, id, g)) - 1
          BY <3>2, <5>1, FS_RemoveElement
        <5>3. Cardinality(Kept(s, id, g) \ {key}) \in Nat
          BY <5>2, FS_CardinalityType
        <5> QED
          BY <3>2, <4>1, <5>1, <5>2, <5>3
      <4>2. CASE ~ (key.id = id /\ key.grp = g)
        <5>1. Kept(s, id, g)' = Kept(s, id, g)
          BY <1>3, <4>2 DEF Kept
        <5> QED
          BY <3>2, <4>2, <5>1
      <4> QED
        BY <4>1, <4>2
    <3>4. one \in Nat
      OBVIOUS
    <3>5. Total(s, id, g)' = Count(Queue(s), ReqOf(id, g)) + Cardinality(Kept(s, id, g)')
                             + Count(s2r'[s], RespOf(id, g))
      BY <2>1, <2>3 DEF Total
    <3>6. Total(s, id, g) = Count(Queue(s), ReqOf(id, g)) + Cardinality(Kept(s, id, g))
                            + Count(s2r[s], RespOf(id, g))
      BY DEF Total
    <3> HIDE DEF one
    <3>7. Total(s, id, g)' = Total(s, id, g)
      BY <3>1, <3>2, <3>3, <3>4, <3>5, <3>6
    <3> QED
      BY <2>3, <3>7
  <2> QED
    BY <2>2, <2>3
<1> QED
  BY <1>6, <1>7, SameTotals

-----------------------------------------------------------------------------
(* The router makes the copies and takes the answers.                      *)

\* Events that are no requests, wherever they go, are no copies.
LEMMA PassFanOut ==
    ASSUME IInv, NonePending, FInv, NEW out \in [Server -> Seq(ServerEvent)], Forward(out),
           \A s \in Server : \A k \in 1 .. Len(out[s]) : ~ IsRequest(out[s][k]),
           s2r' = s2r, finiMap' = finiMap, reqInfo' = reqInfo
    PROVE  FInv' /\ SameCopies
<1>1. FiniteFini /\ FiniteFini'
  BY DEF FInv, FiniteFini
<1>2. ASSUME NEW s \in Server, NEW id \in InfoId, NEW g \in Nat
      PROVE  Total(s, id, g)' = Total(s, id, g)
  <2>1. Queue(s) \in Seq(ServerEvent) /\ out[s] \in Seq(ServerEvent)
    BY QueueTypes
  <2>2. Queue(s)' = Queue(s) \o out[s]
    BY ForwardQueue
  <2>3. Count(out[s], ReqOf(id, g)) = 0
    <3>1. \A k \in 1 .. Len(out[s]) : out[s][k] \notin ReqOf(id, g)
      BY DEF ReqOf
    <3> QED
      BY <2>1, <3>1, CountType
  <2>4. Count(Queue(s) \o out[s], ReqOf(id, g))
        = Count(Queue(s), ReqOf(id, g)) + Count(out[s], ReqOf(id, g))
    BY <2>1, CountConcat
  <2>5. Count(Queue(s), ReqOf(id, g)) \in Nat
    BY <1>1, TotalTypes
  <2>6. Count(Queue(s)', ReqOf(id, g)) = Count(Queue(s), ReqOf(id, g))
    BY <2>2, <2>3, <2>4, <2>5
  <2>7. Kept(s, id, g)' = Kept(s, id, g)
    BY DEF Kept
  <2> QED
    BY <2>6, <2>7 DEF Total
<1> QED
  BY <1>1, <1>2, SameTotals

\* One copy of a request goes to each object of each list.
LEMMA RequestCount ==
    ASSUME NEW m \in Comm, NEW op \in Op, NEW id \in InfoId, NEW s \in Server,
           NEW j \in InfoId, NEW g \in Nat
    PROVE  Count(RequestEvents(m, op, id)[s], ReqOf(j, g))
           = IF j = id /\ g \in Lists(m) /\ s \in Members[m][g] THEN 1 ELSE 0
<1> DEFINE q == RequestEvents(m, op, id)[s]
           slots == Slots[m][s]
<1>1. /\ slots \in Seq(Nat) /\ Len(slots) \in Nat
      /\ \A k \in 1 .. Len(slots) : slots[k] \in Lists(m) /\ s \in Members[m][slots[k]]
      /\ \A h \in Lists(m) : s \in Members[m][h] => \E k \in 1 .. Len(slots) : slots[k] = h
      /\ \A i, k \in 1 .. Len(slots) : i < k => slots[i] < slots[k]
  BY SlotsAssumption, LenProperties
<1>2. Len(q) = Len(slots)
      /\ \A k \in 1 .. Len(slots) : q[k] = SrvrReqEvent(m, op, id, slots[k])
  BY <1>1 DEF RequestEvents
<1>3. \A k \in 1 .. Len(slots) : slots[k] \in Nat
  BY <1>1, ElementOfSeq
<1> HIDE DEF q, slots
<1>4. \A k \in 1 .. Len(slots) : q[k] \in ReqOf(j, g) <=> (j = id /\ slots[k] = g)
  <2> SUFFICES ASSUME NEW k \in 1 .. Len(slots)
               PROVE  q[k] \in ReqOf(j, g) <=> (j = id /\ slots[k] = g)
    OBVIOUS
  <2> DEFINE e == SrvrReqEvent(m, op, id, slots[k])
  <2>1. e \in ServerEvent
    BY <1>3 DEF SrvrReqEvent, ServerEvent
  <2>2. e.type = "CommReq" /\ e.id = id /\ e.grp = slots[k]
    BY DEF SrvrReqEvent
  <2>3. q[k] = e
    BY <1>2
  <2> HIDE DEF e
  <2> QED
    BY <2>1, <2>2, <2>3 DEF ReqOf, IsRequest
<1>5. Places(q, ReqOf(j, g)) = {k \in 1 .. Len(slots) : j = id /\ slots[k] = g}
  BY <1>2, <1>4 DEF Places
<1>6. CASE j = id /\ g \in Lists(m) /\ s \in Members[m][g]
  <2>1. PICK k \in 1 .. Len(slots) : slots[k] = g
    BY <1>1, <1>6
  <2>2. ASSUME NEW i \in 1 .. Len(slots), slots[i] = g
        PROVE  i = k
    <3>1. ~ (i < k) /\ ~ (k < i)
      BY <1>1, <1>3, <2>1, <2>2
    <3> QED
      BY <1>1, <3>1
  <2>3. Places(q, ReqOf(j, g)) = {k}
    BY <1>5, <1>6, <2>1, <2>2
  <2> QED
    BY <1>6, <2>3, FS_Singleton DEF Count, q
<1>7. CASE ~ (j = id /\ g \in Lists(m) /\ s \in Members[m][g])
  <2>1. Places(q, ReqOf(j, g)) = {}
    BY <1>1, <1>5, <1>7
  <2> QED
    BY <1>7, <2>1, FS_EmptySet DEF Count, q
<1> QED
  BY <1>6, <1>7

\* The number of a new info was not in use: nothing of it is about.
LEMMA AllocateTotals ==
    ASSUME IInv, NonePending, EInv, FInv, NEW c \in Ctx, RtrCommReq(c),
           reqs' = reqs, commReqs' = commReqs, finiMap' = finiMap,
           NEW ev, NEW id, NEW m, NEW op, ev = Head(c2r[c]), id = <<c, ev.id>>,
           m = ev.comm, op = ev.op
    PROVE  /\ m \in Comm /\ op \in Op /\ id \in InfoId /\ id \notin DOMAIN reqInfo
           /\ op \notin Aggregated => OneObject(m)
           /\ DOMAIN reqInfo' = DOMAIN reqInfo \cup {id}
           /\ reqInfo'[id] = NewInfo(m, op)
           /\ \A j \in DOMAIN reqInfo : reqInfo'[j] = reqInfo[j]
           /\ \A s \in Server, j \in InfoId, g \in Nat :
                 Total(s, j, g)' = IF j = id /\ g \in Lists(m) /\ s \in Members[m][g]
                                   THEN 1 ELSE Total(s, j, g)
<1>1. /\ c2r[c] # <<>> /\ IsRequest(ev) /\ c2r' = Received(c2r, c) /\ r2c' = r2c
      /\ s2r' = s2r
      /\ Allocate(<<c, ev.id>>, NewInfo(ev.comm, ev.op))
      /\ Forward(RequestEvents(ev.comm, ev.op, <<c, ev.id>>))
      /\ ev.op \notin Aggregated => OneObject(ev.comm)
  BY DEF RtrCommReq, Arrives, IsRequest
<1>2. m \in Comm /\ op \in Op /\ id \in InfoId
  BY ClientEventType DEF IInv, TypeOK, RtrCommReq, InfoId
<1>3. id \notin DOMAIN reqInfo
  <2>1. DOMAIN reqInfo' = DOMAIN reqInfo \cup {<<c, ev.id>>}
    BY <1>1 DEF Allocate
  <2> QED
    BY <1>1, <2>1, RouterReadsPlaces
<1>4. /\ Allocate(id, NewInfo(m, op)) /\ Forward(RequestEvents(m, op, id))
      /\ op \notin Aggregated => OneObject(m)
  BY <1>1
<1>5. /\ DOMAIN reqInfo' = DOMAIN reqInfo \cup {id}
      /\ reqInfo'[id] = NewInfo(m, op)
      /\ \A j \in DOMAIN reqInfo : reqInfo'[j] = reqInfo[j]
  BY <1>3, <1>4 DEF Allocate
<1>6. FiniteFini
  BY DEF FInv
<1>7. ASSUME NEW s \in Server, NEW j \in InfoId, NEW g \in Nat
      PROVE  Total(s, j, g)' = IF j = id /\ g \in Lists(m) /\ s \in Members[m][g]
                               THEN 1 ELSE Total(s, j, g)
  <2> DEFINE out == RequestEvents(m, op, id)
             one == IF j = id /\ g \in Lists(m) /\ s \in Members[m][g] THEN 1 ELSE 0
  <2>1. out \in [Server -> Seq(ServerEvent)] /\ Count(out[s], ReqOf(j, g)) = one
    <3>1. out \in [Server -> Seq(ServerEvent)]
      BY <1>2, RequestEventsType
    <3>2. Count(out[s], ReqOf(j, g)) = one
      BY <1>2, RequestCount
    <3> QED
      BY <3>1, <3>2
  <2>2. Forward(out)
    BY <1>4
  <2> HIDE DEF out
  <2>3. Queue(s)' = Queue(s) \o out[s]
    BY <2>1, <2>2, ForwardQueue
  <2>4. Queue(s) \in Seq(ServerEvent) /\ out[s] \in Seq(ServerEvent)
    BY <2>1, QueueTypes
  <2>5. Count(Queue(s) \o out[s], ReqOf(j, g)) = Count(Queue(s), ReqOf(j, g)) + one
    BY <2>1, <2>4, CountConcat
  <2>6. /\ Count(Queue(s), ReqOf(j, g)) \in Nat /\ Cardinality(Kept(s, j, g)) \in Nat
        /\ Count(s2r[s], RespOf(j, g)) \in Nat /\ Total(s, j, g) \in Nat
    BY <1>6, TotalTypes
  <2>7. Kept(s, j, g)' = Kept(s, j, g)
    BY DEF Kept
  <2>8. Total(s, j, g)' = Count(Queue(s), ReqOf(j, g)) + one + Cardinality(Kept(s, j, g))
                          + Count(s2r[s], RespOf(j, g))
    BY <1>1, <2>3, <2>5, <2>7 DEF Total
  <2>9. one \in Nat
    OBVIOUS
  <2>10. Total(s, j, g)' = Total(s, j, g) + one
    <3> HIDE DEF one
    <3> QED
      BY <2>6, <2>8, <2>9 DEF Total
  <2>11. j = id => Total(s, j, g) = 0
    <3>1. Total(s, j, g) <= IF Addressed(s, j, g) THEN 1 ELSE 0
      BY DEF FInv, Accounted
    <3> QED
      BY <1>3, <2>6, <3>1 DEF Addressed
  <2> QED
    BY <2>6, <2>10, <2>11
<1> QED
  BY <1>2, <1>3, <1>4, <1>5, <1>7

LEMMA AllocateFanOut ==
    ASSUME IInv, NonePending, EInv, FInv, NEW c \in Ctx, RtrCommReq(c),
           reqs' = reqs, commReqs' = commReqs, finiMap' = finiMap
    PROVE  FInv'
<1>1. PICK ev, id, m, op : /\ ev = Head(c2r[c]) /\ id = <<c, ev.id>>
                           /\ m = ev.comm /\ op = ev.op
  OBVIOUS
<1>2. /\ m \in Comm /\ op \in Op /\ id \in InfoId /\ id \notin DOMAIN reqInfo
      /\ op \notin Aggregated => OneObject(m)
      /\ DOMAIN reqInfo' = DOMAIN reqInfo \cup {id}
      /\ reqInfo'[id] = NewInfo(m, op)
      /\ \A j \in DOMAIN reqInfo : reqInfo'[j] = reqInfo[j]
      /\ \A s \in Server, j \in InfoId, g \in Nat :
            Total(s, j, g)' = IF j = id /\ g \in Lists(m) /\ s \in Members[m][g]
                              THEN 1 ELSE Total(s, j, g)
  BY <1>1, AllocateTotals
<1>3. /\ reqInfo'[id].comm = m /\ reqInfo'[id].op = op
      /\ \A g \in Lists(m) : reqInfo'[id].got[g] = 0
  BY <1>2 DEF NewInfo
<1>4. FiniteFini /\ FiniteFini'
  BY DEF FInv, FiniteFini
<1>5. Accounted'
  <2> SUFFICES ASSUME NEW s \in Server, NEW j \in InfoId, NEW g \in Nat
               PROVE  Total(s, j, g)' <= IF Addressed(s, j, g)' THEN 1 ELSE 0
    BY DEF Accounted
  <2>1. Total(s, j, g) <= IF Addressed(s, j, g) THEN 1 ELSE 0
    BY DEF FInv, Accounted
  <2>2. CASE j = id
    <3>1. ~ Addressed(s, j, g)
      BY <1>2, <2>2 DEF Addressed
    <3>2. Addressed(s, j, g)' <=> g \in Lists(m) /\ s \in Members[m][g]
      BY <1>2, <1>3, <2>2 DEF Addressed
    <3> QED
      BY <1>2, <2>1, <2>2, <3>1, <3>2
  <2>3. CASE j # id
    <3>1. Addressed(s, j, g)' <=> Addressed(s, j, g)
      BY <1>2, <2>3 DEF Addressed
    <3> QED
      BY <1>2, <2>1, <2>3, <3>1
  <2> QED
    BY <2>2, <2>3
<1>6. GotAnswers'
  <2> SUFFICES ASSUME NEW j \in DOMAIN reqInfo', NEW n, n = reqInfo'[j].comm,
                      NEW g \in Lists(n)
               PROVE  reqInfo'[j].got[g] = Cardinality(Through(n, j, g)')
    BY DEF GotAnswers
  <2>1. CASE j = id
    <3>1. n = m /\ g \in Nat /\ Members[m][g] \subseteq Server
      BY <1>2, <1>3, <2>1, ListSize DEF Lists
    <3>2. Through(n, j, g)' = {}
      BY <1>2, <2>1, <3>1 DEF Through
    <3> QED
      BY <1>3, <2>1, <3>1, <3>2, FS_EmptySet
  <2>2. CASE j # id
    <3>1. j \in DOMAIN reqInfo /\ reqInfo'[j] = reqInfo[j]
      BY <1>2, <2>2
    <3>2. j \in InfoId /\ g \in Nat /\ Members[n][g] \subseteq Server
      BY <3>1, InfoType, ListSize
    <3>3. Through(n, j, g)' = Through(n, j, g)
      BY <1>2, <2>2, <3>2 DEF Through
    <3> QED
      BY <3>1, <3>3 DEF FInv, GotAnswers
  <2> QED
    BY <2>1, <2>2
<1>7. LogsOfOne'
  BY <1>2, <1>3 DEF FInv, LogsOfOne
<1> QED
  BY <1>4, <1>5, <1>6, <1>7 DEF FInv

\* An answer that is read was the copy of an object that had not answered.
LEMMA AnswerTotals ==
    ASSUME IInv, FInv, NEW s \in Server, Arrives(s2r[s], "CommResp"), InfoLive(s),
           s2r' = Received(s2r, s), r2s' = r2s, pendingEvents' = pendingEvents,
           finiMap' = finiMap,
           NEW id, NEW h, NEW m, id = Head(s2r[s]).id, h = Head(s2r[s]).grp,
           m = reqInfo[id].comm
    PROVE  /\ id \in DOMAIN reqInfo /\ id \in InfoId /\ m \in Comm
           /\ h \in Lists(m) /\ s \in Members[m][h]
           /\ \A t \in Server, j \in InfoId, g \in Nat :
                 Total(t, j, g)' = IF t = s /\ j = id /\ g = h THEN 0 ELSE Total(t, j, g)
           /\ Through(m, id, h)' = Through(m, id, h) \cup {s}
           /\ Cardinality(Through(m, id, h)') = Cardinality(Through(m, id, h)) + 1
           /\ \A n \in Comm, j \in InfoId : \A g \in Lists(n) :
                 (j # id \/ g # h) => Through(n, j, g)' = Through(n, j, g)
<1> DEFINE ev == Head(s2r[s])
<1>1. /\ s2r \in [Server -> Seq(UpEvent)] /\ s2r[s] \in Seq(UpEvent) /\ s2r[s] # <<>>
      /\ ev \in UpEvent /\ ev.type = "CommResp"
  BY UpEventType DEF IInv, TypeOK, ChannelTypeOK, Arrives
<1>2. /\ id \in DOMAIN reqInfo /\ h \in Lists(m)
  BY DEF InfoLive
<1>3. id \in InfoId /\ m \in Comm /\ h \in Nat
  BY <1>2, InfoType
<1>4. s2r'[s] = Tail(s2r[s]) /\ \A t \in Server \ {s} : s2r'[t] = s2r[t]
  BY <1>1 DEF Received
<1>5. \A t \in Server : Queue(t)' = Queue(t)
  BY DEF Queue
<1>6. \A t, j, g : Kept(t, j, g)' = Kept(t, j, g)
  BY DEF Kept
<1>7. FiniteFini
  BY DEF FInv
<1>8. ASSUME NEW t \in Server, NEW j \in InfoId, NEW g \in Nat
      PROVE  /\ Total(t, j, g) = Total(t, j, g)'
                                 + (IF t = s /\ j = id /\ g = h THEN 1 ELSE 0)
             /\ Total(t, j, g)' \in Nat /\ Total(t, j, g) \in Nat
  <2>1. Total(t, j, g)' = Count(Queue(t), ReqOf(j, g)) + Cardinality(Kept(t, j, g))
                          + Count(s2r'[t], RespOf(j, g))
    BY <1>5, <1>6 DEF Total
  <2>2. /\ Count(Queue(t), ReqOf(j, g)) \in Nat /\ Cardinality(Kept(t, j, g)) \in Nat
        /\ Count(s2r[t], RespOf(j, g)) \in Nat /\ Total(t, j, g) \in Nat
    BY <1>7, TotalTypes
  <2>3. CASE t # s
    BY <1>4, <2>1, <2>2, <2>3 DEF Total
  <2>4. CASE t = s
    <3>1. /\ Count(s2r[s], RespOf(j, g))
             = Count(s2r'[s], RespOf(j, g)) + (IF ev \in RespOf(j, g) THEN 1 ELSE 0)
          /\ Count(s2r'[s], RespOf(j, g)) \in Nat
      BY <1>1, <1>4, CountTail
    <3>2. ev \in RespOf(j, g) <=> (j = id /\ g = h)
      BY <1>1 DEF RespOf
    <3> QED
      BY <2>1, <2>2, <2>4, <3>1, <3>2 DEF Total
  <2> QED
    BY <2>3, <2>4
<1>9. Total(s, id, h) = 1 /\ Addressed(s, id, h)
  <2>1. Total(s, id, h) <= IF Addressed(s, id, h) THEN 1 ELSE 0
    BY <1>3 DEF FInv, Accounted
  <2>2. Total(s, id, h) = Total(s, id, h)' + 1 /\ Total(s, id, h)' \in Nat
    BY <1>3, <1>8
  <2> QED
    BY <2>1, <2>2
<1>10. s \in Members[m][h]
  BY <1>9 DEF Addressed
<1>11. ASSUME NEW t \in Server, NEW j \in InfoId, NEW g \in Nat
       PROVE  Total(t, j, g)' = IF t = s /\ j = id /\ g = h THEN 0 ELSE Total(t, j, g)
  <2> DEFINE old == Total(t, j, g)
             new == Total(t, j, g)'
  <2>0. /\ old = new + (IF t = s /\ j = id /\ g = h THEN 1 ELSE 0)
        /\ new \in Nat /\ old \in Nat
    BY <1>8
  <2>1. CASE t = s /\ j = id /\ g = h
    <3>1. old = 1
      BY <1>9, <2>1
    <3> HIDE DEF old, new
    <3>2. new = 0
      BY <2>0, <2>1, <3>1
    <3> QED
      BY <2>1, <3>2 DEF new
  <2>2. CASE ~ (t = s /\ j = id /\ g = h)
    <3> HIDE DEF old, new
    <3>1. new = old
      BY <2>0, <2>2
    <3> QED
      BY <2>2, <3>1 DEF new, old
  <2> QED
    BY <2>1, <2>2
<1>12. Members[m][h] \subseteq Server /\ IsFiniteSet(Members[m][h])
  BY <1>2, <1>3, ListSize
<1>13. Through(m, id, h)' = Through(m, id, h) \cup {s} /\ s \notin Through(m, id, h)
  <2>1. ASSUME NEW t \in Members[m][h]
        PROVE  Total(t, id, h)' = 0 <=> (t = s \/ Total(t, id, h) = 0)
    <3>1. Total(t, id, h)' = IF t = s THEN 0 ELSE Total(t, id, h)
      BY <1>3, <1>11, <1>12
    <3> QED
      BY <3>1
  <2>2. Total(s, id, h) # 0
    BY <1>9
  <2>3. s \notin Through(m, id, h)
    BY <2>2 DEF Through
  <2>4. Through(m, id, h)' = {t \in Members[m][h] : Total(t, id, h)' = 0}
    BY DEF Through
  <2>5. Through(m, id, h) \cup {s} = {t \in Members[m][h] : t = s \/ Total(t, id, h) = 0}
    BY <1>10 DEF Through
  <2> QED
    BY <2>1, <2>3, <2>4, <2>5
<1>14. Cardinality(Through(m, id, h)') = Cardinality(Through(m, id, h)) + 1
  <2>1. IsFiniteSet(Through(m, id, h))
    BY <1>12, FS_Subset DEF Through
  <2> QED
    BY <1>13, <2>1, FS_AddElement
<1>15. ASSUME NEW n \in Comm, NEW j \in InfoId, NEW g \in Lists(n), j # id \/ g # h
       PROVE  Through(n, j, g)' = Through(n, j, g)
  <2>1. g \in Nat /\ Members[n][g] \subseteq Server
    BY ListSize DEF Lists
  <2>2. \A t \in Members[n][g] : Total(t, j, g)' = Total(t, j, g)
    BY <1>11, <1>15, <2>1
  <2> QED
    BY <2>2 DEF Through
<1> QED
  BY <1>2, <1>3, <1>10, <1>11, <1>13, <1>14, <1>15

\* What an answer changes of its info.
LEMMA CollectedFields ==
    ASSUME NEW info, NEW ev
    PROVE  /\ Collected(info, ev).comm = info.comm /\ Collected(info, ev).op = info.op
           /\ Collected(info, ev).got = [info.got EXCEPT ![ev.grp] = @ + 1]
  BY DEF Collected

\* An answer that leaves some list pending is counted in its list.
LEMMA QueueFanOut ==
    ASSUME IInv, FInv, NEW s \in Server, RtrRespQueue(s), finiMap' = finiMap
    PROVE  FInv'
<1> DEFINE ev == Head(s2r[s])
<1>1. /\ Arrives(s2r[s], "CommResp") /\ InfoLive(s) /\ s2r' = Received(s2r, s)
      /\ r2s' = r2s /\ pendingEvents' = pendingEvents
      /\ Update(ev.id, Collected(reqInfo[ev.id], ev))
  BY DEF RtrRespQueue
<1>2. PICK id, h, m : id = ev.id /\ h = ev.grp /\ m = reqInfo[id].comm
  OBVIOUS
<1>3. /\ id \in DOMAIN reqInfo /\ id \in InfoId /\ m \in Comm
      /\ h \in Lists(m) /\ s \in Members[m][h]
      /\ \A t \in Server, j \in InfoId, g \in Nat :
            Total(t, j, g)' = IF t = s /\ j = id /\ g = h THEN 0 ELSE Total(t, j, g)
      /\ Cardinality(Through(m, id, h)') = Cardinality(Through(m, id, h)) + 1
      /\ \A n \in Comm, j \in InfoId : \A g \in Lists(n) :
            (j # id \/ g # h) => Through(n, j, g)' = Through(n, j, g)
  BY <1>1, <1>2, AnswerTotals
<1>4. reqInfo[id].got \in [Lists(m) -> Nat]
  BY <1>2, <1>3, InfoType DEF CommReqInfo
<1>5. /\ DOMAIN reqInfo' = DOMAIN reqInfo
      /\ reqInfo'[id].comm = m /\ reqInfo'[id].op = reqInfo[id].op
      /\ \A g \in Lists(m) : reqInfo'[id].got[g] = IF g = h THEN reqInfo[id].got[h] + 1
                                                           ELSE reqInfo[id].got[g]
      /\ \A j \in DOMAIN reqInfo \ {id} : reqInfo'[j] = reqInfo[j]
  <2>1. reqInfo' = [reqInfo EXCEPT ![id] = Collected(reqInfo[id], ev)]
    BY <1>1, <1>2 DEF Update
  <2>2. reqInfo'[id] = Collected(reqInfo[id], ev)
        /\ DOMAIN reqInfo' = DOMAIN reqInfo
        /\ \A j \in DOMAIN reqInfo \ {id} : reqInfo'[j] = reqInfo[j]
    BY <1>3, <2>1
  <2>3. reqInfo'[id].comm = m /\ reqInfo'[id].op = reqInfo[id].op
    <3>1. /\ Collected(reqInfo[id], ev).comm = reqInfo[id].comm
          /\ Collected(reqInfo[id], ev).op = reqInfo[id].op
      BY CollectedFields, Zenon
    <3> QED
      BY <1>2, <2>2, <3>1
  <2>4. reqInfo'[id].got = [reqInfo[id].got EXCEPT ![h] = @ + 1]
    <3>1. Collected(reqInfo[id], ev).got = [reqInfo[id].got EXCEPT ![ev.grp] = @ + 1]
      BY CollectedFields, Zenon
    <3> QED
      BY <1>2, <2>2, <3>1
  <2>5. \A g \in Lists(m) : reqInfo'[id].got[g] = IF g = h THEN reqInfo[id].got[h] + 1
                                                          ELSE reqInfo[id].got[g]
    BY <1>4, <2>4
  <2> QED
    BY <2>2, <2>3, <2>5
<1>6. FiniteFini'
  BY DEF FInv, FiniteFini
<1>7. Accounted'
  <2> SUFFICES ASSUME NEW t \in Server, NEW j \in InfoId, NEW g \in Nat
               PROVE  Total(t, j, g)' <= IF Addressed(t, j, g)' THEN 1 ELSE 0
    BY DEF Accounted
  <2>1. Total(t, j, g) <= IF Addressed(t, j, g) THEN 1 ELSE 0
    BY DEF FInv, Accounted
  <2>2. \A k \in DOMAIN reqInfo : reqInfo'[k].comm = reqInfo[k].comm
    BY <1>2, <1>3, <1>5
  <2>3. Addressed(t, j, g)' <=> Addressed(t, j, g)
    BY <1>5, <2>2 DEF Addressed
  <2> QED
    BY <1>3, <2>1, <2>3
<1>8. GotAnswers'
  <2> SUFFICES ASSUME NEW j \in DOMAIN reqInfo, NEW n, n = reqInfo'[j].comm,
                      NEW g \in Lists(n)
               PROVE  reqInfo'[j].got[g] = Cardinality(Through(n, j, g)')
    BY <1>5 DEF GotAnswers
  <2>1. n = reqInfo[j].comm /\ j \in InfoId /\ n \in Comm
    BY <1>2, <1>5, InfoType
  <2>2. reqInfo[j].got[g] = Cardinality(Through(n, j, g))
    BY <2>1 DEF FInv, GotAnswers
  <2>3. CASE j = id /\ g = h
    <3>1. n = m
      BY <1>2, <2>1, <2>3
    <3>2. reqInfo'[j].got[g] = reqInfo[j].got[g] + 1
      BY <1>5, <2>3, <3>1
    <3>3. Cardinality(Through(n, j, g)') = Cardinality(Through(n, j, g)) + 1
      BY <1>3, <2>3, <3>1
    <3> QED
      BY <2>2, <3>2, <3>3
  <2>4. CASE j # id \/ g # h
    <3>1. Through(n, j, g)' = Through(n, j, g)
      BY <1>3, <2>1, <2>4
    <3>2. reqInfo'[j].got[g] = reqInfo[j].got[g]
      <4>1. CASE j = id
        <5>1. n = m /\ g # h
          BY <1>2, <2>1, <2>4, <4>1
        <5> QED
          BY <1>5, <4>1, <5>1
      <4>2. CASE j # id
        BY <1>5, <4>2
      <4> QED
        BY <4>1, <4>2
    <3> QED
      BY <2>2, <3>1, <3>2
  <2> QED
    BY <2>3, <2>4
<1>9. LogsOfOne'
  <2> SUFFICES ASSUME NEW j \in DOMAIN reqInfo, reqInfo'[j].op \notin Aggregated
               PROVE  OneObject(reqInfo'[j].comm)
    BY <1>5 DEF LogsOfOne
  <2>1. reqInfo'[j].op = reqInfo[j].op /\ reqInfo'[j].comm = reqInfo[j].comm
    BY <1>2, <1>5
  <2> QED
    BY <2>1 DEF FInv, LogsOfOne
<1> QED
  BY <1>6, <1>7, <1>8, <1>9 DEF FInv

\* The last answer: no object of any list has a copy left.
LEMMA SendThrough ==
    ASSUME IInv, FInv, NEW s \in Server, RtrRespSend(s), finiMap' = finiMap,
           NEW id, NEW m, id = Head(s2r[s]).id, m = reqInfo[id].comm
    PROVE  \A g \in Lists(m) : Through(m, id, g)' = Members[m][g]
<1>1. PICK ev, h : ev = Head(s2r[s]) /\ h = ev.grp /\ id = ev.id
  OBVIOUS
<1>2. /\ Arrives(s2r[s], "CommResp") /\ InfoLive(s) /\ s2r' = Received(s2r, s)
      /\ r2s' = r2s /\ pendingEvents' = pendingEvents
      /\ Finished(reqInfo[ev.id], ev) /\ Free(ev.id)
  BY <1>1 DEF RtrRespSend
<1>3. /\ id \in DOMAIN reqInfo /\ id \in InfoId /\ m \in Comm
      /\ h \in Lists(m) /\ s \in Members[m][h]
      /\ \A t \in Server, j \in InfoId, g \in Nat :
            Total(t, j, g)' = IF t = s /\ j = id /\ g = h THEN 0 ELSE Total(t, j, g)
      /\ Through(m, id, h)' = Through(m, id, h) \cup {s}
      /\ Cardinality(Through(m, id, h)') = Cardinality(Through(m, id, h)) + 1
      /\ \A n \in Comm, j \in InfoId : \A g \in Lists(n) :
            (j # id \/ g # h) => Through(n, j, g)' = Through(n, j, g)
  BY <1>1, <1>2, AnswerTotals
<1>4. PICK info, new : info = reqInfo[id] /\ new = Collected(info, ev)
  OBVIOUS
<1>5. /\ info \in CommReqInfo(m) /\ info.comm = m /\ info.got \in [Lists(m) -> Nat]
      /\ new.comm = m /\ info.pending = Cardinality(Incomplete(info))
      /\ ev \in UpEvent /\ ev.type = "CommResp"
  <2>1. info \in CommReqInfo(m) /\ info.comm = m /\ info.got \in [Lists(m) -> Nat]
    BY <1>1, <1>3, <1>4, InfoType DEF CommReqInfo
  <2>2. new.comm = m
    BY <1>4, <2>1 DEF Collected
  <2>3. info.pending = Cardinality(Incomplete(info))
    BY <1>3, <1>4 DEF IInv, PendingCounts
  <2>4. ev \in UpEvent /\ ev.type = "CommResp"
    BY <1>1, <1>2, UpEventType DEF IInv, TypeOK
  <2> QED
    BY <2>1, <2>2, <2>3, <2>4
<1>6. ASSUME NEW g \in Lists(m)
      PROVE  new.got[g] = Cardinality(Through(m, id, g)')
  <2>1. info.got[g] = Cardinality(Through(m, id, g))
    BY <1>1, <1>3, <1>4 DEF FInv, GotAnswers
  <2>2. new.got[g] = IF g = h THEN info.got[g] + 1 ELSE info.got[g]
    BY <1>1, <1>4, <1>5 DEF Collected
  <2>3. CASE g = h
    BY <1>3, <2>1, <2>2, <2>3
  <2>4. CASE g # h
    BY <1>3, <2>1, <2>2, <2>4
  <2> QED
    BY <2>3, <2>4
<1>7. ASSUME NEW g \in Lists(m)
      PROVE  Through(m, id, g)' = Members[m][g]
  <2>1. /\ IsFiniteSet(Members[m][g]) /\ Cardinality(Members[m][g]) \in Nat
        /\ Through(m, id, g)' \subseteq Members[m][g]
    BY <1>3, ListSize DEF Through
  <2>2. CASE info.op \in Aggregated
    <3>1. new.pending = 0
      BY <1>1, <1>2, <1>4, <2>2 DEF Finished
    <3>2. new \in CommReqInfo(m) /\ new.pending = Cardinality(Incomplete(new))
      BY <1>1, <1>3, <1>4, <1>5, CollectedType
    <3>3. Incomplete(new) = {}
      BY <1>3, <3>1, <3>2, IncompleteFinite, FS_EmptySet
    <3>4. ~ (new.got[g] < Cardinality(Members[m][g]))
      BY <1>5, <3>3 DEF Incomplete
    <3>5. PICK T, M, a, b :
            /\ T = Through(m, id, g)' /\ M = Members[m][g]
            /\ a = Cardinality(T) /\ b = Cardinality(M)
      OBVIOUS
    <3>6. T \subseteq M /\ IsFiniteSet(M) /\ b \in Nat
      BY <2>1, <3>5
    <3>7. a \in Nat /\ a <= b /\ (b = a => M = T)
      BY <3>5, <3>6, FS_Subset, FS_CardinalityType
    <3>8. ~ (a < b)
      BY <1>6, <3>4, <3>5
    <3>9. a = b
      BY <3>6, <3>7, <3>8
    <3> QED
      BY <3>5, <3>7, <3>9
  <2>3. CASE info.op \notin Aggregated
    <3>1. Len(Members[m]) = 1 /\ Cardinality(Members[m][1]) = 1
      BY <1>1, <1>3, <1>4, <2>3 DEF FInv, LogsOfOne, OneObject
    <3>2. g = 1 /\ h = 1
      BY <1>3, <3>1 DEF Lists
    <3>3. \E x : Members[m][g] = {x}
      BY <2>1, <3>1, <3>2, FS_Singleton
    <3> QED
      BY <1>3, <2>1, <3>2, <3>3
  <2> QED
    BY <2>2, <2>3
<1> QED
  BY <1>7

LEMMA SendFanOut ==
    ASSUME IInv, FInv, NEW s \in Server, RtrRespSend(s), finiMap' = finiMap
    PROVE  FInv'
<1>1. PICK ev, id, h, m :
        ev = Head(s2r[s]) /\ id = ev.id /\ h = ev.grp /\ m = reqInfo[id].comm
  OBVIOUS
<1>2. /\ Arrives(s2r[s], "CommResp") /\ InfoLive(s) /\ s2r' = Received(s2r, s)
      /\ r2s' = r2s /\ pendingEvents' = pendingEvents /\ Free(id)
  BY <1>1 DEF RtrRespSend
<1>3. /\ id \in DOMAIN reqInfo /\ id \in InfoId /\ m \in Comm
      /\ h \in Lists(m) /\ s \in Members[m][h]
      /\ \A t \in Server, j \in InfoId, g \in Nat :
            Total(t, j, g)' = IF t = s /\ j = id /\ g = h THEN 0 ELSE Total(t, j, g)
      /\ \A n \in Comm, j \in InfoId : \A g \in Lists(n) :
            (j # id \/ g # h) => Through(n, j, g)' = Through(n, j, g)
  BY <1>1, <1>2, AnswerTotals
<1>4. \A g \in Lists(m) : Through(m, id, g)' = Members[m][g]
  BY <1>1, SendThrough
<1>5. /\ DOMAIN reqInfo' = DOMAIN reqInfo \ {id}
      /\ \A j \in DOMAIN reqInfo \ {id} : reqInfo'[j] = reqInfo[j]
  BY <1>2 DEF Free
<1>6. FiniteFini /\ FiniteFini'
  BY DEF FInv, FiniteFini
<1>7. Accounted'
  <2> SUFFICES ASSUME NEW t \in Server, NEW j \in InfoId, NEW g \in Nat
               PROVE  Total(t, j, g)' <= IF Addressed(t, j, g)' THEN 1 ELSE 0
    BY DEF Accounted
  <2>1. Total(t, j, g) <= (IF Addressed(t, j, g) THEN 1 ELSE 0) /\ Total(t, j, g) \in Nat
    BY <1>6, TotalTypes DEF FInv, Accounted
  <2>2. CASE j # id
    <3>1. Addressed(t, j, g)' <=> Addressed(t, j, g)
      BY <1>5, <2>2 DEF Addressed
    <3> QED
      BY <1>3, <2>1, <2>2, <3>1
  <2>3. CASE j = id /\ ~ Addressed(t, j, g)
    <3>1. Total(t, j, g)' = 0
      BY <1>3, <2>1, <2>3
    <3> QED
      BY <3>1
  <2>4. CASE j = id /\ Addressed(t, j, g)
    <3>1. g \in Lists(m) /\ t \in Members[m][g]
      BY <1>1, <2>4 DEF Addressed
    <3>2. Total(t, j, g)' = 0
      BY <1>4, <2>4, <3>1 DEF Through
    <3> QED
      BY <3>2
  <2> QED
    BY <2>2, <2>3, <2>4
<1>8. GotAnswers'
  <2> SUFFICES ASSUME NEW j \in DOMAIN reqInfo \ {id}, NEW n, n = reqInfo'[j].comm,
                      NEW g \in Lists(n)
               PROVE  reqInfo'[j].got[g] = Cardinality(Through(n, j, g)')
    BY <1>5 DEF GotAnswers
  <2>1. n = reqInfo[j].comm /\ j \in InfoId /\ n \in Comm /\ reqInfo'[j] = reqInfo[j]
    BY <1>5, InfoType
  <2>2. reqInfo[j].got[g] = Cardinality(Through(n, j, g))
    BY <2>1 DEF FInv, GotAnswers
  <2>3. Through(n, j, g)' = Through(n, j, g)
    BY <1>3, <2>1
  <2> QED
    BY <2>1, <2>2, <2>3
<1>9. LogsOfOne'
  BY <1>5 DEF FInv, LogsOfOne
<1> QED
  BY <1>6, <1>7, <1>8, <1>9 DEF FInv

-----------------------------------------------------------------------------
\* What was pending for a server that connects stays in its queue.
LEMMA ConnectQueue ==
    ASSUME IInv, NEW s \in Server, RtrServerConnect(s), NEW t \in Server
    PROVE  Queue(t)' = Queue(t)
<1>1. /\ r2s' = [r2s EXCEPT ![s] = @ \o pendingEvents[s]]
      /\ pendingEvents' = [pendingEvents EXCEPT ![s] = <<>>]
  BY DEF RtrServerConnect, Flush
<1>2. /\ r2s \in [Server -> Seq(ServerEvent)]
      /\ pendingEvents \in [Server -> Seq(ServerEvent)] /\ Queue(s) \in Seq(ServerEvent)
  BY QueueTypes
<1>3. Queue(s)' = Queue(s) \o <<>>
  BY <1>1, <1>2 DEF Queue
<1>4. t # s => Queue(t)' = Queue(t)
  BY <1>1, <1>2 DEF Queue
<1> QED
  BY <1>2, <1>3, <1>4, ConcatEmptySeq

\* A server that connects reads what was pending: the queue is the same.
LEMMA ConnectFanOut ==
    ASSUME IInv, FInv, NEW s \in Server, RtrServerConnect(s), finiMap' = finiMap
    PROVE  FInv' /\ SameCopies
<1>1. /\ Arrives(s2r[s], "ServerConnect") /\ s2r' = Received(s2r, s) /\ reqInfo' = reqInfo
      /\ r2s' = [r2s EXCEPT ![s] = @ \o pendingEvents[s]]
      /\ pendingEvents' = [pendingEvents EXCEPT ![s] = <<>>]
  BY DEF RtrServerConnect, Flush
<1>2. /\ r2s \in [Server -> Seq(ServerEvent)]
      /\ pendingEvents \in [Server -> Seq(ServerEvent)]
      /\ s2r \in [Server -> Seq(UpEvent)] /\ s2r[s] \in Seq(UpEvent) /\ s2r[s] # <<>>
      /\ Queue(s) \in Seq(ServerEvent)
  BY <1>1, QueueTypes DEF IInv, TypeOK, ChannelTypeOK, Arrives
<1>3. \A t \in Server : Queue(t)' = Queue(t)
  BY ConnectQueue
<1>4. FiniteFini /\ FiniteFini'
  BY DEF FInv, FiniteFini
<1>5. ASSUME NEW t \in Server, NEW id \in InfoId, NEW g \in Nat
      PROVE  Total(t, id, g)' = Total(t, id, g)
  <2>1. Count(s2r'[t], RespOf(id, g)) = Count(s2r[t], RespOf(id, g))
    <3>1. CASE t # s
      BY <1>1, <1>2, <3>1 DEF Received
    <3>2. CASE t = s
      <4>1. Head(s2r[s]) \notin RespOf(id, g)
        BY <1>1 DEF Arrives, RespOf
      <4>2. s2r'[s] = Tail(s2r[s])
        BY <1>1, <1>2 DEF Received
      <4>3. Count(s2r[s], RespOf(id, g)) = Count(Tail(s2r[s]), RespOf(id, g)) + 0
            /\ Count(Tail(s2r[s]), RespOf(id, g)) \in Nat
        BY <1>2, <4>1, CountTail
      <4> QED
        BY <3>2, <4>2, <4>3
    <3> QED
      BY <3>1, <3>2
  <2>2. Kept(t, id, g)' = Kept(t, id, g)
    BY DEF Kept
  <2> QED
    BY <1>3, <2>1, <2>2 DEF Total
<1> QED
  BY <1>1, <1>4, <1>5, SameTotals

LEMMA RouterFanOut ==
    ASSUME IInv, NonePending, EInv, FInv, RouterStep
    PROVE  FInv'
<1>1. reqs' = reqs /\ commReqs' = commReqs /\ finiMap' = finiMap
  BY DEF RouterStep, contextVars, serverVars
<1>2. ChannelTypeOK /\ clientComms \in [Ctx -> SUBSET Comm]
  BY DEF IInv, TypeOK, RouterTypeOK
<1>3. ASSUME NEW c \in Ctx, RtrCommCreate(c)
      PROVE  FInv'
  <2> DEFINE m == Head(c2r[c]).comm
  <2>1. m \in Comm
    BY <1>2, <1>3, ClientEventType DEF RtrCommCreate
  <2>2. CreateEvents(m) \in [Server -> Seq(ServerEvent)]
    BY <2>1, CreateEventsType
  <2>3. Forward(CreateEvents(m)) /\ s2r' = s2r /\ reqInfo' = reqInfo
    BY <1>3 DEF RtrCommCreate
  <2> QED
    BY <1>1, <2>1, <2>2, <2>3, CreateNoRequest, PassFanOut
<1>4. ASSUME NEW c \in Ctx, RtrCommReq(c)
      PROVE  FInv'
  BY <1>1, <1>4, AllocateFanOut
<1>5. ASSUME NEW c \in Ctx, RtrClientClosed(c)
      PROVE  FInv'
  <2>1. DestroyEvents(c) \in [Server -> Seq(ServerEvent)]
    BY <1>2, DestroyEventsType
  <2>2. Forward(DestroyEvents(c)) /\ s2r' = s2r /\ reqInfo' = reqInfo
    BY <1>5 DEF RtrClientClosed
  <2> QED
    BY <1>1, <1>2, <2>1, <2>2, DestroyNoRequest, PassFanOut
<1>6. ASSUME NEW s \in Server, RtrServerConnect(s) \/ RtrRespQueue(s) \/ RtrRespSend(s)
      PROVE  FInv'
  BY <1>1, <1>6, ConnectFanOut, QueueFanOut, SendFanOut
<1> QED
  BY <1>3, <1>4, <1>5, <1>6 DEF RouterStep

\* A server that starts, or hears of a communicator, touches no copy.
LEMMA ServerQuietFanOut ==
    ASSUME IInv, FInv, NEW s \in Server,
           ServerStart(s) \/ SrvrCommCreate(s) \/ SrvrCommDestroy(s),
           pendingEvents' = pendingEvents, reqInfo' = reqInfo
    PROVE  FInv' /\ SameCopies
<1>1. finiMap' = finiMap
  BY DEF ServerStart, SrvrCommCreate, SrvrCommDestroy
<1>2. FiniteFini /\ FiniteFini'
  BY <1>1 DEF FInv, FiniteFini
<1>3. ASSUME NEW t \in Server, NEW id \in InfoId, NEW g \in Nat
      PROVE  Total(t, id, g)' = Total(t, id, g)
  <2>1. Kept(t, id, g)' = Kept(t, id, g)
    BY <1>1 DEF Kept
  <2>2. /\ Count(Queue(t), ReqOf(id, g)) \in Nat /\ Count(s2r[t], RespOf(id, g)) \in Nat
        /\ s2r \in [Server -> Seq(UpEvent)] /\ s2r[t] \in Seq(UpEvent)
    BY <1>2, TotalTypes
  <2>3. CASE ServerStart(s)
    <3>1. r2s' = r2s /\ s2r' = [s2r EXCEPT ![s] = Append(@, ServerConnectEvent)]
      BY <2>3 DEF ServerStart, Sent
    <3>2. Queue(t)' = Queue(t)
      BY <3>1 DEF Queue
    <3>3. Count(s2r'[t], RespOf(id, g)) = Count(s2r[t], RespOf(id, g))
      <4>1. CASE t # s
        BY <2>2, <3>1, <4>1
      <4>2. CASE t = s
        <5>1. s2r'[t] = Append(s2r[t], ServerConnectEvent)
          BY <2>2, <3>1, <4>2
        <5>2. ServerConnectEvent \in UpEvent /\ ServerConnectEvent \notin RespOf(id, g)
          BY DEF ServerConnectEvent, UpEvent, RespOf
        <5>3. Count(Append(s2r[t], ServerConnectEvent), RespOf(id, g))
              = Count(s2r[t], RespOf(id, g)) + 0
          BY <2>2, <5>2, CountAppend
        <5> QED
          BY <2>2, <5>1, <5>3
      <4> QED
        BY <4>1, <4>2
    <3> QED
      BY <2>1, <3>2, <3>3 DEF Total
  <2>4. CASE SrvrCommCreate(s) \/ SrvrCommDestroy(s)
    <3>1. /\ r2s[s] # <<>> /\ r2s' = Received(r2s, s) /\ s2r' = s2r
          /\ ~ IsRequest(Head(r2s[s]))
      BY <2>4 DEF SrvrCommCreate, SrvrCommDestroy, Arrives, IsRequest
    <3>2. Count(Queue(t)', ReqOf(id, g)) = Count(Queue(t), ReqOf(id, g))
      <4>1. CASE t # s
        <5>1. Queue(t)' = Queue(t)
          BY <3>1, <4>1, ReadRequest
        <5> QED
          BY <5>1
      <4>2. CASE t = s
        <5>1. Count(Queue(s), ReqOf(id, g)) = Count(Queue(s)', ReqOf(id, g)) + 0
              /\ Count(Queue(s)', ReqOf(id, g)) \in Nat
          BY <3>1, ReadRequest
        <5> QED
          BY <4>2, <5>1
      <4> QED
        BY <4>1, <4>2
    <3> QED
      BY <2>1, <3>1, <3>2 DEF Total
  <2> QED
    BY <2>3, <2>4
<1>4. reqInfo' = reqInfo
  OBVIOUS
<1> QED
  BY <1>2, <1>3, <1>4, SameTotals

LEMMA UntouchedFanOut ==
    ASSUME IInv, FInv, r2s' = r2s, s2r' = s2r, pendingEvents' = pendingEvents,
           finiMap' = finiMap, reqInfo' = reqInfo
    PROVE  FInv' /\ SameCopies
<1>1. \A s, id, g : Total(s, id, g)' = Total(s, id, g)
  BY DEF Total, Queue, Kept
<1>2. FiniteFini'
  BY DEF FInv, FiniteFini
<1> QED
  BY <1>1, <1>2, SameTotals

LEMMA NextFanOut == IInv /\ OInv /\ EInv /\ FInv /\ [Next]_vars => FInv'
<1> SUFFICES ASSUME IInv, OInv, EInv, FInv, [Next]_vars PROVE FInv'
  OBVIOUS
<1>1. CASE RouterStep
  BY <1>1, RouterFanOut DEF OInv
<1>2. ASSUME NEW s \in Server, ServerStep(s)
      PROVE  FInv'
  <2>1. pendingEvents' = pendingEvents /\ reqInfo' = reqInfo
    BY <1>2 DEF ServerStep, routerVars
  <2> QED
    BY <1>2, <2>1, ServerQuietFanOut, LocalFanOut, ForwardFanOut, ProgressFanOut
       DEF ServerStep
<1>3. ASSUME NEW x \in App, AppCall(x) \/ AppRun(x)
      PROVE  FInv'
  BY <1>3, UntouchedFanOut DEF AppCall, AppRun, serverVars, routerVars
<1>4. CASE UNCHANGED vars
  BY <1>4, UntouchedFanOut DEF vars, channels, serverVars, routerVars
<1> QED
  BY <1>1, <1>2, <1>3, <1>4 DEF Next

LEMMA InitFanOut == Init => FInv
<1> SUFFICES ASSUME Init PROVE FInv
  OBVIOUS
<1>1. /\ \A s \in Server : /\ r2s[s] = <<>> /\ pendingEvents[s] = <<>>
                           /\ s2r[s] = <<>> /\ finiMap[s] = {}
      /\ DOMAIN reqInfo = {}
  BY DEF Init, ChannelInit, ServerInit, RouterInit
<1>2. FiniteFini
  BY <1>1, FS_EmptySet DEF FiniteFini
<1>3. ASSUME NEW s \in Server, NEW id \in InfoId, NEW g \in Nat
      PROVE  Total(s, id, g) = 0
  <2>1. Queue(s) = <<>>
    <3>1. <<>> \o <<>> = <<>>
      BY EmptySeq, ConcatEmptySeq
    <3> QED
      BY <1>1, <3>1 DEF Queue
  <2>2. \A S : Count(<<>>, S) = 0
    <3>1. \A S : Places(<<>>, S) = {}
      BY DEF Places
    <3> QED
      BY <3>1, FS_EmptySet DEF Count
  <2>3. Kept(s, id, g) = {}
    BY <1>1 DEF Kept
  <2> QED
    BY <1>1, <2>1, <2>2, <2>3, FS_EmptySet DEF Total
<1>4. Accounted
  BY <1>3 DEF Accounted
<1>5. GotAnswers /\ LogsOfOne
  BY <1>1 DEF GotAnswers, LogsOfOne
<1> QED
  BY <1>2, <1>4, <1>5 DEF FInv

-----------------------------------------------------------------------------
\* The copies of a request are those of the queue, of m_finiMap and the answers.
LEMMA CopiesTotal ==
    ASSUME IInv, FInv, NEW s \in Server, NEW id \in InfoId, NEW g \in Nat
    PROVE  Copies(s, id, g) = Total(s, id, g)
<1>1. /\ r2s[s] \in Seq(ServerEvent) /\ pendingEvents[s] \in Seq(ServerEvent)
      /\ s2r[s] \in Seq(UpEvent)
  BY QueueTypes, TotalTypes DEF FInv
<1>2. \A q \in Seq(ServerEvent) :
        {k \in 1 .. Len(q) : IsReq(q[k], id, g)} = Places(q, ReqOf(id, g))
  BY ElementOfSeq DEF Places, ReqOf, IsReq, IsRequest
<1>3. {k \in 1 .. Len(s2r[s]) : IsResp(s2r[s][k], id, g)} = Places(s2r[s], RespOf(id, g))
  BY <1>1, ElementOfSeq DEF Places, RespOf, IsResp
<1>4. Count(Queue(s), ReqOf(id, g))
      = Count(r2s[s], ReqOf(id, g)) + Count(pendingEvents[s], ReqOf(id, g))
  BY <1>1, CountConcat DEF Queue
<1>5. /\ Count(r2s[s], ReqOf(id, g)) \in Nat /\ Count(pendingEvents[s], ReqOf(id, g)) \in Nat
      /\ Count(s2r[s], RespOf(id, g)) \in Nat /\ Cardinality(Kept(s, id, g)) \in Nat
  BY <1>1, CountType, TotalTypes DEF FInv
<1>6. Copies(s, id, g)
      = Count(pendingEvents[s], ReqOf(id, g)) + Count(r2s[s], ReqOf(id, g))
        + Cardinality(Kept(s, id, g)) + Count(s2r[s], RespOf(id, g))
  <2> DEFINE a == Positions(pendingEvents[s], LAMBDA ev : IsReq(ev, id, g))
             b == Positions(r2s[s], LAMBDA ev : IsReq(ev, id, g))
             k == Cardinality({key \in finiMap[s] : key.id = id /\ key.grp = g})
             c == Positions(s2r[s], LAMBDA ev : IsResp(ev, id, g))
  <2>1. a = Count(pendingEvents[s], ReqOf(id, g))
    BY <1>1, <1>2 DEF Positions, Count
  <2>2. b = Count(r2s[s], ReqOf(id, g))
    BY <1>1, <1>2 DEF Positions, Count
  <2>3. c = Count(s2r[s], RespOf(id, g))
    BY <1>3 DEF Positions, Count
  <2>4. k = Cardinality(Kept(s, id, g))
    BY DEF Kept
  <2>5. Copies(s, id, g) = a + b + k + c
    BY DEF Copies
  <2> HIDE DEF a, b, k, c
  <2> QED
    BY <2>1, <2>2, <2>3, <2>4, <2>5
<1> QED
  BY <1>4, <1>5, <1>6 DEF Total

\* Each object of a list of a live CommReqInfo has answered or has one copy of
\* the request (commReqEvent.h, commRespEvent.h).
THEOREM FanOutCorrect == Spec => []FanOut
<1>1. IInv /\ FInv => FanOut
  <2> SUFFICES ASSUME IInv, FInv, NEW id \in DOMAIN reqInfo,
                      NEW g \in Lists(reqInfo[id].comm)
               PROVE  LET list == Members[reqInfo[id].comm][g]
                      IN  /\ \A s \in Server :
                               Copies(s, id, g) <= (IF s \in list THEN 1 ELSE 0)
                          /\ reqInfo[id].got[g]
                             = Cardinality({s \in list : Copies(s, id, g) = 0})
    BY Zenon DEF FanOut
  <2> DEFINE m == reqInfo[id].comm
  <2>1. id \in InfoId /\ g \in Nat /\ Members[m][g] \subseteq Server
    BY InfoType, ListSize
  <2>2. \A s \in Server : Copies(s, id, g) = Total(s, id, g)
    BY <2>1, CopiesTotal
  <2>3. \A s \in Server : Addressed(s, id, g) <=> s \in Members[m][g]
    BY DEF Addressed
  <2>4. \A s \in Server : Total(s, id, g) <= IF Addressed(s, id, g) THEN 1 ELSE 0
    BY <2>1 DEF FInv, Accounted
  <2>5. {s \in Members[m][g] : Copies(s, id, g) = 0} = Through(m, id, g)
    BY <2>1, <2>2 DEF Through
  <2>6. reqInfo[id].got[g] = Cardinality(Through(m, id, g))
    BY DEF FInv, GotAnswers
  <2> QED
    BY <2>2, <2>3, <2>4, <2>5, <2>6
<1> QED
  BY <1>1, InitIInv, NextIInv, InitOrder, NextOrder, InitPlaces, NextPlaces,
     InitFanOut, NextFanOut, PTL DEF Spec

-----------------------------------------------------------------------------
(* No lookup fails.                                                        *)

IsCreate(ev) == ev.type = "CommCreate"

\* A client that has gone, or is about to, waits for nothing.
Closed(c) ==
    (Eof \in Elems(c2r[c]) \/ c \notin clients) => c \in App \ open /\ commReqs[c] = {}

\* The communicator of a request is known when the router reads it.
Told(c) ==
    \A k \in 1 .. Len(c2r[c]) :
        IsRequest(c2r[c][k]) =>
            \/ c2r[c][k].comm \in clientComms[c]
            \/ \E j \in 1 .. Len(c2r[c]) :
                  j < k /\ c2r[c][j] = CommCreateEvent(c2r[c][k].comm)

\* A communicator that was announced has arrived or is on its way.
Announced(c) ==
    \A m \in created :
        (Owner[m] = c /\ c \in clients) =>
            m \in clientComms[c] \/ CommCreateEvent(m) \in Elems(c2r[c])

\* It is announced once, by its owner.
Fresh(c) ==
    /\ \A m \in clientComms[c] : m \in created /\ Owner[m] = c
    /\ \A k \in 1 .. Len(c2r[c]) :
          IsCreate(c2r[c][k]) =>
              /\ c2r[c][k].comm \in created /\ Owner[c2r[c][k].comm] = c
              /\ c2r[c][k].comm \notin clientComms[c]
              /\ \A j \in 1 .. Len(c2r[c]) : c2r[c][j] = c2r[c][k] => j = k

ClientSide(c) == Closed(c) /\ Told(c) /\ Announced(c) /\ Fresh(c)

\* The end of a communicator is sent when its owner has gone.
Ended(s) ==
    \A e \in Elems(Queue(s)) : e.type = "CommDestroy" => Owner[e.comm] \notin clients

\* A request is its owner's.
Owned(s) == \A e \in Elems(Queue(s)) : IsRequest(e) => Owner[e.comm] = e.id[1]

Listed(m, s) == \E g \in Lists(m) : s \in Members[m][g]

\* A server is told of the communicators that name it.
Introduced(s) ==
    \A m \in Comm :
        (Owner[m] \in clients /\ m \in clientComms[Owner[m]] /\ Listed(m, s)) =>
            m \in commMap[s] \/ CommCreateEvent(m) \in Elems(Queue(s))

\* The communicator of a request is known when the server reads it.
Known(s) ==
    \A k \in 1 .. Len(Queue(s)) :
        IsRequest(Queue(s)[k]) =>
            \/ Queue(s)[k].comm \in commMap[s]
            \/ \E j \in 1 .. Len(Queue(s)) :
                  j < k /\ Queue(s)[j] = CommCreateEvent(Queue(s)[k].comm)

ServerSide(s) == Ended(s) /\ Owned(s) /\ Introduced(s) /\ Known(s) /\ FiniKnown(s)

NInv == (\A c \in Ctx : ClientSide(c)) /\ (\A s \in Server : ServerSide(s))

-----------------------------------------------------------------------------
(* What is about belongs to a client that waits for it.                    *)

LEMMA LiveInfo ==
    ASSUME IInv, EInv, NEW id \in DOMAIN reqInfo
    PROVE  id[1] \in Ctx /\ id[2] \in commReqs[id[1]]
<1>1. DOMAIN reqInfo \subseteq Ctx \X Nat
  BY DEF IInv, TypeOK, RouterTypeOK, InfoId, EventId
<1>2. PICK x \in Ctx, i \in Nat : id = <<x, i>>
  BY <1>1
<1>3. i \in 1 .. Len(reqs[x])
  BY <1>2 DEF EInv, Numbered
<1>4. Count(c2r[x], AskFor(i)) + Held(x, i) + Count(r2c[x], AnswerTo(i)) = Wanted(x, i)
  BY <1>3 DEF EInv, InOnePlace
<1>5. /\ Count(c2r[x], AskFor(i)) \in Nat /\ Count(r2c[x], AnswerTo(i)) \in Nat
      /\ Held(x, i) = 1
  BY <1>2, PlaceCounts DEF Held
<1> QED
  BY <1>2, <1>4, <1>5 DEF Wanted

LEMMA LiveCopy ==
    ASSUME IInv, EInv, FInv, NEW s \in Server, NEW id \in InfoId, NEW g \in Nat,
           Total(s, id, g) # 0
    PROVE  Addressed(s, id, g) /\ id[1] \in Ctx /\ commReqs[id[1]] # {}
<1>1. Total(s, id, g) \in Nat /\ Total(s, id, g) <= IF Addressed(s, id, g) THEN 1 ELSE 0
  BY TotalTypes DEF FInv, Accounted
<1>2. Addressed(s, id, g)
  BY <1>1
<1>3. id \in DOMAIN reqInfo
  BY <1>2 DEF Addressed
<1> QED
  BY <1>2, <1>3, LiveInfo

LEMMA LiveRequest ==
    ASSUME IInv, EInv, FInv, NEW s \in Server, NEW e \in Elems(Queue(s)), IsRequest(e)
    PROVE  e.id[1] \in Ctx /\ commReqs[e.id[1]] # {}
<1>1. Queue(s) \in Seq(ServerEvent) /\ e \in ServerEvent
  BY QueueTypes, ElemsType
<1>2. e.id \in InfoId /\ e.grp \in Nat
  BY <1>1 DEF ServerEvent, IsRequest
<1>3. Count(Queue(s), ReqOf(e.id, e.grp)) # 0
  <2>1. e \in ReqOf(e.id, e.grp)
    BY <1>1 DEF ReqOf
  <2> QED
    BY <1>1, <2>1, CountType DEF Elems
<1>4. /\ Count(Queue(s), ReqOf(e.id, e.grp)) \in Nat
      /\ Cardinality(Kept(s, e.id, e.grp)) \in Nat
      /\ Count(s2r[s], RespOf(e.id, e.grp)) \in Nat
  BY TotalTypes DEF FInv
<1>5. Total(s, e.id, e.grp) # 0
  BY <1>3, <1>4 DEF Total
<1> QED
  BY <1>2, <1>5, LiveCopy

LEMMA AskedWanted ==
    ASSUME IInv, EInv, NEW c \in Ctx, NEW f \in Elems(c2r[c]), IsRequest(f)
    PROVE  f.id \in commReqs[c]
<1>1. f.id \in 1 .. Len(reqs[c])
  BY DEF EInv, Numbered
<1>2. Count(c2r[c], AskFor(f.id)) + Held(c, f.id) + Count(r2c[c], AnswerTo(f.id))
      = Wanted(c, f.id)
  BY <1>1 DEF EInv, InOnePlace
<1>3. /\ Count(c2r[c], AskFor(f.id)) \in Nat /\ Count(r2c[c], AnswerTo(f.id)) \in Nat
      /\ Count(c2r[c], AskFor(f.id)) # 0 /\ Held(c, f.id) \in {0, 1}
  BY PlaceCounts DEF Held
<1> QED
  BY <1>2, <1>3 DEF Wanted

\* No answer finds its CommReq gone.
LEMMA ExpectedAnswers ==
    ASSUME IInv, EInv, NEW x \in Ctx
    PROVE  AnswerExpected(x)
<1> SUFFICES ASSUME NEW k \in 1 .. Len(r2c[x]), NEW i, i = r2c[x][k].id
             PROVE  i \in commReqs[x]
  BY DEF AnswerExpected
<1>1. r2c[x][k] \in Elems(r2c[x])
  BY DEF Elems
<1>2. i \in 1 .. Len(reqs[x])
  BY <1>1 DEF EInv, Numbered
<1>3. Count(c2r[x], AskFor(i)) + Held(x, i) + Count(r2c[x], AnswerTo(i)) = Wanted(x, i)
  BY <1>2 DEF EInv, InOnePlace
<1>4. /\ Count(c2r[x], AskFor(i)) \in Nat /\ Count(r2c[x], AnswerTo(i)) \in Nat
      /\ Count(r2c[x], AnswerTo(i)) # 0 /\ Held(x, i) \in {0, 1}
  BY <1>1, PlaceCounts DEF Held
<1> QED
  BY <1>3, <1>4 DEF Wanted

\* An answer finds its CommReqInfo and the client.
LEMMA LiveAnswer ==
    ASSUME IInv, EInv, FInv, NEW s \in Server, \A c \in Ctx : Closed(c)
    PROVE  InfoLive(s)
<1> SUFFICES ASSUME Arrives(s2r[s], "CommResp"), NEW ev, ev = Head(s2r[s])
             PROVE  /\ ev.id \in DOMAIN reqInfo /\ ev.grp \in Lists(reqInfo[ev.id].comm)
                    /\ ev.id[1] \in clients
  BY DEF InfoLive
<1>1. /\ s2r[s] \in Seq(UpEvent) /\ s2r[s] # <<>> /\ ev \in UpEvent /\ ev.type = "CommResp"
      /\ ev.id \in InfoId /\ ev.grp \in Nat
  BY UpEventType DEF IInv, TypeOK, ChannelTypeOK, Arrives
<1>2. Count(s2r[s], RespOf(ev.id, ev.grp))
      = Count(Tail(s2r[s]), RespOf(ev.id, ev.grp)) + 1
      /\ Count(Tail(s2r[s]), RespOf(ev.id, ev.grp)) \in Nat
  <2>1. ev \in RespOf(ev.id, ev.grp)
    BY <1>1 DEF RespOf
  <2> QED
    BY <1>1, <2>1, CountTail
<1>3. /\ Count(Queue(s), ReqOf(ev.id, ev.grp)) \in Nat
      /\ Cardinality(Kept(s, ev.id, ev.grp)) \in Nat
  BY TotalTypes DEF FInv
<1>4. Total(s, ev.id, ev.grp) # 0
  BY <1>2, <1>3 DEF Total
<1>5. Addressed(s, ev.id, ev.grp) /\ ev.id[1] \in Ctx /\ commReqs[ev.id[1]] # {}
  BY <1>1, <1>4, LiveCopy
<1> QED
  BY <1>5 DEF Addressed, Closed

-----------------------------------------------------------------------------
(* The connections of the clients.                                         *)

LEMMA TailFacts ==
    ASSUME NEW E, NEW q \in Seq(E), q # <<>>
    PROVE  /\ Len(q) \in Nat \ {0} /\ Len(Tail(q)) = Len(q) - 1
           /\ Head(q) = q[1] /\ 1 \in 1 .. Len(q)
           /\ \A k \in 1 .. Len(Tail(q)) : Tail(q)[k] = q[k + 1] /\ k + 1 \in 1 .. Len(q)
           /\ \A k \in 1 .. Len(q) : k = 1 \/ k - 1 \in 1 .. Len(Tail(q))
<1>1. /\ Len(q) \in Nat \ {0} /\ Len(Tail(q)) = Len(q) - 1 /\ Head(q) = q[1]
      /\ \A k \in 1 .. Len(Tail(q)) : Tail(q)[k] = q[k + 1]
  BY EmptySeq, HeadTailProperties
<1> QED
  BY <1>1

LEMMA CreateIs ==
    /\ \A f \in ClientEvent : IsCreate(f) => f = CommCreateEvent(f.comm) /\ f.comm \in Comm
    /\ \A f \in ServerEvent : IsCreate(f) => f = CommCreateEvent(f.comm) /\ f.comm \in Comm
    /\ \A m : IsCreate(CommCreateEvent(m)) /\ CommCreateEvent(m).comm = m
    /\ \A m : ~ IsRequest(CommCreateEvent(m)) /\ CommCreateEvent(m) # Eof
    /\ ~ IsCreate(Eof) /\ ~ IsRequest(Eof)
    /\ \A f : ~ (IsCreate(f) /\ IsRequest(f))
<1>1. \A f \in ClientEvent : IsCreate(f) => f = CommCreateEvent(f.comm) /\ f.comm \in Comm
  BY DEF ClientEvent, IsCreate, CommCreateEvent, Eof
<1>2. \A f \in ServerEvent : IsCreate(f) => f = CommCreateEvent(f.comm) /\ f.comm \in Comm
  BY DEF ServerEvent, IsCreate, CommCreateEvent
<1>3. \A m : IsCreate(CommCreateEvent(m)) /\ CommCreateEvent(m).comm = m
  BY DEF IsCreate, CommCreateEvent
<1>4. ~ IsCreate(Eof) /\ ~ IsRequest(Eof) /\ \A f : ~ (IsCreate(f) /\ IsRequest(f))
  BY DEF IsCreate, IsRequest, Eof
<1> QED
  BY <1>1, <1>2, <1>3, <1>4

LEMMA OthersClient ==
    ASSUME NEW c, ClientSide(c), c2r'[c] = c2r[c], clientComms'[c] = clientComms[c],
           c \in clients' <=> c \in clients, commReqs'[c] \subseteq commReqs[c],
           c \in App \ open => c \notin open', created \subseteq created',
           \A m \in created' \ created : Owner[m] # c
    PROVE  ClientSide(c)'
<1>1. Closed(c)'
  BY DEF ClientSide, Closed
<1>2. Told(c)' /\ Announced(c)' /\ Fresh(c)'
  BY DEF ClientSide, Told, Announced, Fresh
<1> QED
  BY <1>1, <1>2 DEF ClientSide

\* A context announces its communicator with the first request.
LEMMA IssueClient ==
    ASSUME IInv, NEW x \in Ctx, NEW m \in Comm, NEW op \in Op, Issue(x, m, op),
           Owner[m] = x, x \notin App \ open, ClientSide(x),
           clients' = clients, clientComms' = clientComms, open' = open
    PROVE  ClientSide(x)'
<1> DEFINE id == Len(reqs[x]) + 1
           first == FirstUse(m)
           ev == CommReqEvent(m, op, id)
           old == c2r[x]
           new == c2r'[x]
           mid == old \o first
<1>1. /\ c2r \in [Ctx -> Seq(ClientEvent)] /\ old \in Seq(ClientEvent)
      /\ Len(reqs[x]) \in Nat /\ Len(old) \in Nat
  BY PlaceTypes
<1>2. ev \in ClientEvent /\ CommCreateEvent(m) \in ClientEvent
  BY <1>1 DEF CommReqEvent, CommCreateEvent, ClientEvent, EventId
<1>3. IsRequest(ev) /\ ev.comm = m /\ ~ IsCreate(ev) /\ ev # Eof
  BY DEF CommReqEvent, IsRequest, IsCreate, Eof
<1>4. /\ first \in Seq(ClientEvent)
      /\ m \in created => Len(first) = 0
      /\ m \notin created => Len(first) = 1 /\ first[1] = CommCreateEvent(m)
  BY <1>2 DEF FirstUse
<1>5. /\ new = Append(mid, ev) /\ created' = created \cup {m}
  BY <1>1 DEF Issue, SendRequest
<1>6. /\ Closed(x) /\ Told(x) /\ Announced(x) /\ Fresh(x)
  BY DEF ClientSide
<1>7. Eof \notin Elems(old) /\ x \in clients
  BY <1>6 DEF Closed
<1> HIDE DEF first, ev
<1>8. /\ mid \in Seq(ClientEvent) /\ Len(mid) = Len(old) + Len(first)
      /\ \A k \in 1 .. Len(old) : mid[k] = old[k]
      /\ m \notin created => mid[Len(old) + 1] = CommCreateEvent(m)
  <2>1. /\ mid \in Seq(ClientEvent) /\ Len(mid) = Len(old) + Len(first)
        /\ \A k \in 1 .. Len(old) + Len(first) :
              mid[k] = IF k <= Len(old) THEN old[k] ELSE first[k - Len(old)]
    BY <1>1, <1>4, ConcatProperties
  <2>2. Len(first) \in Nat
    BY <1>4, LenProperties
  <2>3. \A k \in 1 .. Len(old) : k \in 1 .. Len(old) + Len(first)
    <3>1. PICK a, b : a = Len(old) /\ b = Len(first)
      OBVIOUS
    <3>2. a \in Nat /\ b \in Nat
      BY <1>1, <2>2, <3>1
    <3>3. \A k \in 1 .. a : k \in 1 .. a + b
      BY <3>2
    <3> QED
      BY <3>1, <3>3
  <2>4. ASSUME m \notin created
        PROVE  mid[Len(old) + 1] = CommCreateEvent(m)
    <3>1. PICK a, b : a = Len(old) /\ b = Len(first)
      OBVIOUS
    <3>2. a \in Nat /\ b = 1 /\ first[1] = CommCreateEvent(m)
      BY <1>1, <1>4, <2>4, <3>1
    <3>3. a + 1 \in 1 .. a + b /\ ~ (a + 1 <= a) /\ a + 1 - a = 1
      BY <3>2
    <3>4. mid[a + 1] = IF a + 1 <= a THEN old[a + 1] ELSE first[a + 1 - a]
      BY <2>1, <3>1, <3>3
    <3> QED
      BY <3>1, <3>2, <3>3, <3>4
  <2> QED
    BY <1>4, <2>1, <2>3, <2>4
<1>9. /\ Len(new) = Len(mid) + 1 /\ new[Len(mid) + 1] = ev
      /\ \A k \in 1 .. Len(mid) : new[k] = mid[k]
  BY <1>2, <1>5, <1>8, AppendProperties
<1> HIDE DEF mid
<1> DEFINE n == Len(old)
           l == Len(new)
<1>10. /\ \A k \in 1 .. n : k \in 1 .. l /\ k < l /\ new[k] = old[k]
       /\ l \in 1 .. l /\ new[l] = ev /\ n < l
       /\ m \notin created => n + 1 \in 1 .. l /\ n + 1 < l /\ new[n + 1] = CommCreateEvent(m)
       /\ \A k \in 1 .. l : \/ k \in 1 .. n \/ k = l \/ (m \notin created /\ k = n + 1)
  <2>1. PICK a, b, d : a = Len(old) /\ b = Len(new) /\ d = Len(first)
    OBVIOUS
  <2>2. /\ a \in Nat /\ d \in {0, 1} /\ b = a + d + 1 /\ (m \in created <=> d = 0)
    BY <1>1, <1>4, <1>8, <1>9, <2>1
  <2>3. /\ \A k \in 1 .. a : k \in 1 .. b /\ k < b /\ k \in 1 .. a + d
        /\ b \in 1 .. b /\ a < b
        /\ d = 1 => a + 1 \in 1 .. b /\ a + 1 < b /\ a + 1 \in 1 .. a + d
        /\ \A k \in 1 .. b : k \in 1 .. a \/ k = b \/ (d = 1 /\ k = a + 1)
    BY <2>2
  <2>4. PICK c : c = Len(mid)
    OBVIOUS
  <2>5. /\ c = a + d /\ b = c + 1
        /\ \A k \in 1 .. a : mid[k] = old[k]
        /\ d = 1 => mid[a + 1] = CommCreateEvent(m)
    <3>1. c = a + d /\ \A k \in 1 .. a : mid[k] = old[k]
      BY <1>8, <2>1, <2>4
    <3>2. b = c + 1
      BY <1>9, <2>1, <2>4
    <3>3. d = 1 => m \notin created
      BY <2>2
    <3>4. d = 1 => mid[a + 1] = CommCreateEvent(m)
      BY <1>8, <2>1, <3>3
    <3> QED
      BY <3>1, <3>2, <3>4
  <2>6. new[b] = ev /\ \A k \in 1 .. c : new[k] = mid[k]
    BY <1>9, <2>4, <2>5
  <2>7. \A k \in 1 .. a : new[k] = old[k]
    BY <2>3, <2>5, <2>6
  <2>8. d = 1 => new[a + 1] = CommCreateEvent(m)
    BY <2>3, <2>5, <2>6
  <2> QED
    BY <2>1, <2>2, <2>3, <2>6, <2>7, <2>8
<1> HIDE DEF new, old, n, l
<1>11. Closed(x)'
  <2>1. Eof \notin Elems(new)
    BY <1>3, <1>7, <1>10, CreateIs DEF Elems, n, l
  <2> QED
    BY <1>7, <2>1 DEF Closed, new
<1>12. Elems(old) \subseteq Elems(new)
       /\ (m \notin created => CommCreateEvent(m) \in Elems(new))
  BY <1>10 DEF Elems, n, l
<1>13. Told(x)'
  <2> SUFFICES ASSUME NEW k \in 1 .. l, IsRequest(new[k])
               PROVE  \/ new[k].comm \in clientComms[x]
                      \/ \E j \in 1 .. l : j < k /\ new[j] = CommCreateEvent(new[k].comm)
    BY DEF Told, new, l
  <2>1. CASE k \in 1 .. n
    <3>1. \/ old[k].comm \in clientComms[x]
          \/ \E j \in 1 .. n : j < k /\ old[j] = CommCreateEvent(old[k].comm)
      BY <1>6, <1>10, <2>1 DEF Told, old, n
    <3> QED
      BY <1>10, <2>1, <3>1
  <2>2. CASE k = l
    <3>1. new[k].comm = m
      BY <1>3, <1>10, <2>2
    <3>2. CASE m \in created
      <4>1. m \in clientComms[x] \/ CommCreateEvent(m) \in Elems(old)
        BY <1>6, <1>7, <3>2 DEF Announced, old
      <4>2. CASE CommCreateEvent(m) \in Elems(old)
        <5>1. PICK j \in 1 .. n : old[j] = CommCreateEvent(m)
          BY <4>2 DEF Elems, n
        <5> QED
          BY <1>10, <2>2, <3>1, <5>1
      <4> QED
        BY <3>1, <4>1, <4>2
    <3>3. CASE m \notin created
      BY <1>10, <2>2, <3>1, <3>3
    <3> QED
      BY <3>2, <3>3
  <2>3. CASE m \notin created /\ k = n + 1
    BY <1>10, <2>3, CreateIs
  <2> QED
    BY <1>10, <2>1, <2>2, <2>3
<1>14. Announced(x)'
  <2> SUFFICES ASSUME NEW i \in created \cup {m}, Owner[i] = x
               PROVE  i \in clientComms[x] \/ CommCreateEvent(i) \in Elems(new)
    BY <1>5 DEF Announced, new
  <2>1. CASE i \in created
    BY <1>6, <1>7, <1>12, <2>1 DEF Announced, old
  <2>2. CASE i \notin created
    BY <1>12, <2>2
  <2> QED
    BY <2>1, <2>2
<1>15. Fresh(x)'
  <2>1. /\ \A i \in clientComms[x] : i \in created /\ Owner[i] = x
        /\ \A k \in 1 .. n :
              IsCreate(old[k]) =>
                  /\ old[k].comm \in created /\ Owner[old[k].comm] = x
                  /\ old[k].comm \notin clientComms[x]
                  /\ \A j \in 1 .. n : old[j] = old[k] => j = k
    BY <1>6 DEF Fresh, old, n
  <2> SUFFICES ASSUME NEW k \in 1 .. l, IsCreate(new[k])
               PROVE  /\ new[k].comm \in created \cup {m} /\ Owner[new[k].comm] = x
                      /\ new[k].comm \notin clientComms[x]
                      /\ \A j \in 1 .. l : new[j] = new[k] => j = k
    BY <1>5, <2>1 DEF Fresh, new, l
  <2>2. k # l
    BY <1>3, <1>10
  <2>3. CASE k \in 1 .. n
    <3>1. new[k] = old[k] /\ old[k].comm \in created
      BY <1>10, <2>1, <2>3
    <3>2. ASSUME NEW j \in 1 .. l, new[j] = new[k]
          PROVE  j = k
      <4>1. j # l
        BY <1>3, <1>10, <3>2
      <4>2. ~ (m \notin created /\ j = n + 1)
        BY <1>10, <3>1, <3>2, CreateIs
      <4>3. j \in 1 .. n
        BY <1>10, <4>1, <4>2
      <4> QED
        BY <1>10, <2>1, <2>3, <3>1, <3>2, <4>3
    <3> QED
      BY <1>10, <2>1, <2>3, <3>1, <3>2
  <2>4. CASE m \notin created /\ k = n + 1
    <3>1. new[k] = CommCreateEvent(m) /\ new[k].comm = m
      BY <1>10, <2>4, CreateIs
    <3>2. m \notin clientComms[x]
      BY <2>1, <2>4
    <3>3. ASSUME NEW j \in 1 .. l, new[j] = new[k]
          PROVE  j = k
      <4>1. j # l
        BY <1>3, <1>10, <3>3
      <4>2. j \notin 1 .. n
        <5>1. j \in 1 .. n => old[j] = CommCreateEvent(m)
          BY <1>10, <3>1, <3>3
        <5> QED
          BY <2>1, <2>4, <5>1, CreateIs
      <4> QED
        BY <1>10, <2>4, <4>1, <4>2
    <3> QED
      BY <3>1, <3>2, <3>3
  <2> QED
    BY <1>10, <2>2, <2>3, <2>4
<1> QED
  BY <1>11, <1>13, <1>14, <1>15 DEF ClientSide

\* The router reads an event of a client that stays.
LEMMA ReadClient ==
    ASSUME IInv, NEW c \in Ctx, c2r[c] # <<>>, ClientSide(c), c2r' = Received(c2r, c),
           Head(c2r[c]) # Eof, clients' = clients, open' = open, created' = created,
           commReqs' = commReqs,
           clientComms'[c] = IF IsCreate(Head(c2r[c]))
                             THEN clientComms[c] \cup {Head(c2r[c]).comm}
                             ELSE clientComms[c]
    PROVE  ClientSide(c)'
<1> DEFINE old == c2r[c]
           new == c2r'[c]
           ev == Head(c2r[c])
<1>1. c2r \in [Ctx -> Seq(ClientEvent)] /\ old \in Seq(ClientEvent) /\ new = Tail(old)
  BY PlaceTypes DEF Received
<1>2. /\ Len(old) \in Nat \ {0} /\ Len(new) = Len(old) - 1
      /\ ev = old[1] /\ 1 \in 1 .. Len(old)
      /\ \A k \in 1 .. Len(new) : new[k] = old[k + 1] /\ k + 1 \in 1 .. Len(old)
      /\ \A k \in 1 .. Len(old) : k = 1 \/ k - 1 \in 1 .. Len(new)
  BY <1>1, TailFacts
<1>3. Closed(c) /\ Told(c) /\ Announced(c) /\ Fresh(c)
  BY DEF ClientSide
<1>4. ev \in ClientEvent
  BY <1>1, ElemsTail, ElemsType
<1> HIDE DEF old, new, ev
<1>5. \A e \in Elems(old) : e = ev \/ e \in Elems(new)
  <2> SUFFICES ASSUME NEW k \in 1 .. Len(old)
               PROVE  old[k] = ev \/ old[k] \in Elems(new)
    BY DEF Elems
  <2>1. CASE k = 1
    BY <1>2, <2>1
  <2>2. CASE k - 1 \in 1 .. Len(new)
    <3>1. new[k - 1] = old[k]
      <4>1. k - 1 + 1 = k
        BY <1>2
      <4> QED
        BY <1>2, <2>2, <4>1
    <3> QED
      BY <2>2, <3>1 DEF Elems
  <2> QED
    BY <1>2, <2>1, <2>2
<1>6. Elems(new) \subseteq Elems(old)
  BY <1>2 DEF Elems
<1>7. IsCreate(ev) => ev = CommCreateEvent(ev.comm)
  BY <1>4, CreateIs
<1>8. Closed(c)'
  BY <1>3, <1>6 DEF Closed, old, new
<1>9. Told(c)'
  <2> SUFFICES ASSUME NEW k \in 1 .. Len(new), IsRequest(new[k])
               PROVE  \/ new[k].comm \in clientComms'[c]
                      \/ \E j \in 1 .. Len(new) :
                            j < k /\ new[j] = CommCreateEvent(new[k].comm)
    BY DEF Told, new
  <2>1. new[k] = old[k + 1] /\ k + 1 \in 1 .. Len(old)
    BY <1>2
  <2>2. \/ new[k].comm \in clientComms[c]
        \/ \E j \in 1 .. Len(old) : j < k + 1 /\ old[j] = CommCreateEvent(new[k].comm)
    BY <1>3, <2>1 DEF Told, old
  <2>3. CASE new[k].comm \in clientComms[c]
    BY <2>3
  <2>4. ASSUME NEW j \in 1 .. Len(old), j < k + 1, old[j] = CommCreateEvent(new[k].comm)
        PROVE  \/ new[k].comm \in clientComms'[c]
               \/ \E i \in 1 .. Len(new) : i < k /\ new[i] = CommCreateEvent(new[k].comm)
    <3>1. CASE j = 1
      <4>1. ev = CommCreateEvent(new[k].comm)
        BY <1>2, <2>4, <3>1
      <4>2. IsCreate(ev) /\ ev.comm = new[k].comm
        BY <4>1, CreateIs
      <4>3. clientComms'[c] = clientComms[c] \cup {ev.comm}
        BY <4>2 DEF ev
      <4> QED
        BY <4>2, <4>3
    <3>2. CASE j # 1
      <4>1. j - 1 \in 1 .. Len(new) /\ j - 1 < k /\ j - 1 + 1 = j
        BY <1>2, <2>4, <3>2
      <4>2. new[j - 1] = old[j]
        BY <1>2, <4>1
      <4> QED
        BY <2>4, <4>1, <4>2
    <3> QED
      BY <3>1, <3>2
  <2> QED
    BY <2>2, <2>3, <2>4
<1>10. Announced(c)'
  <2> SUFFICES ASSUME NEW m \in created, Owner[m] = c, c \in clients
               PROVE  m \in clientComms'[c] \/ CommCreateEvent(m) \in Elems(new)
    BY DEF Announced, new
  <2>1. m \in clientComms[c] \/ CommCreateEvent(m) \in Elems(old)
    BY <1>3 DEF Announced, old
  <2>2. CASE CommCreateEvent(m) = ev
    <3>1. IsCreate(ev) /\ ev.comm = m
      BY <2>2, CreateIs
    <3> QED
      BY <3>1 DEF ev
  <2> QED
    BY <1>5, <2>1, <2>2
<1>11. Fresh(c)'
  <2>1. /\ \A i \in clientComms[c] : i \in created /\ Owner[i] = c
        /\ \A k \in 1 .. Len(old) :
              IsCreate(old[k]) =>
                  /\ old[k].comm \in created /\ Owner[old[k].comm] = c
                  /\ old[k].comm \notin clientComms[c]
                  /\ \A j \in 1 .. Len(old) : old[j] = old[k] => j = k
    BY <1>3 DEF Fresh, old
  <2>2. \A i \in clientComms'[c] : i \in created /\ Owner[i] = c
    <3>1. IsCreate(ev) => ev.comm \in created /\ Owner[ev.comm] = c
      BY <1>2, <2>1
    <3>2. \A i \in clientComms'[c] : i \in clientComms[c] \/ (IsCreate(ev) /\ i = ev.comm)
      BY DEF ev
    <3> QED
      BY <2>1, <3>1, <3>2
  <2>3. ASSUME NEW k \in 1 .. Len(new), IsCreate(new[k])
        PROVE  /\ new[k].comm \in created /\ Owner[new[k].comm] = c
               /\ new[k].comm \notin clientComms'[c]
               /\ \A j \in 1 .. Len(new) : new[j] = new[k] => j = k
    <3>1. new[k] = old[k + 1] /\ k + 1 \in 1 .. Len(old) /\ k + 1 # 1
      BY <1>2
    <3>2. /\ new[k].comm \in created /\ Owner[new[k].comm] = c
          /\ new[k].comm \notin clientComms[c]
          /\ \A j \in 1 .. Len(old) : old[j] = new[k] => j = k + 1
      BY <2>1, <2>3, <3>1
    <3>3. ASSUME NEW j \in 1 .. Len(new), new[j] = new[k]
          PROVE  j = k
      <4>1. new[j] = old[j + 1] /\ j + 1 \in 1 .. Len(old)
        BY <1>2
      <4>2. j + 1 = k + 1
        BY <3>2, <3>3, <4>1
      <4> QED
        BY <1>2, <4>2
    <3>4. ev # new[k]
      BY <1>2, <3>1, <3>2
    <3>5. IsCreate(ev) => ev.comm # new[k].comm
      <4>1. new[k] \in ClientEvent
        BY <1>1, <3>1, ElementOfSeq
      <4> QED
        BY <1>7, <2>3, <3>4, <4>1, CreateIs
    <3> QED
      BY <3>2, <3>3, <3>5 DEF ev
  <2> QED
    BY <2>2, <2>3 DEF Fresh, new
<1> QED
  BY <1>8, <1>9, <1>10, <1>11 DEF ClientSide

\* The router reads the end of a client: it had asked all it would ask.
LEMMA EndClient ==
    ASSUME IInv, EInv, NEW c \in Ctx, c2r[c] # <<>>, ClientSide(c), c2r' = Received(c2r, c),
           Head(c2r[c]) = Eof, clients' = clients \ {c}, open' = open,
           created' = created, commReqs' = commReqs, clientComms'[c] = {}
    PROVE  ClientSide(c)'
<1> DEFINE old == c2r[c]
           new == c2r'[c]
<1>1. c2r \in [Ctx -> Seq(ClientEvent)] /\ old \in Seq(ClientEvent) /\ new = Tail(old)
  BY PlaceTypes DEF Received
<1>2. /\ Len(old) \in Nat \ {0} /\ Len(new) = Len(old) - 1
      /\ Eof = old[1] /\ 1 \in 1 .. Len(old)
      /\ \A k \in 1 .. Len(new) : new[k] = old[k + 1] /\ k + 1 \in 1 .. Len(old)
  BY <1>1, TailFacts
<1>3. Closed(c) /\ Fresh(c)
  BY DEF ClientSide
<1>4. Eof \in Elems(old) /\ Elems(new) \subseteq Elems(old)
  BY <1>2 DEF Elems
<1>5. c \in App \ open /\ commReqs[c] = {}
  BY <1>3, <1>4 DEF Closed
<1>6. Closed(c)'
  BY <1>5 DEF Closed
<1>7. Told(c)'
  <2>1. \A f \in Elems(old) : ~ IsRequest(f)
    BY <1>5, AskedWanted
  <2>2. \A k \in 1 .. Len(new) : ~ IsRequest(new[k])
    BY <1>4, <2>1 DEF Elems
  <2> QED
    BY <2>2 DEF Told
<1>8. Announced(c)'
  BY DEF Announced
<1> HIDE DEF old, new
<1>9. Fresh(c)'
  <2>1. \A k \in 1 .. Len(old) :
              IsCreate(old[k]) =>
                  /\ old[k].comm \in created /\ Owner[old[k].comm] = c
                  /\ \A j \in 1 .. Len(old) : old[j] = old[k] => j = k
    BY <1>3 DEF Fresh, old
  <2>2. ASSUME NEW k \in 1 .. Len(new), IsCreate(new[k])
        PROVE  /\ new[k].comm \in created /\ Owner[new[k].comm] = c
               /\ \A j \in 1 .. Len(new) : new[j] = new[k] => j = k
    <3>1. new[k] = old[k + 1] /\ k + 1 \in 1 .. Len(old)
      BY <1>2
    <3>2. ASSUME NEW j \in 1 .. Len(new), new[j] = new[k]
          PROVE  j = k
      <4>1. new[j] = old[j + 1] /\ j + 1 \in 1 .. Len(old)
        BY <1>2
      <4>2. j + 1 = k + 1
        BY <2>1, <2>2, <3>1, <3>2, <4>1
      <4> QED
        BY <1>2, <4>2
    <3> QED
      BY <2>1, <2>2, <3>1, <3>2
  <2> QED
    BY <2>2 DEF Fresh, new
<1> QED
  BY <1>6, <1>7, <1>8, <1>9 DEF ClientSide

\* An application closes its context when it waits for nothing.
LEMMA CloseClient ==
    ASSUME IInv, NEW x \in App, Close(x), ClientSide(x),
           clients' = clients, clientComms' = clientComms
    PROVE  ClientSide(x)'
<1> DEFINE old == c2r[x]
           new == c2r'[x]
<1>1. x \in Ctx
  BY DEF Ctx
<1>2. /\ c2r \in [Ctx -> Seq(ClientEvent)] /\ old \in Seq(ClientEvent) /\ Len(old) \in Nat
  BY <1>1, PlaceTypes
<1>3. /\ commReqs[x] = {} /\ commReqs' = commReqs /\ created' = created
      /\ open' = open \ {x} /\ new = Append(old, Eof)
  BY <1>1, <1>2 DEF Close, Sent, contextVars
<1>4. /\ Len(new) = Len(old) + 1 /\ new[Len(old) + 1] = Eof
      /\ \A k \in 1 .. Len(old) : new[k] = old[k]
  <2>1. Eof \in ClientEvent
    BY DEF ClientEvent
  <2> QED
    BY <1>2, <1>3, <2>1, AppendProperties
<1>5. Told(x) /\ Announced(x) /\ Fresh(x)
  BY DEF ClientSide
<1> HIDE DEF old, new
<1> DEFINE n == Len(old)
           l == Len(new)
<1>6. /\ \A k \in 1 .. n : k \in 1 .. l /\ new[k] = old[k]
      /\ \A k \in 1 .. l : k \in 1 .. n \/ new[k] = Eof
      /\ n \in Nat /\ l = n + 1
  BY <1>2, <1>4
<1> HIDE DEF n, l
<1>7. Closed(x)'
  BY <1>3 DEF Closed
<1>8. Told(x)'
  <2> SUFFICES ASSUME NEW k \in 1 .. l, IsRequest(new[k])
               PROVE  \/ new[k].comm \in clientComms[x]
                      \/ \E j \in 1 .. l : j < k /\ new[j] = CommCreateEvent(new[k].comm)
    BY DEF Told, new, l
  <2>1. k \in 1 .. n
    BY <1>6, CreateIs
  <2>2. \/ old[k].comm \in clientComms[x]
        \/ \E j \in 1 .. n : j < k /\ old[j] = CommCreateEvent(old[k].comm)
    BY <1>5, <1>6, <2>1 DEF Told, old, n
  <2> QED
    BY <1>6, <2>1, <2>2
<1>9. Announced(x)'
  <2>1. Elems(old) \subseteq Elems(new)
    BY <1>6 DEF Elems, n, l
  <2> QED
    BY <1>3, <1>5, <2>1 DEF Announced, old, new
<1>10. Fresh(x)'
  <2>1. /\ \A i \in clientComms[x] : i \in created /\ Owner[i] = x
        /\ \A k \in 1 .. n :
              IsCreate(old[k]) =>
                  /\ old[k].comm \in created /\ Owner[old[k].comm] = x
                  /\ old[k].comm \notin clientComms[x]
                  /\ \A j \in 1 .. n : old[j] = old[k] => j = k
    BY <1>5 DEF Fresh, old, n
  <2> SUFFICES ASSUME NEW k \in 1 .. l, IsCreate(new[k])
               PROVE  /\ new[k].comm \in created /\ Owner[new[k].comm] = x
                      /\ new[k].comm \notin clientComms[x]
                      /\ \A j \in 1 .. l : new[j] = new[k] => j = k
    BY <1>3, <2>1 DEF Fresh, new, l
  <2>2. k \in 1 .. n /\ new[k] = old[k]
    BY <1>6, CreateIs
  <2>3. ASSUME NEW j \in 1 .. l, new[j] = new[k]
        PROVE  j = k
    <3>1. j \in 1 .. n
      BY <1>6, <2>3, CreateIs
    <3> QED
      BY <1>6, <2>1, <2>2, <2>3, <3>1
  <2> QED
    BY <2>1, <2>2, <2>3
<1> QED
  BY <1>7, <1>8, <1>9, <1>10 DEF ClientSide

-----------------------------------------------------------------------------
(* The queues of the servers.                                              *)

LEMMA ConcatFacts ==
    ASSUME NEW E, NEW q \in Seq(E), NEW r \in Seq(E)
    PROVE  /\ \A k \in 1 .. Len(q) : k \in 1 .. Len(q \o r) /\ (q \o r)[k] = q[k]
           /\ \A k \in 1 .. Len(q \o r) :
                 \/ k \in 1 .. Len(q)
                 \/ (q \o r)[k] \in Elems(r) /\ \A j \in 1 .. Len(q) : j < k
           /\ Elems(q) \subseteq Elems(q \o r) /\ Elems(r) \subseteq Elems(q \o r)
<1> DEFINE c == q \o r
<1>1. /\ Len(q) \in Nat /\ Len(r) \in Nat /\ Len(c) = Len(q) + Len(r)
      /\ \A i \in 1 .. Len(q) + Len(r) :
            c[i] = IF i <= Len(q) THEN q[i] ELSE r[i - Len(q)]
  BY ConcatProperties, LenProperties
<1> HIDE DEF c
<1>2. \A k \in 1 .. Len(q) : k \in 1 .. Len(c) /\ c[k] = q[k]
  BY <1>1
<1>3. ASSUME NEW k \in 1 .. Len(c), k \notin 1 .. Len(q)
      PROVE  c[k] \in Elems(r) /\ \A j \in 1 .. Len(q) : j < k
  <2>1. k - Len(q) \in 1 .. Len(r) /\ c[k] = r[k - Len(q)]
        /\ \A j \in 1 .. Len(q) : j < k
    BY <1>1, <1>3
  <2> QED
    BY <2>1 DEF Elems
<1>4. Elems(q) \subseteq Elems(c)
  BY <1>2 DEF Elems
<1>5. Elems(r) \subseteq Elems(c)
  <2> SUFFICES ASSUME NEW k \in 1 .. Len(r) PROVE r[k] \in Elems(c)
    BY DEF Elems
  <2>1. k + Len(q) \in 1 .. Len(c) /\ c[k + Len(q)] = r[k]
    <3>1. /\ k + Len(q) \in 1 .. Len(q) + Len(r) /\ ~ (k + Len(q) <= Len(q))
          /\ k + Len(q) - Len(q) = k
      BY <1>1
    <3> QED
      BY <1>1, <3>1
  <2> QED
    BY <2>1 DEF Elems
<1> QED
  BY <1>2, <1>3, <1>4, <1>5 DEF c

LEMMA TailElems ==
    ASSUME NEW E, NEW q \in Seq(E), q # <<>>
    PROVE  \A e \in Elems(q) : e = Head(q) \/ e \in Elems(Tail(q))
<1> SUFFICES ASSUME NEW k \in 1 .. Len(q), k # 1
             PROVE  q[k] \in Elems(Tail(q))
  BY TailFacts DEF Elems
<1>1. k - 1 \in 1 .. Len(Tail(q)) /\ (k - 1) + 1 = k
  BY TailFacts
<1>2. Tail(q)[k - 1] = q[(k - 1) + 1]
  BY <1>1, TailFacts
<1> QED
  BY <1>1, <1>2 DEF Elems

\* A server that is in a list of a communicator is told of it.
LEMMA CreateEventsOf ==
    ASSUME NEW m \in Comm, NEW s \in Server
    PROVE  /\ \A e \in Elems(CreateEvents(m)[s]) : e = CommCreateEvent(m)
           /\ Listed(m, s) => CommCreateEvent(m) \in Elems(CreateEvents(m)[s])
<1>1. /\ Len(Slots[m][s]) \in Nat
      /\ \A g \in Lists(m) : s \in Members[m][g] => \E k \in 1 .. Len(Slots[m][s]) : Slots[m][s][k] = g
  BY SlotsAssumption, LenProperties
<1> DEFINE q == CreateEvents(m)[s]
<1>2. /\ Len(q) = Len(Slots[m][s])
      /\ \A k \in 1 .. Len(Slots[m][s]) : q[k] = CommCreateEvent(m)
  BY <1>1 DEF CreateEvents
<1> HIDE DEF q
<1>3. Listed(m, s) => \E k \in 1 .. Len(q) : q[k] = CommCreateEvent(m)
  BY <1>1, <1>2 DEF Listed
<1> QED
  BY <1>2, <1>3 DEF Elems, q

\* A request goes to the servers that are listed.
LEMMA RequestEventsOf ==
    ASSUME NEW m \in Comm, NEW op, NEW id, NEW s \in Server
    PROVE  \A e \in Elems(RequestEvents(m, op, id)[s]) :
              IsRequest(e) /\ e.comm = m /\ e.id = id /\ Listed(m, s)
<1>1. /\ Len(Slots[m][s]) \in Nat
      /\ \A k \in 1 .. Len(Slots[m][s]) :
            Slots[m][s][k] \in Lists(m) /\ s \in Members[m][Slots[m][s][k]]
  BY SlotsAssumption, LenProperties
<1> DEFINE q == RequestEvents(m, op, id)[s]
<1>2. /\ Len(q) = Len(Slots[m][s])
      /\ \A k \in 1 .. Len(Slots[m][s]) :
            IsRequest(q[k]) /\ q[k].comm = m /\ q[k].id = id
  BY <1>1 DEF RequestEvents, SrvrReqEvent, IsRequest
<1> HIDE DEF q
<1>3. Len(q) # 0 => Listed(m, s)
  <2>1. Len(q) # 0 => 1 \in 1 .. Len(Slots[m][s])
    BY <1>1, <1>2
  <2> QED
    BY <1>1, <2>1 DEF Listed
<1>4. \A k \in 1 .. Len(q) : Listed(m, s)
  BY <1>1, <1>2, <1>3
<1> QED
  BY <1>2, <1>4 DEF Elems, q

LEMMA DestroyEventsOf ==
    ASSUME clientComms \in [Ctx -> SUBSET Comm], NEW c \in Ctx, NEW s \in Server
    PROVE  \A e \in Elems(DestroyEvents(c)[s]) :
              e.type = "CommDestroy" /\ e.comm \in clientComms[c]
<1> DEFINE S == {m \in clientComms[c] : s \in Members[m][1]}
           ms == SetToSeq(S)
           q == DestroyEvents(c)[s]
<1>1. ms \in Seq(S)
  <2>1. S \subseteq Comm /\ IsFiniteSet(S)
    BY PartiesAssumption, FS_Subset
  <2> QED
    BY <2>1, SetToSeqType
<1>2. q = [j \in 1 .. Len(ms) |-> CommDestroyEvent(ms[j])]
  BY DEF DestroyEvents
<1>3. Len(ms) \in Nat /\ \A k \in 1 .. Len(ms) : ms[k] \in clientComms[c]
  <2>1. Len(ms) \in Nat /\ \A k \in 1 .. Len(ms) : ms[k] \in S
    <3> HIDE DEF ms, S
    <3> QED
      BY <1>1, LenProperties, ElementOfSeq
  <2> QED
    BY <2>1
<1> HIDE DEF ms, q
<1>4. /\ Len(q) = Len(ms) /\ \A k \in 1 .. Len(ms) : q[k] = CommDestroyEvent(ms[k])
  BY <1>2, <1>3
<1>5. \A m : CommDestroyEvent(m).type = "CommDestroy" /\ CommDestroyEvent(m).comm = m
  BY DEF CommDestroyEvent
<1>6. \A k \in 1 .. Len(q) : k \in 1 .. Len(ms) /\ q[k] = CommDestroyEvent(ms[k])
  BY <1>4
<1> QED
  BY <1>3, <1>5, <1>6 DEF Elems, q

\* A server to which nothing happens.
LEMMA SameServer ==
    ASSUME NEW s, ServerSide(s), Queue(s)' = Queue(s), commMap'[s] = commMap[s],
           FiniKnown(s)', clients' = clients, clientComms' = clientComms
    PROVE  ServerSide(s)'
<1>1. Ended(s)' /\ Owned(s)' /\ Introduced(s)' /\ Known(s)'
  BY DEF ServerSide, Ended, Owned, Introduced, Known
<1> QED
  BY <1>1 DEF ServerSide

LEMMA SameFini ==
    ASSUME NEW s, ServerSide(s), finiMap' = finiMap, commReqs'[s] = commReqs[s]
    PROVE  FiniKnown(s)'
  BY DEF ServerSide, FiniKnown

\* The router passes events on.
LEMMA PassServer ==
    ASSUME IInv, NonePending, NEW s \in Server, ServerSide(s),
           NEW out \in [Server -> Seq(ServerEvent)], Forward(out),
           commMap' = commMap, finiMap' = finiMap, commReqs' = commReqs,
           clients' \subseteq clients,
           \A e \in Elems(out[s]) : e.type = "CommDestroy" => Owner[e.comm] \notin clients',
           \A e \in Elems(out[s]) :
               IsRequest(e) => /\ Owner[e.comm] = e.id[1]
                               /\ \/ e.comm \in commMap[s]
                                  \/ CommCreateEvent(e.comm) \in Elems(Queue(s)),
           \A m \in Comm :
               (Owner[m] \in clients' /\ m \in clientComms'[Owner[m]] /\ Listed(m, s)) =>
                   \/ m \in clientComms[Owner[m]]
                   \/ CommCreateEvent(m) \in Elems(out[s])
    PROVE  ServerSide(s)'
<1>1. Queue(s)' = Queue(s) \o out[s]
  BY ForwardQueue
<1>2. PICK q, r, new : q = Queue(s) /\ r = out[s] /\ new = Queue(s) \o out[s]
  OBVIOUS
<1>3. /\ q \in Seq(ServerEvent) /\ r \in Seq(ServerEvent) /\ new = q \o r
      /\ Queue(s)' = new
  BY <1>1, <1>2, QueueTypes
<1>4. /\ \A k \in 1 .. Len(q) : k \in 1 .. Len(new) /\ new[k] = q[k]
      /\ \A k \in 1 .. Len(new) :
            \/ k \in 1 .. Len(q)
            \/ new[k] \in Elems(r) /\ \A j \in 1 .. Len(q) : j < k
      /\ Elems(q) \subseteq Elems(new) /\ Elems(r) \subseteq Elems(new)
      /\ Elems(new) \subseteq Elems(q) \cup Elems(r)
  BY <1>3, ConcatFacts, ElemsConcat
<1>5. Ended(s) /\ Owned(s) /\ Introduced(s) /\ Known(s) /\ FiniKnown(s)
  BY DEF ServerSide
<1>6. Ended(s)'
  <2> SUFFICES ASSUME NEW e \in Elems(new), e.type = "CommDestroy"
               PROVE  Owner[e.comm] \notin clients'
    BY <1>3 DEF Ended
  <2>1. CASE e \in Elems(q)
    BY <1>2, <1>5, <2>1 DEF Ended
  <2>2. CASE e \in Elems(r)
    BY <1>2, <2>2
  <2> QED
    BY <1>4, <2>1, <2>2
<1>7. Owned(s)'
  <2> SUFFICES ASSUME NEW e \in Elems(new), IsRequest(e)
               PROVE  Owner[e.comm] = e.id[1]
    BY <1>3 DEF Owned
  <2>1. CASE e \in Elems(q)
    BY <1>2, <1>5, <2>1 DEF Owned
  <2>2. CASE e \in Elems(r)
    BY <1>2, <2>2
  <2> QED
    BY <1>4, <2>1, <2>2
<1>8. Introduced(s)'
  <2> SUFFICES ASSUME NEW m \in Comm, Owner[m] \in clients', m \in clientComms'[Owner[m]],
                      Listed(m, s)
               PROVE  m \in commMap[s] \/ CommCreateEvent(m) \in Elems(new)
    BY <1>3 DEF Introduced, Listed
  <2>1. m \in clientComms[Owner[m]] \/ CommCreateEvent(m) \in Elems(r)
    BY <1>2
  <2>2. m \in clientComms[Owner[m]] =>
            m \in commMap[s] \/ CommCreateEvent(m) \in Elems(q)
    BY <1>2, <1>5 DEF Introduced
  <2> QED
    BY <1>4, <2>1, <2>2
<1>9. Known(s)'
  <2> SUFFICES ASSUME NEW k \in 1 .. Len(new), IsRequest(new[k])
               PROVE  \/ new[k].comm \in commMap[s]
                      \/ \E j \in 1 .. Len(new) :
                            j < k /\ new[j] = CommCreateEvent(new[k].comm)
    BY <1>3 DEF Known
  <2>1. CASE k \in 1 .. Len(q)
    <3>1. \/ q[k].comm \in commMap[s]
          \/ \E j \in 1 .. Len(q) : j < k /\ q[j] = CommCreateEvent(q[k].comm)
      BY <1>2, <1>4, <1>5, <2>1 DEF Known
    <3> QED
      BY <1>4, <2>1, <3>1
  <2>2. CASE new[k] \in Elems(r) /\ \A j \in 1 .. Len(q) : j < k
    <3>1. new[k].comm \in commMap[s] \/ CommCreateEvent(new[k].comm) \in Elems(q)
      BY <1>2, <2>2
    <3>2. CASE CommCreateEvent(new[k].comm) \in Elems(q)
      <4>1. PICK j \in 1 .. Len(q) : q[j] = CommCreateEvent(new[k].comm)
        BY <3>2 DEF Elems
      <4> QED
        BY <1>4, <2>2, <4>1
    <3> QED
      BY <3>1, <3>2
  <2> QED
    BY <1>4, <2>1, <2>2
<1>10. FiniKnown(s)'
  BY <1>5 DEF FiniKnown
<1> QED
  BY <1>6, <1>7, <1>8, <1>9, <1>10 DEF ServerSide

\* A server reads an event.  It forgets a communicator only when no request of
\* its owner is left, for a client goes only when it waits for nothing.
LEMMA ReadServer ==
    ASSUME IInv, EInv, FInv, NEW s \in Server, ServerSide(s), \A c \in Ctx : Closed(c),
           r2s[s] # <<>>, r2s' = Received(r2s, s), pendingEvents' = pendingEvents,
           clients' = clients, clientComms' = clientComms, FiniKnown(s)',
           IsCreate(Head(r2s[s])) => Head(r2s[s]).comm \in commMap'[s],
           \A m \in commMap[s] : m \in commMap'[s] \/ Owner[m] \notin clients
    PROVE  ServerSide(s)'
<1>1. PICK q, new, ev : q = Queue(s) /\ new = Tail(Queue(s)) /\ ev = Head(r2s[s])
  OBVIOUS
<1>2. /\ q \in Seq(ServerEvent) /\ q # <<>> /\ new = Tail(q) /\ Queue(s)' = new
      /\ Head(q) = ev
  BY <1>1, QueueTypes, QueueHead, ReceivedQueue
<1>3. /\ Len(q) \in Nat \ {0} /\ Len(new) = Len(q) - 1 /\ ev = q[1]
      /\ \A k \in 1 .. Len(new) : new[k] = q[k + 1] /\ k + 1 \in 1 .. Len(q)
      /\ \A k \in 1 .. Len(q) : k = 1 \/ k - 1 \in 1 .. Len(new)
      /\ Elems(new) \subseteq Elems(q) /\ \A e \in Elems(q) : e = ev \/ e \in Elems(new)
  BY <1>2, TailFacts, ElemsTail, TailElems
<1>4. Ended(s) /\ Owned(s) /\ Introduced(s) /\ Known(s)
  BY DEF ServerSide
<1>5. Ended(s)' /\ Owned(s)'
  BY <1>1, <1>2, <1>3, <1>4 DEF Ended, Owned
<1>6. \A m : CommCreateEvent(m) = ev => m \in commMap'[s]
  BY <1>1, CreateIs
<1>7. Introduced(s)'
  <2> SUFFICES ASSUME NEW m \in Comm, Owner[m] \in clients, m \in clientComms[Owner[m]],
                      Listed(m, s)
               PROVE  m \in commMap'[s] \/ CommCreateEvent(m) \in Elems(new)
    BY <1>2 DEF Introduced, Listed
  <2>1. m \in commMap[s] \/ CommCreateEvent(m) \in Elems(q)
    BY <1>1, <1>4 DEF Introduced
  <2> QED
    BY <1>3, <1>6, <2>1
<1>8. ASSUME NEW e \in Elems(q), IsRequest(e)
      PROVE  Owner[e.comm] \in clients
  <2>1. e.id[1] \in Ctx /\ commReqs[e.id[1]] # {}
    BY <1>1, <1>8, LiveRequest
  <2>2. Owner[e.comm] = e.id[1]
    BY <1>1, <1>4, <1>8 DEF Owned
  <2> QED
    BY <2>1, <2>2 DEF Closed
<1>9. Known(s)'
  <2> SUFFICES ASSUME NEW k \in 1 .. Len(new), IsRequest(new[k])
               PROVE  \/ new[k].comm \in commMap'[s]
                      \/ \E j \in 1 .. Len(new) :
                            j < k /\ new[j] = CommCreateEvent(new[k].comm)
    BY <1>2 DEF Known
  <2>1. new[k] = q[k + 1] /\ k + 1 \in 1 .. Len(q) /\ new[k] \in Elems(q)
    BY <1>3 DEF Elems
  <2>2. \/ new[k].comm \in commMap[s]
        \/ \E j \in 1 .. Len(q) : j < k + 1 /\ q[j] = CommCreateEvent(new[k].comm)
    BY <1>1, <1>4, <2>1 DEF Known
  <2>3. CASE new[k].comm \in commMap[s]
    BY <1>8, <2>1, <2>3
  <2>4. ASSUME NEW j \in 1 .. Len(q), j < k + 1, q[j] = CommCreateEvent(new[k].comm)
        PROVE  \/ new[k].comm \in commMap'[s]
               \/ \E i \in 1 .. Len(new) : i < k /\ new[i] = CommCreateEvent(new[k].comm)
    <3>1. CASE j = 1
      BY <1>3, <1>6, <2>4, <3>1
    <3>2. CASE j # 1
      <4>1. j - 1 \in 1 .. Len(new) /\ j - 1 < k /\ j - 1 + 1 = j
        BY <1>3, <2>4, <3>2
      <4>2. new[j - 1] = q[j]
        BY <1>3, <4>1
      <4> QED
        BY <2>4, <4>1, <4>2
    <3> QED
      BY <3>1, <3>2
  <2> QED
    BY <2>2, <2>3, <2>4
<1> QED
  BY <1>5, <1>7, <1>9 DEF ServerSide

-----------------------------------------------------------------------------
(* The steps.                                                              *)

LEMMA NoFaultTypes ==
    ASSUME IInv
    PROVE  /\ ChannelTypeOK /\ clientComms \in [Ctx -> SUBSET Comm] /\ clients \subseteq Ctx
           /\ c2r \in [Ctx -> Seq(ClientEvent)] /\ commReqs \in [Ctx -> SUBSET EventId]
           /\ commMap \in [Server -> SUBSET Comm] /\ finiMap \in [Server -> SUBSET FiniEntry]
  BY DEF IInv, TypeOK, ChannelTypeOK, RouterTypeOK, ContextTypeOK, ServerTypeOK

\* The router hears of a communicator and passes it on.
LEMMA CreateNoFault ==
    ASSUME IInv, NonePending, NInv, NEW c \in Ctx, RtrCommCreate(c),
           UNCHANGED <<contextVars, appVars, serverVars>>
    PROVE  NInv'
<1> DEFINE m == Head(c2r[c]).comm
<1>1. /\ c2r[c] # <<>> /\ IsCreate(Head(c2r[c])) /\ Forward(CreateEvents(m))
      /\ clientComms' = [clientComms EXCEPT ![c] = @ \cup {m}]
      /\ c2r' = Received(c2r, c) /\ clients' = clients
  BY DEF RtrCommCreate, Arrives, IsCreate
<1>2. /\ commReqs' = commReqs /\ created' = created /\ open' = open
      /\ commMap' = commMap /\ finiMap' = finiMap
  BY DEF contextVars, appVars, serverVars
<1>3. m \in Comm
  BY NoFaultTypes, ClientEventType DEF RtrCommCreate
<1>4. /\ clientComms'[c] = clientComms[c] \cup {m}
      /\ \A x \in Ctx \ {c} : clientComms'[x] = clientComms[x] /\ c2r'[x] = c2r[x]
  BY <1>1, NoFaultTypes DEF Received
<1>5. ASSUME NEW x \in Ctx
      PROVE  ClientSide(x)'
  <2>1. ClientSide(x)
    BY DEF NInv
  <2>2. CASE x = c
    <3>1. Head(c2r[c]) # Eof
      BY <1>1, CreateIs
    <3> QED
      BY <1>1, <1>2, <1>4, <2>1, <2>2, <3>1, ReadClient
  <2>3. CASE x # c
    BY <1>1, <1>2, <1>4, <2>1, <2>3, OthersClient
  <2> QED
    BY <2>2, <2>3
<1>6. ASSUME NEW s \in Server
      PROVE  ServerSide(s)'
  <2> DEFINE out == CreateEvents(m)
  <2>1. /\ out \in [Server -> Seq(ServerEvent)] /\ Forward(out)
        /\ \A e \in Elems(out[s]) : e = CommCreateEvent(m)
        /\ Listed(m, s) => CommCreateEvent(m) \in Elems(out[s])
    BY <1>1, <1>3, CreateEventsType, CreateEventsOf
  <2> HIDE DEF out, m
  <2>2. \A e \in Elems(out[s]) : ~ IsRequest(e) /\ e.type # "CommDestroy"
    BY <2>1 DEF CommCreateEvent, IsRequest
  <2>3. \A i \in Comm : (Owner[i] \in clients' /\ i \in clientComms'[Owner[i]]) =>
            i \in clientComms[Owner[i]] \/ i = m
    BY <1>1, <1>4, NoFaultTypes
  <2>4. \A i \in Comm :
            (Owner[i] \in clients' /\ i \in clientComms'[Owner[i]] /\ Listed(i, s)) =>
               i \in clientComms[Owner[i]] \/ CommCreateEvent(i) \in Elems(out[s])
    BY <2>1, <2>3
  <2>5. ServerSide(s) /\ clients' \subseteq clients
    BY <1>1 DEF NInv
  <2> QED
    BY <1>2, <2>1, <2>2, <2>4, <2>5, PassServer
<1> QED
  BY <1>5, <1>6 DEF NInv

LEMMA RequestNoFault ==
    ASSUME IInv, NonePending, EInv, NInv, NEW c \in Ctx, RtrCommReq(c),
           UNCHANGED <<contextVars, appVars, serverVars>>
    PROVE  NInv'
<1> DEFINE ev == Head(c2r[c])
<1>1. /\ c2r[c] # <<>> /\ IsRequest(ev) /\ ev.comm \in clientComms[c]
      /\ Forward(RequestEvents(ev.comm, ev.op, <<c, ev.id>>))
      /\ c2r' = Received(c2r, c) /\ clients' = clients /\ clientComms' = clientComms
  BY DEF RtrCommReq, Arrives, IsRequest
<1>2. /\ commReqs' = commReqs /\ created' = created /\ open' = open
      /\ commMap' = commMap /\ finiMap' = finiMap
  BY DEF contextVars, appVars, serverVars
<1>3. ev.comm \in Comm /\ ev.op \in Op /\ <<c, ev.id>> \in InfoId
  BY NoFaultTypes, ClientEventType DEF RtrCommReq, InfoId
<1>4. \A x \in Ctx \ {c} : c2r'[x] = c2r[x]
  BY <1>1, NoFaultTypes DEF Received
<1>5. ASSUME NEW x \in Ctx
      PROVE  ClientSide(x)'
  <2>1. ClientSide(x)
    BY DEF NInv
  <2>2. CASE x = c
    <3>1. Head(c2r[c]) # Eof /\ ~ IsCreate(Head(c2r[c]))
      BY <1>1, CreateIs
    <3> QED
      BY <1>1, <1>2, <2>1, <2>2, <3>1, ReadClient
  <2>3. CASE x # c
    BY <1>1, <1>2, <1>4, <2>1, <2>3, OthersClient
  <2> QED
    BY <2>2, <2>3
<1>6. PICK m, op, id : m = ev.comm /\ op = ev.op /\ id = <<c, ev.id>>
  OBVIOUS
<1>7. Owner[m] = c /\ m \in clientComms[c] /\ c \in clients
  <2>1. Fresh(c) /\ Closed(c)
    BY DEF NInv, ClientSide
  <2>2. ev.id \in commReqs[c]
    <3>1. ev \in Elems(c2r[c])
      BY <1>1, NoFaultTypes, ElemsTail
    <3> QED
      BY <1>1, <3>1, AskedWanted
  <2> QED
    BY <1>1, <1>6, <2>1, <2>2 DEF Fresh, Closed
<1>8. ASSUME NEW s \in Server
      PROVE  ServerSide(s)'
  <2> DEFINE out == RequestEvents(m, op, id)
  <2>1. /\ m \in Comm /\ op \in Op /\ id \in InfoId /\ id[1] = c
    BY <1>3, <1>6
  <2>2. /\ out \in [Server -> Seq(ServerEvent)] /\ Forward(out)
        /\ \A e \in Elems(out[s]) : IsRequest(e) /\ e.comm = m /\ e.id = id /\ Listed(m, s)
    <3>1. Forward(out)
      BY <1>1, <1>6
    <3>2. out \in [Server -> Seq(ServerEvent)]
      BY <2>1, RequestEventsType
    <3>3. \A e \in Elems(out[s]) : IsRequest(e) /\ e.comm = m /\ e.id = id /\ Listed(m, s)
      BY <2>1, RequestEventsOf
    <3> QED
      BY <3>1, <3>2, <3>3
  <2> HIDE DEF out
  <2>3. ServerSide(s) /\ clients' \subseteq clients
    BY <1>1 DEF NInv
  <2>4. Listed(m, s) => m \in commMap[s] \/ CommCreateEvent(m) \in Elems(Queue(s))
    BY <1>7, <2>1, <2>3 DEF ServerSide, Introduced
  <2>5. \A e \in Elems(out[s]) :
           /\ e.type # "CommDestroy"
           /\ Owner[e.comm] = e.id[1]
           /\ e.comm \in commMap[s] \/ CommCreateEvent(e.comm) \in Elems(Queue(s))
    BY <1>7, <2>1, <2>2, <2>4 DEF IsRequest
  <2>6. \A i \in Comm : i \in clientComms'[Owner[i]] => i \in clientComms[Owner[i]]
    BY <1>1
  <2> QED
    BY <1>2, <2>2, <2>3, <2>5, <2>6, PassServer
<1> QED
  BY <1>5, <1>8 DEF NInv

LEMMA ClosedNoFault ==
    ASSUME IInv, NonePending, EInv, NInv, NEW c \in Ctx, RtrClientClosed(c),
           UNCHANGED <<contextVars, appVars, serverVars>>
    PROVE  NInv'
<1>1. /\ c2r[c] # <<>> /\ Head(c2r[c]).type = "Eof" /\ Forward(DestroyEvents(c))
      /\ clientComms' = [clientComms EXCEPT ![c] = {}]
      /\ c2r' = Received(c2r, c) /\ clients' = clients \ {c}
  BY DEF RtrClientClosed, Arrives
<1>2. /\ commReqs' = commReqs /\ created' = created /\ open' = open
      /\ commMap' = commMap /\ finiMap' = finiMap
  BY DEF contextVars, appVars, serverVars
<1>3. Head(c2r[c]) = Eof
  <2>1. Head(c2r[c]) \in ClientEvent
    BY <1>1, NoFaultTypes, ReceivedType
  <2> QED
    BY <1>1, <2>1 DEF ClientEvent, Eof
<1>4. /\ clientComms'[c] = {}
      /\ \A x \in Ctx \ {c} : clientComms'[x] = clientComms[x] /\ c2r'[x] = c2r[x]
  BY <1>1, NoFaultTypes DEF Received
<1>5. ASSUME NEW x \in Ctx
      PROVE  ClientSide(x)'
  <2>1. ClientSide(x)
    BY DEF NInv
  <2>2. CASE x = c
    BY <1>1, <1>2, <1>3, <1>4, <2>1, <2>2, EndClient
  <2>3. CASE x # c
    BY <1>1, <1>2, <1>4, <2>1, <2>3, OthersClient
  <2> QED
    BY <2>2, <2>3
<1>6. ASSUME NEW s \in Server
      PROVE  ServerSide(s)'
  <2> DEFINE out == DestroyEvents(c)
  <2>1. /\ out \in [Server -> Seq(ServerEvent)] /\ Forward(out)
        /\ \A e \in Elems(out[s]) : e.type = "CommDestroy" /\ e.comm \in clientComms[c]
    BY <1>1, NoFaultTypes, DestroyEventsType, DestroyEventsOf
  <2> HIDE DEF out
  <2>2. Fresh(c)
    BY DEF NInv, ClientSide
  <2>3. \A e \in Elems(out[s]) : ~ IsRequest(e) /\ Owner[e.comm] \notin clients'
    BY <1>1, <2>1, <2>2 DEF Fresh, IsRequest
  <2>4. \A i \in Comm : (Owner[i] \in clients' /\ i \in clientComms'[Owner[i]]) =>
            i \in clientComms[Owner[i]]
    BY <1>1, <1>4, NoFaultTypes
  <2>5. ServerSide(s) /\ clients' \subseteq clients
    BY <1>1 DEF NInv
  <2> QED
    BY <1>2, <2>1, <2>3, <2>4, <2>5, PassServer
<1> QED
  BY <1>5, <1>6 DEF NInv

\* The router hears of a server or collects an answer.
LEMMA RouterServerNoFault ==
    ASSUME IInv, NInv, NEW s \in Server,
           RtrServerConnect(s) \/ RtrRespQueue(s) \/ RtrRespSend(s),
           UNCHANGED <<contextVars, appVars, serverVars>>
    PROVE  NInv'
<1>1. /\ c2r' = c2r /\ clients' = clients /\ clientComms' = clientComms
      /\ commReqs' = commReqs /\ created' = created /\ open' = open
      /\ commMap' = commMap /\ finiMap' = finiMap
  BY DEF RtrServerConnect, RtrRespQueue, RtrRespSend, contextVars, appVars, serverVars
<1>2. ASSUME NEW t \in Server
      PROVE  Queue(t)' = Queue(t)
  <2>1. CASE RtrServerConnect(s)
    BY <2>1, ConnectQueue
  <2>2. CASE RtrRespQueue(s) \/ RtrRespSend(s)
    BY <2>2 DEF RtrRespQueue, RtrRespSend, Queue
  <2> QED
    BY <2>1, <2>2
<1>3. \A x \in Ctx : ClientSide(x)'
  BY <1>1, OthersClient DEF NInv
<1>4. \A t \in Server : ServerSide(t)'
  BY <1>1, <1>2, SameFini, SameServer DEF NInv
<1> QED
  BY <1>3, <1>4 DEF NInv

LEMMA RouterNoFault ==
    ASSUME IInv, OInv, EInv, NInv, RouterStep
    PROVE  NInv'
  BY CreateNoFault, RequestNoFault, ClosedNoFault, RouterServerNoFault DEF RouterStep, OInv

\* A server starts, hears of a communicator or of its end, or carries out a
\* request.
LEMMA ServerLocalNoFault ==
    ASSUME IInv, EInv, FInv, NInv, NEW s \in Server,
           \/ ServerStart(s) \/ SrvrCommCreate(s) \/ SrvrCommDestroy(s) \/ SrvrReqLocal(s),
           UNCHANGED <<appVars, routerVars>>
    PROVE  NInv'
<1>1. /\ c2r' = c2r /\ clients' = clients /\ clientComms' = clientComms
      /\ commReqs' = commReqs /\ created' = created /\ open' = open
      /\ finiMap' = finiMap /\ pendingEvents' = pendingEvents
  BY DEF ServerStart, SrvrCommCreate, SrvrCommDestroy, SrvrReqLocal,
         contextVars, appVars, routerVars
<1>2. /\ \A x \in Ctx : ClientSide(x) /\ Closed(x)
      /\ \A t \in Server : ServerSide(t)
  BY DEF NInv, ClientSide
<1>3. \A x \in Ctx : ClientSide(x)'
  BY <1>1, <1>2, OthersClient
<1>4. \A t \in Server : FiniKnown(t)'
  BY <1>1, <1>2, SameFini
<1>5. commMap \in [Server -> SUBSET Comm]
  BY NoFaultTypes
<1>6. CASE ServerStart(s)
  <2>1. commMap' = commMap /\ \A t \in Server : Queue(t)' = Queue(t)
    BY <1>1, <1>6 DEF ServerStart, Queue
  <2> QED
    BY <1>1, <1>2, <1>3, <1>4, <2>1, SameServer DEF NInv
<1>7. ASSUME r2s[s] # <<>>, r2s' = Received(r2s, s),
             \A t \in Server \ {s} : commMap'[t] = commMap[t],
             IsCreate(Head(r2s[s])) => Head(r2s[s]).comm \in commMap'[s],
             \A m \in commMap[s] : m \in commMap'[s] \/ Owner[m] \notin clients
      PROVE  NInv'
  <2>1. ServerSide(s)'
    BY <1>1, <1>2, <1>4, <1>7, ReadServer
  <2>2. \A t \in Server \ {s} : ServerSide(t)'
    BY <1>1, <1>2, <1>4, <1>7, ReceivedQueue, SameServer
  <2> QED
    BY <1>3, <2>1, <2>2 DEF NInv
<1>8. CASE SrvrCommCreate(s)
  BY <1>5, <1>7, <1>8 DEF SrvrCommCreate, Arrives
<1>9. CASE SrvrCommDestroy(s)
  <2>1. /\ r2s[s] # <<>> /\ r2s' = Received(r2s, s) /\ Head(r2s[s]).type = "CommDestroy"
        /\ commMap' = [commMap EXCEPT ![s] = @ \ {Head(r2s[s]).comm}]
    BY <1>9 DEF SrvrCommDestroy, Arrives
  <2>2. Owner[Head(r2s[s]).comm] \notin clients
    <3>1. Head(r2s[s]) \in Elems(Queue(s))
      BY <1>1, <2>1, QueueTypes, QueueHead, ReceivedQueue, ElemsTail
    <3> QED
      BY <1>2, <2>1, <3>1 DEF ServerSide, Ended
  <2> QED
    BY <1>5, <1>7, <2>1, <2>2 DEF IsCreate
<1>10. CASE SrvrReqLocal(s)
  BY <1>7, <1>10 DEF SrvrReqLocal, Arrives, IsCreate
<1> QED
  BY <1>6, <1>8, <1>9, <1>10

\* A server sends a request on and keeps it until its own context has the answer.
LEMMA ForwardNoFault ==
    ASSUME IInv, EInv, FInv, NInv, NEW s \in Server, SrvrReqForward(s),
           UNCHANGED <<appVars, routerVars>>
    PROVE  NInv'
<1> DEFINE m == Nested[s]
           op == Head(r2s[s]).op
           id == Len(reqs[s]) + 1
<1>1. /\ r2s[s] # <<>> /\ r2s' = Received(r2s, s) /\ Head(r2s[s]).type = "CommReq"
      /\ Issue(s, m, op) /\ commMap' = commMap
      /\ \E key : key.req = id /\ finiMap' = [finiMap EXCEPT ![s] = @ \cup {key}]
  BY DEF SrvrReqForward, Arrives
<1>2. /\ clients' = clients /\ clientComms' = clientComms /\ open' = open
      /\ pendingEvents' = pendingEvents
  BY DEF appVars, routerVars
<1>3. /\ s \in Ctx /\ s \notin App /\ m \in Comm /\ Owner[m] = s /\ op \in Op
  <2>1. s \in Ctx /\ s \notin App /\ m \in Comm /\ Owner[m] = s
    BY PartiesAssumption, CommAssumption DEF SrvrReqForward, Forwards, Ctx
  <2>2. op \in Op
    BY NoFaultTypes, ServerEventType DEF SrvrReqForward
  <2> QED
    BY <2>1, <2>2
<1>4. /\ c2r \in [Ctx -> Seq(ClientEvent)] /\ commReqs \in [Ctx -> SUBSET EventId]
      /\ finiMap \in [Server -> SUBSET FiniEntry]
  BY NoFaultTypes
<1>5. /\ created' = created \cup {m} /\ commReqs'[s] = commReqs[s] \cup {id}
      /\ \A x \in Ctx \ {s} : c2r'[x] = c2r[x] /\ commReqs'[x] = commReqs[x]
  BY <1>1, <1>3, <1>4 DEF Issue, SendRequest
<1>6. /\ \A x \in Ctx : ClientSide(x) /\ Closed(x)
      /\ \A t \in Server : ServerSide(t)
  BY DEF NInv, ClientSide
<1> HIDE DEF m, op, id
<1>7. ASSUME NEW x \in Ctx
      PROVE  ClientSide(x)'
  <2>1. CASE x = s
    BY <1>1, <1>2, <1>3, <1>6, <2>1, IssueClient
  <2>2. CASE x # s
    BY <1>2, <1>3, <1>5, <1>6, <2>2, OthersClient
  <2> QED
    BY <2>1, <2>2
<1>8. FiniKnown(s)'
  <2>1. PICK key : key.req = id /\ finiMap'[s] = finiMap[s] \cup {key}
    BY <1>1, <1>4
  <2> QED
    BY <1>5, <1>6, <2>1 DEF ServerSide, FiniKnown
<1>9. ServerSide(s)'
  BY <1>1, <1>2, <1>6, <1>8, ReadServer DEF IsCreate
<1>10. ASSUME NEW t \in Server \ {s}
       PROVE  ServerSide(t)'
  <2>1. finiMap'[t] = finiMap[t] /\ commReqs'[t] = commReqs[t]
    BY <1>1, <1>4, <1>5 DEF Ctx
  <2>2. FiniKnown(t)'
    BY <1>6, <2>1 DEF ServerSide, FiniKnown
  <2>3. Queue(t)' = Queue(t)
    BY <1>1, <1>2, ReceivedQueue
  <2> QED
    BY <1>1, <1>2, <1>6, <2>2, <2>3, SameServer
<1> QED
  BY <1>7, <1>9, <1>10 DEF NInv

LEMMA ProgressNoFault ==
    ASSUME IInv, NInv, NEW s \in Server, SrvrMakeProgress(s),
           UNCHANGED <<appVars, routerVars>>
    PROVE  NInv'
<1> DEFINE i == Head(r2c[s]).id
<1>1. /\ c2r' = c2r /\ r2s' = r2s /\ created' = created /\ commMap' = commMap
      /\ commReqs' = [commReqs EXCEPT ![s] = @ \ {i}]
      /\ \E key : key.req = i /\ finiMap' = [finiMap EXCEPT ![s] = @ \ {key}]
  BY DEF SrvrMakeProgress, Consume
<1> HIDE DEF i
<1>2. /\ clients' = clients /\ clientComms' = clientComms /\ open' = open
      /\ pendingEvents' = pendingEvents
  BY DEF appVars, routerVars
<1>3. /\ commReqs \in [Ctx -> SUBSET EventId] /\ finiMap \in [Server -> SUBSET FiniEntry]
      /\ s \in Ctx
  BY NoFaultTypes DEF Ctx
<1>4. \A x \in Ctx : commReqs'[x] \subseteq commReqs[x]
  BY <1>1, <1>3
<1>5. \A x \in Ctx : ClientSide(x)'
  BY <1>1, <1>2, <1>4, OthersClient DEF NInv
<1>6. ASSUME NEW t \in Server
      PROVE  FiniKnown(t)'
  <2>1. PICK key : key.req = i /\ finiMap' = [finiMap EXCEPT ![s] = @ \ {key}]
    BY <1>1
  <2>2. FiniKnown(t)
    BY DEF NInv, ServerSide
  <2>3. CASE t # s
    <3>1. commReqs'[t] = commReqs[t] /\ finiMap'[t] = finiMap[t]
      BY <1>1, <1>3, <2>1, <2>3 DEF Ctx
    <3> QED
      BY <2>2, <3>1 DEF FiniKnown
  <2>4. CASE t = s
    <3>1. commReqs'[s] = commReqs[s] \ {i} /\ finiMap'[s] = finiMap[s] \ {key}
      BY <1>1, <1>3, <2>1
    <3> QED
      BY <2>1, <2>2, <2>4, <3>1 DEF FiniKnown
  <2> QED
    BY <2>3, <2>4
<1>7. \A t \in Server : Queue(t)' = Queue(t)
  BY <1>1, <1>2 DEF Queue
<1>8. \A t \in Server : ServerSide(t)'
  BY <1>1, <1>2, <1>6, <1>7, SameServer DEF NInv
<1> QED
  BY <1>5, <1>8 DEF NInv

LEMMA ServerNoFault ==
    ASSUME IInv, EInv, FInv, NInv, NEW s \in Server, ServerStep(s)
    PROVE  NInv'
  BY ServerLocalNoFault, ForwardNoFault, ProgressNoFault DEF ServerStep

\* The servers do not see what an application does with its own context.
LEMMA AppServers ==
    ASSUME IInv, NInv, NEW x \in App, r2s' = r2s, UNCHANGED <<serverVars, routerVars>>,
           \A y \in Ctx \ {x} : commReqs'[y] = commReqs[y]
    PROVE  \A s \in Server : ServerSide(s)'
<1> SUFFICES ASSUME NEW s \in Server PROVE ServerSide(s)'
  OBVIOUS
<1>1. /\ clients' = clients /\ clientComms' = clientComms /\ commMap' = commMap
      /\ finiMap' = finiMap /\ pendingEvents' = pendingEvents
  BY DEF serverVars, routerVars
<1>2. s \in Ctx /\ s # x
  BY PartiesAssumption DEF Ctx
<1>3. Queue(s)' = Queue(s) /\ commReqs'[s] = commReqs[s] /\ ServerSide(s)
  BY <1>1, <1>2 DEF Queue, NInv
<1> QED
  BY <1>1, <1>3, SameFini, SameServer

LEMMA AppNoFault ==
    ASSUME IInv, NInv, NEW x \in App, AppCall(x) \/ AppRun(x)
    PROVE  NInv'
<1>1. /\ r2s' = r2s /\ UNCHANGED <<serverVars, routerVars>>
      /\ clients' = clients /\ clientComms' = clientComms /\ x \in Ctx
  BY DEF AppCall, AppRun, routerVars, Ctx
<1>2. \A y \in Ctx : ClientSide(y)
  BY DEF NInv
<1>3. /\ c2r \in [Ctx -> Seq(ClientEvent)] /\ commReqs \in [Ctx -> SUBSET EventId]
  BY NoFaultTypes
<1>4. ASSUME NEW m \in Comm, NEW op \in Op, Submit(x, m, op)
      PROVE  NInv'
  <2>1. /\ Issue(x, m, op) /\ Owner[m] = x /\ x \in open /\ open' = open
    BY <1>4 DEF Submit, Running, appVars
  <2>2. /\ created' = created \cup {m}
        /\ \A y \in Ctx \ {x} : c2r'[y] = c2r[y] /\ commReqs'[y] = commReqs[y]
    BY <1>3, <2>1 DEF Issue, SendRequest
  <2>3. ASSUME NEW y \in Ctx
        PROVE  ClientSide(y)'
    <3>1. CASE y = x
      BY <1>1, <1>2, <2>1, <3>1, IssueClient
    <3>2. CASE y # x
      BY <1>1, <1>2, <2>1, <2>2, <3>2, OthersClient
    <3> QED
      BY <3>1, <3>2
  <2>4. \A s \in Server : ServerSide(s)'
    BY <1>1, <2>2, AppServers
  <2> QED
    BY <2>3, <2>4 DEF NInv
<1>5. CASE Close(x)
  <2>1. /\ commReqs' = commReqs /\ created' = created /\ open' = open \ {x}
        /\ \A y \in Ctx \ {x} : c2r'[y] = c2r[y]
    BY <1>3, <1>5 DEF Close, Sent, contextVars
  <2>2. ASSUME NEW y \in Ctx
        PROVE  ClientSide(y)'
    <3>1. CASE y = x
      BY <1>1, <1>2, <1>5, <3>1, CloseClient
    <3>2. CASE y # x
      BY <1>1, <1>2, <2>1, <3>2, OthersClient
    <3> QED
      BY <3>1, <3>2
  <2>3. \A s \in Server : ServerSide(s)'
    BY <1>1, <2>1, AppServers
  <2> QED
    BY <2>2, <2>3 DEF NInv
<1>6. ASSUME c2r' = c2r, created' = created, open' = open,
             \/ commReqs' = commReqs
             \/ \E i : commReqs' = [commReqs EXCEPT ![x] = @ \ {i}]
      PROVE  NInv'
  <2>1. /\ \A y \in Ctx : commReqs'[y] \subseteq commReqs[y]
        /\ \A y \in Ctx \ {x} : commReqs'[y] = commReqs[y]
    BY <1>3, <1>6
  <2>2. \A y \in Ctx : ClientSide(y)'
    BY <1>1, <1>2, <1>6, <2>1, OthersClient
  <2>3. \A s \in Server : ServerSide(s)'
    BY <1>1, <2>1, AppServers
  <2> QED
    BY <2>2, <2>3 DEF NInv
<1>7. ASSUME NEW i \in Ids, Wait(x, i)
      PROVE  NInv'
  BY <1>6, <1>7 DEF Wait, contextVars
<1>8. CASE AppRun(x)
  <2>1. CASE WaitReturn(x)
    BY <1>6, <2>1 DEF WaitReturn, contextVars
  <2>2. CASE WaitEvent(x) \/ MakeProgress(x)
    BY <1>6, <2>2 DEF WaitEvent, MakeProgress, Consume
  <2> QED
    BY <1>8, <2>1, <2>2 DEF AppRun
<1> QED
  BY <1>4, <1>5, <1>7, <1>8 DEF AppCall

LEMMA StutterNoFault ==
    ASSUME NInv, UNCHANGED vars
    PROVE  NInv'
<1>1. /\ c2r' = c2r /\ clients' = clients /\ clientComms' = clientComms
      /\ commReqs' = commReqs /\ created' = created /\ open' = open
      /\ commMap' = commMap /\ finiMap' = finiMap /\ \A s \in Server : Queue(s)' = Queue(s)
  BY DEF vars, channels, contextVars, appVars, serverVars, routerVars, Queue
<1>2. \A x \in Ctx : ClientSide(x)'
  BY <1>1, OthersClient DEF NInv
<1>3. \A s \in Server : ServerSide(s)'
  BY <1>1, SameFini, SameServer DEF NInv
<1> QED
  BY <1>2, <1>3 DEF NInv

LEMMA NextNoFault == IInv /\ OInv /\ EInv /\ FInv /\ NInv /\ [Next]_vars => NInv'
  BY RouterNoFault, ServerNoFault, AppNoFault, StutterNoFault DEF Next

LEMMA InitNoFault == Init => NInv
<1> SUFFICES ASSUME Init PROVE NInv
  OBVIOUS
<1>1. /\ \A c \in Ctx : c2r[c] = <<>> /\ clientComms[c] = {} /\ commReqs[c] = {}
      /\ \A s \in Server : r2s[s] = <<>> /\ pendingEvents[s] = <<>>
      /\ clients = Ctx /\ created = {}
  BY DEF Init, ChannelInit, ContextInit, RouterInit
<1>2. ASSUME NEW c \in Ctx
      PROVE  ClientSide(c)
  BY <1>1 DEF ClientSide, Closed, Told, Announced, Fresh, Elems
<1>3. ASSUME NEW s \in Server
      PROVE  ServerSide(s)
  <2>1. Len(Queue(s)) = 0
    <3>1. <<>> \o <<>> = <<>> /\ Len(<<>>) = 0
      BY EmptySeq, ConcatEmptySeq
    <3> QED
      BY <1>1, <3>1 DEF Queue
  <2>2. Ended(s) /\ Owned(s) /\ Known(s)
    BY <2>1 DEF Ended, Owned, Known, Elems
  <2>3. Introduced(s)
    BY <1>1 DEF Introduced
  <2>4. FiniKnown(s)
    BY <1>1 DEF FiniKnown, Ctx
  <2> QED
    BY <2>2, <2>3, <2>4 DEF ServerSide
<1> QED
  BY <1>2, <1>3 DEF NInv

-----------------------------------------------------------------------------
\* Nothing a handler relies on is missing (commReqEvent.h, commRespEvent.h,
\* server.cc), for every topology, provided that log and sample requests are for
\* one object, as the router asserts (commLogEvents.h:36).
THEOREM NoFaultCorrect == Spec /\ []LogsOneObject => []NoFault
<1>1. IInv /\ EInv /\ FInv /\ NInv /\ LogsOneObject => NoFault
  <2> SUFFICES ASSUME IInv, EInv, FInv, NInv, LogsOneObject
               PROVE  NoFault
    OBVIOUS
  <2>1. ASSUME NEW c \in Ctx
        PROVE  CommFresh(c) /\ CommKnown(c) /\ OneObjectLogs(c)
    <3>1. c2r[c] \in Seq(ClientEvent) /\ Told(c) /\ Fresh(c)
      BY NoFaultTypes DEF NInv, ClientSide
    <3>2. c2r[c] # <<>> => Head(c2r[c]) = c2r[c][1] /\ 1 \in 1 .. Len(c2r[c])
      BY <3>1, TailFacts
    <3>3. CommFresh(c)
      BY <3>1, <3>2 DEF CommFresh, Arrives, Fresh, IsCreate
    <3>4. CommKnown(c)
      <4>1. \A j \in 1 .. Len(c2r[c]) : ~ (j < 1)
        OBVIOUS
      <4> QED
        BY <3>1, <3>2, <4>1 DEF CommKnown, Arrives, Told, IsRequest
    <3> QED
      BY <3>3, <3>4 DEF LogsOneObject
  <2>2. ASSUME NEW s \in Server
        PROVE  InfoLive(s) /\ ObjectKnown(s) /\ FiniKnown(s)
    <3>1. Queue(s) \in Seq(ServerEvent) /\ Known(s) /\ FiniKnown(s)
      BY QueueTypes DEF NInv, ServerSide
    <3>2. InfoLive(s)
      BY LiveAnswer DEF NInv, ClientSide
    <3>3. ObjectKnown(s)
      <4> SUFFICES ASSUME r2s[s] # <<>>, IsRequest(Head(r2s[s]))
                   PROVE  Head(r2s[s]).comm \in commMap[s]
        BY DEF ObjectKnown, Arrives, IsRequest
      <4>1. Queue(s) # <<>>
        BY QueueHead
      <4>2. Head(r2s[s]) = Queue(s)[1] /\ 1 \in 1 .. Len(Queue(s))
        BY <3>1, <4>1, QueueHead, TailFacts
      <4>3. \A j \in 1 .. Len(Queue(s)) : ~ (j < 1)
        OBVIOUS
      <4> QED
        BY <3>1, <4>2, <4>3 DEF Known
    <3> QED
      BY <3>1, <3>2, <3>3
  <2>3. \A x \in Ctx : AnswerExpected(x)
    BY ExpectedAnswers
  <2> QED
    BY <2>1, <2>2, <2>3 DEF NoFault
<1> QED
  BY <1>1, InitIInv, NextIInv, InitOrder, NextOrder, InitPlaces, NextPlaces,
     InitFanOut, NextFanOut, InitNoFault, NextNoFault, PTL DEF Spec
=============================================================================
