------------------------------- MODULE Daemon -------------------------------
(***************************************************************************)
(* The whole of one router's domain: applications, router and servers, the *)
(* servers' own contexts among the router's clients.  Every process is a   *)
(* single thread; they share nothing but the connections.                  *)
(***************************************************************************)
EXTENDS Application, Server, Router

vars == <<channels, contextVars, appVars, serverVars, routerVars>>

Init ==
    /\ ChannelInit
    /\ ContextInit
    /\ AppInit
    /\ ServerInit
    /\ RouterInit

RouterStep ==
    /\ \/ \E c \in Ctx : RtrCommCreate(c) \/ RtrCommReq(c) \/ RtrClientClosed(c)
       \/ \E s \in Server : RtrServerConnect(s) \/ RtrRespQueue(s) \/ RtrRespSend(s)
    /\ UNCHANGED <<contextVars, appVars, serverVars>>

ServerStep(s) ==
    /\ \/ ServerStart(s)
       \/ SrvrCommCreate(s)
       \/ SrvrCommDestroy(s)
       \/ SrvrReqLocal(s)
       \/ SrvrReqForward(s)
       \/ SrvrMakeProgress(s)
    /\ UNCHANGED <<appVars, routerVars>>

AppCall(x) ==
    /\ \/ \E m \in Comm, op \in Op : Submit(x, m, op)
       \/ \E i \in Ids : Wait(x, i)
       \/ Close(x)
    /\ UNCHANGED <<s2r, r2s, serverVars, routerVars>>

AppRun(x) ==
    /\ WaitEvent(x) \/ WaitReturn(x) \/ MakeProgress(x)
    /\ UNCHANGED <<s2r, r2s, serverVars, routerVars>>

Next ==
    \/ RouterStep
    \/ \E s \in Server : ServerStep(s)
    \/ \E x \in App : AppCall(x) \/ AppRun(x)

Spec == Init /\ [][Next]_vars

\* Router and servers loop over select(), and an application inside
\* PWR_ReqWait loops over read().  The select of TcpChannelSelect::wait serves
\* the lowest descriptor that is ready, so no connection is owed its turn: only
\* the loop as a whole is.  Nothing makes an application call the library.
Fairness ==
    /\ WF_vars(RouterStep)
    /\ \A s \in Server : WF_vars(ServerStep(s))
    /\ \A x \in App : WF_vars(AppRun(x))

FairSpec == Spec /\ Fairness

-----------------------------------------------------------------------------
TypeOK ==
    /\ ChannelTypeOK
    /\ ContextTypeOK
    /\ AppTypeOK
    /\ ServerTypeOK
    /\ RouterTypeOK

(***************************************************************************)
(* No handler is ever called in a state it asserts away or would read      *)
(* freed memory in: the communicator of a request is known to the router   *)
(* and to the server (m_commMap[commID].objects[0]), an answer finds its   *)
(* CommReqInfo and that its client, the answer to a server's own request   *)
(* finds its entry in m_finiMap, and no CommReq is answered twice.         *)
(***************************************************************************)
NoFault ==
    /\ \A c \in Ctx : CommFresh(c) /\ CommKnown(c) /\ OneObjectLogs(c)
    /\ \A s \in Server : InfoLive(s) /\ ObjectKnown(s)
    /\ \A x \in Ctx : AnswerExpected(x)
    /\ \A s \in Server : FiniKnown(s)

\* "don't support more that one object at this time" (commLogEvents.h:36): the
\* router asserts that a log or sample request is for one object.
LogsOneObject == \A c \in Ctx : OneObjectLogs(c)

-----------------------------------------------------------------------------
Positions(q, Test(_)) == Cardinality({k \in 1 .. Len(q) : Test(q[k])})

IsReq(ev, id, g) == ev.type = "CommReq" /\ ev.id = id /\ ev.grp = g
IsResp(ev, id, g) == ev.type = "CommResp" /\ ev.id = id /\ ev.grp = g

\* How many copies of the request for list g of id, or of its answer, are on
\* their way to s, at s, or on their way back.
Copies(s, id, g) ==
      Positions(pendingEvents[s], LAMBDA ev : IsReq(ev, id, g))
    + Positions(r2s[s], LAMBDA ev : IsReq(ev, id, g))
    + Cardinality({key \in finiMap[s] : key.id = id /\ key.grp = g})
    + Positions(s2r[s], LAMBDA ev : IsResp(ev, id, g))

\* RtrCommRespEvent counts pending down once for each list it completes, so
\* that a response goes out when no list is incomplete and not before.
PendingCounts ==
    \A id \in DOMAIN reqInfo : reqInfo[id].pending = Cardinality(Incomplete(reqInfo[id]))

(***************************************************************************)
(* The fan-out accounting of RtrCommReqEvent and RtrCommRespEvent: for     *)
(* each list of a live CommReqInfo, every object of the list either has    *)
(* answered or has exactly one copy of the request in the system.          *)
(***************************************************************************)
FanOut ==
    \A id \in DOMAIN reqInfo :
        LET info == reqInfo[id]
        IN  \A g \in Lists(info.comm) :
              LET list == Members[info.comm][g]
              IN  /\ \A s \in Server :
                       Copies(s, id, g) <= (IF s \in list THEN 1 ELSE 0)
                  /\ info.got[g] = Cardinality({s \in list : Copies(s, id, g) = 0})

\* Every CommReq a context waits for is in exactly one place: on its way to the
\* router, a live CommReqInfo, or an answer on its way back.
EndToEnd ==
    \A x \in Ctx : \A i \in 1 .. Len(reqs[x]) :
          Positions(c2r[x], LAMBDA ev : ev.type = "CommReq" /\ ev.id = i)
        + Cardinality({id \in DOMAIN reqInfo : id = <<x, i>>})
        + Positions(r2c[x], LAMBDA ev : ev.id = i)
        = IF i \in commReqs[x] THEN 1 ELSE 0

\* The requests of one client reach a server in the order they were made, also
\* across the flush of the pending events when the server connects: a Set is
\* carried out before a Get that was made after it.
InOrder ==
    \A s \in Server :
        LET q == r2s[s] \o pendingEvents[s]
            Req(k) == q[k].type = "CommReq"
        IN  \A j, k \in 1 .. Len(q) :
                (j < k /\ Req(j) /\ Req(k) /\ q[j].id[1] = q[k].id[1]) =>
                    \/ q[j].id[2] < q[k].id[2]
                    \/ q[j].id[2] = q[k].id[2] /\ q[j].grp < q[k].grp

-----------------------------------------------------------------------------
\* The devices an attribute of server s stands for: its own, or those of its
\* remote sources.
Contribution[s \in Server] ==
    IF Nested[s] = NoComm
    THEN IF s \in Device THEN Reading(s) ELSE Zero
    ELSE [d \in Server |->
            MapThenSumSet(LAMBDA t : Contribution[t][d], Members[Nested[s]][1])]

ListSum(m) ==
    [g \in Lists(m) |->
        [d \in Server |-> MapThenSumSet(LAMBDA t : Contribution[t][d], Members[m][g])]]

Expected(req) ==
    [value |-> IF req.op \in {"Get", "Samples"} THEN ListSum(req.comm) ELSE <<>>,
     err |-> {}]

\* Requests the context has received the answer of.
Answered(x) == (1 .. Len(reqs[x])) \ commReqs[x]

(***************************************************************************)
(* What an application reads is the sum over exactly the devices its       *)
(* object stands for, each counted once, list by list in the order of the  *)
(* group, whichever requests and answers overtook each other.              *)
(***************************************************************************)
AnswersExact ==
    \A x \in App : \A i \in Answered(x) : answer[x][i] = Expected(reqs[x][i])

\* "errors will be flagged in the status structure" (distObject.cc:93): an
\* answer without errors is complete.
ErrorsFlagged ==
    \A x \in App : \A i \in Answered(x) :
        answer[x][i].err = {} => answer[x][i] = Expected(reqs[x][i])

\* The sets asked of the device of s by the requests made so far: one for each
\* list that names s.
SetsOf(s, x, i) ==
    {<<x, i, g>> : g \in {h \in Lists(reqs[x][i].comm) :
                              reqs[x][i].op = "Set" /\ s \in Members[reqs[x][i].comm][h]}}
SetsAsked(s) == UNION {UNION {SetsOf(s, x, i) : i \in 1 .. Len(reqs[x])} : x \in App}

Asked(s) == Cardinality(SetsAsked(s))

(***************************************************************************)
(* A set request is carried out once on the device of every object it was  *)
(* addressed to and on no other, unless the device fails: at all times no  *)
(* device has been set more often than it was asked, and when no request   *)
(* is outstanding a device that works has been set as often.               *)
(***************************************************************************)
SetExactlyOnce ==
    \A s \in Device :
        /\ applied[s] <= Asked(s)
        /\ (s \notin Flaky /\ \A x \in App : commReqs[x] = {}) => applied[s] = Asked(s)

\* The callback of a request runs at most once, after its answer has arrived.
CallbackOnce ==
    \A x \in App, i \in Ids :
        /\ called[x][i] <= 1
        /\ called[x][i] = 1 => i \in Answered(x)

-----------------------------------------------------------------------------
\* PWR_ReqWait returns: no cycle of waiting between the single-threaded
\* processes, and no answer that goes missing.
WaitReturns == \A x \in App : waiting[x] # 0 ~> waiting[x] = 0

\* When a client has gone, the servers forget its DistComms.  (Client::~Client
\* destroys the first list only, so not the DistGrpComms.)
Forgotten(m) == \A s \in Server : m \notin commMap[s]
CommsReclaimed ==
    \A m \in Comm :
        (Len(Members[m]) = 1 /\ Owner[m] \in App \ open) ~> Forgotten(m)

(***************************************************************************)
(* Seen by an application, the whole system answers each request once, in  *)
(* any order, and leaves the answer alone afterwards.  A device that fails *)
(* is missing from the sum; nothing else is.                               *)
(***************************************************************************)
Fits(req, ans) ==
    /\ ans.err = {}
    /\ DOMAIN ans.value = DOMAIN Expected(req).value
    /\ \A g \in DOMAIN ans.value, d \in Server :
         LET exact == Expected(req).value[g][d]
         IN  IF d \in Flaky THEN ans.value[g][d] \in 0 .. exact
                            ELSE ans.value[g][d] = exact

Remote == INSTANCE RemoteRequest WITH
              Client <- App,
              made <- [x \in App |-> reqs[x]],
              outstanding <- [x \in App |-> commReqs[x]]
RemoteSpec == Remote!Spec
=============================================================================
