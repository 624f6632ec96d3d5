------------------------------ MODULE Context ------------------------------
(***************************************************************************)
(* The client library: a DistCntxt and the DistObjects, DistComms and      *)
(* DistRequests built on it.  Applications use it through the C API,       *)
(* servers to reach the remote children of their root object.              *)
(***************************************************************************)
EXTENDS Events

VARIABLES
    reqs,       \* requests made so far; the position of a request is its id
    commReqs,   \* ids in the m_commReqs of some request: not answered yet
    created     \* communicators the router has been told about (m_ec # NULL)

contextVars == <<reqs, commReqs, created>>

Request == [comm : Comm, op : Op]

ContextTypeOK ==
    /\ reqs \in [Ctx -> Seq(Request)]
    /\ commReqs \in [Ctx -> SUBSET EventId]
    /\ created \subseteq Comm

ContextInit ==
    /\ reqs = [x \in Ctx |-> <<>>]
    /\ commReqs = [x \in Ctx |-> {}]
    /\ created = {}

-----------------------------------------------------------------------------
\* DistComm::getChannel: the CommCreateEvent goes out with the first request.
\* A mutant forgets that the router has to be told before it is asked.
FirstUse(m) == IF m \in created THEN <<>> ELSE <<CommCreateEvent(m)>>

RequestThenCreate(x, m, op, id) ==
    c2r' = [c2r EXCEPT ![x] = Append(@, CommReqEvent(m, op, id)) \o FirstUse(m)]

SendRequest(x, m, op, id) ==
    c2r' = [c2r EXCEPT ![x] = Append(@ \o FirstUse(m), CommReqEvent(m, op, id))]

\* DistObject::attrGetValues, attrSetValues, attrStartLog, attrStopLog,
\* attrGetSamples and the remote half of DistGrp::attrGetValues and
\* attrSetValues: a new CommReq joins the request and its event is sent.
Issue(x, m, op) ==
    LET id == Len(reqs[x]) + 1
    IN  /\ reqs' = [reqs EXCEPT ![x] = Append(@, [comm |-> m, op |-> op])]
        /\ commReqs' = [commReqs EXCEPT ![x] = @ \cup {id}]
        /\ created' = created \cup {m}
        /\ SendRequest(x, m, op, id)

\* DistRequest::wait and DistCntxt::makeProgress read the next event, whatever
\* request it answers; getValue, setValue, setRetval and getSamples take the
\* CommReq out of its request.
Consume(x) ==
    /\ r2c[x] # <<>>
    /\ r2c' = Received(r2c, x)
    /\ commReqs' = [commReqs EXCEPT ![x] = @ \ {Head(r2c[x]).id}]
    /\ UNCHANGED <<reqs, created>>

\* An answer belongs to a request that waits for it: nothing is answered twice
\* and no CommReq outlives its DistRequest.
AnswerExpected(x) == \A k \in 1 .. Len(r2c[x]) : r2c[x][k].id \in commReqs[x]
=============================================================================
