------------------------------- MODULE Server -------------------------------
(***************************************************************************)
(* A pwrdaemon server: one thread that takes one event at a time, from the *)
(* router or from its own context.  A request on the root object is        *)
(* carried out on the local device, and, when the attribute has remote     *)
(* sources, forwarded through the server's context; the entry in m_finiMap *)
(* keeps the request until the answer can be sent.                         *)
(***************************************************************************)
EXTENDS Context

VARIABLES
    up,         \* servers that have connected to the router
    commMap,    \* m_commMap: the communicators a server has an object for
    finiMap,    \* m_finiMap: requests waiting for the server's own context
    applied     \* how many times the device of a server has been set

serverVars == <<up, commMap, finiMap, applied>>

\* The event kept in m_finiMap, with the id of the CommReq made on its behalf.
FiniEntry == [id : InfoId, grp : Nat, op : Op, req : EventId]

ServerTypeOK ==
    /\ up \subseteq Server
    /\ commMap \in [Server -> SUBSET Comm]
    /\ finiMap \in [Server -> SUBSET FiniEntry]
    /\ applied \in [Server -> Nat]

ServerInit ==
    /\ up = {}
    /\ commMap = [s \in Server |-> {}]
    /\ finiMap = [s \in Server |-> {}]
    /\ applied = [s \in Server |-> 0]

-----------------------------------------------------------------------------
\* The constructor: connect and introduce the root object.
ServerStart(s) ==
    /\ s \notin up
    /\ up' = up \cup {s}
    /\ s2r' = Sent(s2r, s, ServerConnectEvent)
    /\ UNCHANGED <<c2r, r2c, r2s, contextVars, commMap, finiMap, applied>>

SrvrCommCreate(s) ==
    /\ Arrives(r2s[s], "CommCreate")
    /\ r2s' = Received(r2s, s)
    /\ commMap' = [commMap EXCEPT ![s] = @ \cup {Head(r2s[s]).comm}]
    /\ UNCHANGED <<c2r, r2c, s2r, contextVars, up, finiMap, applied>>

SrvrCommDestroy(s) ==
    /\ Arrives(r2s[s], "CommDestroy")
    /\ r2s' = Received(r2s, s)
    /\ commMap' = [commMap EXCEPT ![s] = @ \ {Head(r2s[s]).comm}]
    /\ UNCHANGED <<c2r, r2c, s2r, contextVars, up, finiMap, applied>>

\* m_commMap[commID].objects[0] is an element of an empty vector otherwise.
ObjectKnown(s) ==
    Arrives(r2s[s], "CommReq") => Head(r2s[s]).comm \in commMap[s]

-----------------------------------------------------------------------------
\* Whether the local call succeeds: without a device the attribute is not
\* valid, and the device of a flaky server may fail.
Outcomes(s) == IF s \in Flaky THEN BOOLEAN ELSE {s \in Device}

\* An attribute that can be set does not aggregate, so it has no remote source.
Forwards(s, op) == Nested[s] # NoComm /\ op # "Set"

LocalValue(s, op, ok) ==
    IF op \in {"Get", "Samples"} /\ ok THEN Reading(s) ELSE Zero

\* A mutant sets the device on every request.
ApplySetUnchecked(s, op, ok) ==
    applied' = IF ok THEN [applied EXCEPT ![s] = @ + 1] ELSE applied

ApplySet(s, op, ok) ==
    applied' = IF op = "Set" /\ ok
               THEN [applied EXCEPT ![s] = @ + 1]
               ELSE applied

\* The request is complete when the non-blocking call returns: its callback
\* has run, or the call has failed and the handler runs it.  A failure goes to
\* a Status that the non-blocking attrGetValues and attrSetValues declare
\* themselves (the log and sample calls use none), so requestFini finds the
\* Status of the request empty and the answer carries no error.
SrvrReqLocal(s) ==
    /\ Arrives(r2s[s], "CommReq")
    /\ ObjectKnown(s)
    /\ ~ Forwards(s, Head(r2s[s]).op)
    /\ r2s' = Received(r2s, s)
    /\ \E ok \in Outcomes(s) :
         LET ev == Head(r2s[s])
         IN  /\ ApplySet(s, ev.op, ok)
             /\ s2r' = Sent(s2r, s, CommRespEvent(ev.id, ev.grp,
                                        LocalValue(s, ev.op, ok), {}))
    /\ UNCHANGED <<c2r, r2c, contextVars, up, commMap, finiMap>>

\* The attribute has remote sources and no device, so the call cannot fail: the
\* request goes out again through the context.
SrvrReqForward(s) ==
    /\ Arrives(r2s[s], "CommReq")
    /\ ObjectKnown(s)
    /\ Forwards(s, Head(r2s[s]).op)
    /\ r2s' = Received(r2s, s)
    /\ LET ev == Head(r2s[s])
           key == [id |-> ev.id, grp |-> ev.grp, op |-> ev.op,
                   req |-> Len(reqs[s]) + 1]
       IN  /\ Issue(s, Nested[s], ev.op)
           /\ finiMap' = [finiMap EXCEPT ![s] = @ \cup {key}]
    /\ UNCHANGED <<r2c, s2r, up, commMap, applied>>

-----------------------------------------------------------------------------
\* Server::fini looks the event up and asserts that it is there.
FiniKnown(s) ==
    \A i \in commReqs[s] : \E key \in finiMap[s] : key.req = i

\* DistRequest::getValue copies the one value of the event over the local one.
Overwrite(ev) == IF ev.value = <<>> THEN Zero ELSE ev.value[1]

\* The server's context has an answer: makeProgress runs requestFini (or
\* logReqFini, getSamplesFini), which sends the answer up and erases the entry.
SrvrMakeProgress(s) ==
    /\ Consume(s)
    /\ AnswerExpected(s)
    /\ FiniKnown(s)
    /\ \E key \in finiMap[s] :
         LET ev == Head(r2c[s])
         IN  /\ key.req = ev.id
             /\ s2r' = Sent(s2r, s, CommRespEvent(key.id, key.grp,
                                                  Overwrite(ev), ev.err))
             /\ finiMap' = [finiMap EXCEPT ![s] = @ \ {key}]
    /\ UNCHANGED <<c2r, r2s, up, commMap, applied>>
=============================================================================
