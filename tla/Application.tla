---------------------------- MODULE Application ----------------------------
(***************************************************************************)
(* An application process.  It makes non-blocking requests, then waits for *)
(* them in any order with PWR_ReqWait, or, if it is a poller, lets         *)
(* PWR_CntxtMakeProgress run its callbacks.  A blocking call is a request  *)
(* followed by its wait.  It may close its context when it has no request  *)
(* outstanding.                                                            *)
(***************************************************************************)
EXTENDS Context

CONSTANTS
    Poller,     \* applications that call PWR_CntxtMakeProgress, never PWR_ReqWait
    Allowed,    \* Allowed[m]: the operations an application asks of m
    MaxReq      \* bound on the requests of one application

VARIABLES
    waiting,    \* the request PWR_ReqWait is blocked on, 0 if none
    waited,     \* the requests PWR_ReqWait has been called for
    answer,     \* what the application's buffers and Status hold
    called,     \* how often the callback of a request has run
    open        \* the applications that have not closed their context

appVars == <<waiting, waited, answer, called, open>>

ASSUME UseAssumption ==
    /\ Poller \subseteq App
    /\ MaxReq \in Nat
    /\ Allowed \in [Comm -> SUBSET Op]
    /\ \A m \in Comm : "Set" \in Allowed[m] => Plain(m)

Ids == 1 .. MaxReq
Answer == [value : Seq(Value), err : SUBSET Server]
NoAnswer == [value |-> <<>>, err |-> {}]

AppTypeOK ==
    /\ waiting \in [App -> {0} \cup Ids]
    /\ waited \in [App -> SUBSET Ids]
    /\ answer \in [App -> [Ids -> Answer]]
    /\ called \in [App -> [Ids -> Nat]]
    /\ open \subseteq App

AppInit ==
    /\ waiting = [x \in App |-> 0]
    /\ waited = [x \in App |-> {}]
    /\ answer = [x \in App |-> [i \in Ids |-> NoAnswer]]
    /\ called = [x \in App |-> [i \in Ids |-> 0]]
    /\ open = App

-----------------------------------------------------------------------------
Running(x) == x \in open /\ waiting[x] = 0

\* A non-blocking call on an object, or the remote half of a group call.
Submit(x, m, op) ==
    /\ Running(x)
    /\ Owner[m] = x
    /\ op \in Allowed[m]
    /\ Len(reqs[x]) < MaxReq
    /\ Issue(x, m, op)
    /\ UNCHANGED <<r2c, appVars>>

\* PWR_ReqWait is entered.
Wait(x, i) ==
    /\ Running(x)
    /\ x \notin Poller
    /\ i \in (1 .. Len(reqs[x])) \ waited[x]
    /\ waiting' = [waiting EXCEPT ![x] = i]
    /\ waited' = [waited EXCEPT ![x] = @ \cup {i}]
    /\ UNCHANGED <<c2r, r2c, contextVars, answer, called, open>>

\* The values and errors of an event go to the buffers of the request it
\* answers, which need not be the one being waited for.  A mutant confuses the
\* two.
StoreForWaiter(x, ev) ==
    answer' = [answer EXCEPT ![x][waiting[x]] = [value |-> ev.value, err |-> ev.err]]
Store(x, ev) ==
    answer' = [answer EXCEPT ![x][ev.id] = [value |-> ev.value, err |-> ev.err]]

Callback(x, i) == called' = [called EXCEPT ![x][i] = @ + 1]
NoCallback(x, i) == UNCHANGED called

\* One turn of the loop in DistRequest::wait.
WaitEvent(x) ==
    /\ waiting[x] \in commReqs[x]
    /\ Consume(x)
    /\ AnswerExpected(x)
    /\ Store(x, Head(r2c[x]))
    /\ NoCallback(x, Head(r2c[x]).id)
    /\ UNCHANGED <<c2r, waiting, waited, open>>

\* The loop ends: execCallback, and PWR_ReqWait returns.
WaitReturn(x) ==
    /\ waiting[x] # 0
    /\ waiting[x] \notin commReqs[x]
    /\ Callback(x, waiting[x])
    /\ waiting' = [waiting EXCEPT ![x] = 0]
    /\ UNCHANGED <<c2r, r2c, contextVars, waited, answer, open>>

\* DistCntxt::makeProgress: one event, then the callback of its request.
MakeProgress(x) ==
    /\ Running(x)
    /\ x \in Poller
    /\ Consume(x)
    /\ AnswerExpected(x)
    /\ Store(x, Head(r2c[x]))
    /\ Callback(x, Head(r2c[x]).id)
    /\ UNCHANGED <<c2r, waiting, waited, open>>

\* PWR_CntxtDestroy deletes the event channel, which closes the connection.
Close(x) ==
    /\ Running(x)
    /\ commReqs[x] = {}
    /\ open' = open \ {x}
    /\ c2r' = Sent(c2r, x, Eof)
    /\ UNCHANGED <<r2c, contextVars, waiting, waited, answer, called>>
=============================================================================
